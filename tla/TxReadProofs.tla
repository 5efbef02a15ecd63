----------------------------- MODULE TxReadProofs -----------------------------
(***************************************************************************)
(* What TLAPS proves of TxRead, for every account, page size and number of *)
(* attempts, and whatever the node answers for a transaction: the reading  *)
(* implements HistoryAnswer.                                               *)
(***************************************************************************)
EXTENDS TxRead, SequenceTheorems, WellFoundedInduction, TLAPS

-------------------------------------------------------------------------------
(* Runs of transactions, forwards and backwards.                           *)

\* The transactions back to one are a sequence.
LEMMA BackSeq ==
  ASSUME NEW last \in Int, NEW first \in Int, first <= last + 1
  PROVE  /\ Back(last, first) \in Seq(Int)
         /\ Len(Back(last, first)) = last - first + 1
         /\ \A i \in 1..(last - first + 1) : Back(last, first)[i] = last - i + 1
<1>1. last - first + 1 \in Nat
  OBVIOUS
<1>2. \A i \in 1..(last - first + 1) : last - i + 1 \in Int
  OBVIOUS
<1> QED
  BY <1>1, <1>2 DEF Back

\* The transactions before one, back to another.
LEMMA BeforeSeq ==
  ASSUME NEW mid \in Int, NEW first \in Int, first <= mid
  PROVE  /\ Back(mid - 1, first) \in Seq(Int)
         /\ Len(Back(mid - 1, first)) = mid - first
         /\ \A i \in 1..(mid - first) : Back(mid - 1, first)[i] = mid - i
<1> DEFINE last == mid - 1
<1>1. last \in Int /\ first <= last + 1 /\ last - first + 1 = mid - first
      /\ \A i \in 1..(mid - first) : last - i + 1 = mid - i
  OBVIOUS
<1> HIDE DEF last
<1>2. /\ Back(last, first) \in Seq(Int) /\ Len(Back(last, first)) = last - first + 1
      /\ \A i \in 1..(last - first + 1) : Back(last, first)[i] = last - i + 1
  BY <1>1, BackSeq
<1>3. /\ Back(last, first) \in Seq(Int) /\ Len(Back(last, first)) = mid - first
      /\ \A i \in 1..(mid - first) : Back(last, first)[i] = mid - i
  BY <1>1, <1>2
<1> QED
  BY <1>3 DEF last

\* There are none back to one that comes later.
LEMMA BackEmpty ==
  ASSUME NEW last \in Int PROVE Back(last, last + 1) = <<>>
<1> DEFINE first == last + 1
<1>1. first \in Int /\ first <= last + 1 /\ last - first + 1 = 0
  OBVIOUS
<1> HIDE DEF first
<1>2. Back(last, first) \in Seq(Int) /\ Len(Back(last, first)) = 0
  BY <1>1, BackSeq
<1>3. Back(last, first) = <<>>
  BY <1>2, EmptySeq
<1> QED
  BY <1>3 DEF first

\* So are those of a run.
LEMMA RunSeq ==
  ASSUME NEW from \in Int, NEW to \in Int, from <= to
  PROVE  /\ Run(from, to) \in Seq(Int)
         /\ Len(Run(from, to)) = to - from
         /\ \A i \in 1..(to - from) : Run(from, to)[i] = from + i
<1>1. to - from \in Nat
  OBVIOUS
<1>2. \A i \in 1..(to - from) : from + i \in Int
  OBVIOUS
<1> QED
  BY <1>1, <1>2 DEF Run

\* Transactions of the account are no sequence of others.
LEMMA RunSigs ==
  ASSUME NEW from \in Nat, NEW to \in 0..NumTxs, from <= to
  PROVE  Run(from, to) \in Seq(Sigs)
<1>1. to - from \in Nat /\ \A i \in 1..(to - from) : from + i \in Sigs
  BY HistoryAssumption DEF Sigs
<1> QED
  BY <1>1 DEF Run

\* The transactions back to one are all of the account.
LEMMA BackSigs ==
  ASSUME NEW last \in 0..NumTxs, NEW first \in Nat \ {0}, first <= last + 1
  PROVE  Back(last, first) \in Seq(Sigs)
<1>1. last - first + 1 \in Nat /\ \A i \in 1..(last - first + 1) : last - i + 1 \in Sigs
  BY HistoryAssumption DEF Sigs
<1> QED
  BY <1>1 DEF Back

\* A page continues the pages before it.
LEMMA BackJoins ==
  ASSUME NEW last \in Int, NEW mid \in Int, NEW first \in Int,
         first <= mid, mid <= last + 1
  PROVE  Back(last, mid) \o Back(mid - 1, first) = Back(last, first)
<1> DEFINE s == Back(last, mid)
           t == Back(mid - 1, first)
           u == Back(last, first)
<1>1. /\ s \in Seq(Int) /\ Len(s) = last - mid + 1
      /\ \A i \in 1..(last - mid + 1) : s[i] = last - i + 1
  BY BackSeq
<1>2. /\ t \in Seq(Int) /\ Len(t) = mid - first
      /\ \A i \in 1..(mid - first) : t[i] = mid - i
  BY BeforeSeq
<1>3. /\ u \in Seq(Int) /\ Len(u) = last - first + 1
      /\ \A i \in 1..(last - first + 1) : u[i] = last - i + 1
  <2>1. first <= last + 1
    OBVIOUS
  <2> QED
    BY <2>1, BackSeq
<1> HIDE DEF s, t, u
<1>4. Len(s \o t) = Len(u) /\ s \o t \in Seq(Int)
  <2>1. Len(s \o t) = Len(s) + Len(t) /\ s \o t \in Seq(Int)
    BY <1>1, <1>2, ConcatProperties
  <2> QED
    BY <1>1, <1>2, <1>3, <2>1
<1>5. ASSUME NEW i \in 1..Len(u) PROVE (s \o t)[i] = u[i]
  <2>a. \A j \in 1..(Len(s) + Len(t)) :
           (s \o t)[j] = IF j <= Len(s) THEN s[j] ELSE t[j - Len(s)]
    BY <1>1, <1>2, ConcatProperties
  <2>b. i \in Int /\ Len(s) \in Int /\ Len(u) = Len(s) + Len(t) /\ 1 <= i /\ i <= Len(u)
    BY <1>1, <1>2, <1>3
  <2>c. i \in 1..(Len(s) + Len(t)) /\ (s \o t)[i] = IF i <= Len(s) THEN s[i] ELSE t[i - Len(s)]
    BY <2>a, <2>b
  <2>1. CASE i <= Len(s)
    BY <1>1, <1>2, <1>3, <2>c, <2>1
  <2>2. CASE i > Len(s)
    <3>1. (s \o t)[i] = t[i - Len(s)] /\ i - Len(s) \in 1..(mid - first)
      BY <1>1, <1>2, <1>3, <2>c, <2>2
    <3> QED
      BY <1>1, <1>2, <1>3, <3>1
  <2> QED
    BY <2>b, <2>1, <2>2
<1>6. s \o t = u
  BY <1>3, <1>4, <1>5, SeqEqual
<1> QED
  BY <1>6 DEF s, t, u

\* history.reverse() of a walk is the run it walked back.
LEMMA BackReversed ==
  ASSUME NEW last \in Int, NEW from \in Int, from <= last
  PROVE  Reverse(Back(last, from + 1)) = Run(from, last)
<1>1. from + 1 \in Int /\ from + 1 <= last + 1 /\ last - (from + 1) + 1 = last - from
  OBVIOUS
<1>2. /\ Len(Back(last, from + 1)) = last - from
      /\ \A i \in 1..(last - from) : Back(last, from + 1)[i] = last - i + 1
  BY <1>1, BackSeq
<1>3. ASSUME NEW i \in 1..(last - from)
      PROVE  Back(last, from + 1)[((last - from) - i) + 1] = from + i
  <2>1. ((last - from) - i) + 1 \in 1..(last - from)
    OBVIOUS
  <2> QED
    BY <1>2, <2>1
<1> QED
  BY <1>2, <1>3 DEF Reverse, Run

\* What is pushed of a page in which `after' is met.
LEMMA NewerReached ==
  ASSUME NEW last \in Int, NEW first \in Int, after \in first..last, after > 0
  PROVE  /\ ReachedAfter(Back(last, first))
         /\ Newer(Back(last, first)) = Back(last, after + 1)
<1> DEFINE page == Back(last, first)
           at == last - after + 1
<1>a. after \in Int /\ first <= after /\ after <= last /\ first <= last + 1
  OBVIOUS
<1>1. /\ page \in Seq(Int) /\ Len(page) = last - first + 1
      /\ \A i \in 1..(last - first + 1) : page[i] = last - i + 1
  BY <1>a, BackSeq
<1>2. at \in 1..Len(page) /\ page[at] = after
  BY <1>1
<1>3. DOMAIN page = 1..Len(page)
  BY <1>1
<1> HIDE DEF page
<1>4. ReachedAfter(page)
  BY <1>2 DEF ReachedAfter, Contains
<1>5. (CHOOSE i \in DOMAIN page : page[i] = after) = at
  BY <1>1, <1>2, <1>3
<1>6. Newer(page) = SubSeq(page, 1, last - after)
  <2>1. at - 1 = last - after
    BY <1>a
  <2> HIDE DEF at
  <2> QED
    BY <1>4, <1>5, <2>1 DEF Newer
<1>7. /\ Back(last, after + 1) \in Seq(Int) /\ Len(Back(last, after + 1)) = last - after
      /\ \A i \in 1..(last - after) : Back(last, after + 1)[i] = last - i + 1
  <2>1. after + 1 \in Int /\ after + 1 <= last + 1 /\ last - (after + 1) + 1 = last - after
    OBVIOUS
  <2> QED
    BY <2>1, BackSeq
<1>8. last - after \in 0..Len(page)
  BY <1>1
<1>9. SubSeq(page, 1, last - after) = Back(last, after + 1)
  <2> DEFINE t == SubSeq(page, 1, last - after)
  <2>1. \A i \in 1..(last - after) : page[i] \in Int
    BY <1>1, <1>8
  <2>2. /\ t \in Seq(Int) /\ Len(t) = last - after
        /\ \A i \in 1..(last - after) : t[i] = page[i]
    BY <1>8, <2>1, SubSeqProperties
  <2> HIDE DEF t
  <2>3. t = Back(last, after + 1)
    BY <1>1, <1>7, <1>8, <2>2, SeqEqual
  <2> QED
    BY <2>3 DEF t
<1> QED
  BY <1>4, <1>6, <1>9 DEF page

\* A page that does not reach down to `after' does not contain it.
LEMMA NotReached ==
  ASSUME NEW last \in Int, NEW first \in Int, first <= last + 1,
         NEW a \in Int, a <= last, ~Contains(Back(last, first), a)
  PROVE  a < first
<1>1. /\ Len(Back(last, first)) = last - first + 1
      /\ \A i \in 1..(last - first + 1) : Back(last, first)[i] = last - i + 1
  BY BackSeq
<1>2. CASE a >= first
  <2>1. last - a + 1 \in 1..(last - first + 1) /\ last - (last - a + 1) + 1 = a
    BY <1>2
  <2> QED
    BY <1>1, <2>1 DEF Contains
<1> QED
  BY <1>2

\* Taking the first transaction of a run.
LEMMA RunTaken ==
  ASSUME NEW from \in Int, NEW to \in Int, from <= to, Run(from, to) # <<>>
  PROVE  /\ from < to
         /\ Head(Run(from, to)) = from + 1
         /\ Tail(Run(from, to)) = Run(from + 1, to)
<1>1. /\ Run(from, to) \in Seq(Int) /\ Len(Run(from, to)) = to - from
      /\ \A i \in 1..(to - from) : Run(from, to)[i] = from + i
  BY RunSeq
<1>2. from < to
  BY <1>1
<1>3. /\ Run(from + 1, to) \in Seq(Int) /\ Len(Run(from + 1, to)) = to - from - 1
      /\ \A i \in 1..(to - from - 1) : Run(from + 1, to)[i] = from + 1 + i
  <2>1. from + 1 \in Int /\ from + 1 <= to /\ to - (from + 1) = to - from - 1
    BY <1>2
  <2> QED
    BY <2>1, RunSeq
<1>4. Head(Run(from, to)) = from + 1
  BY <1>1, <1>2
<1>5. Tail(Run(from, to)) = Run(from + 1, to)
  <2> DEFINE t == Tail(Run(from, to))
  <2>1. t \in Seq(Int) /\ Len(t) = to - from - 1
    BY <1>1, HeadTailProperties
  <2>2. ASSUME NEW i \in 1..(to - from - 1) PROVE t[i] = Run(from + 1, to)[i]
    <3>1. t[i] = Run(from, to)[i + 1] /\ i + 1 \in 1..(to - from)
      BY <1>1, <2>1, HeadTailProperties
    <3> QED
      BY <1>1, <1>3, <3>1
  <2> HIDE DEF t
  <2>3. t = Run(from + 1, to)
    BY <1>3, <2>1, <2>2, SeqEqual
  <2> QED
    BY <2>3 DEF t
<1> QED
  BY <1>2, <1>4, <1>5

-------------------------------------------------------------------------------
(* A page.                                                                 *)

\* While a fetch is in progress there is no answer to work on.
LEMMA Fetching ==
  ASSUME ReadInv, fetch.attempt > 0
  PROVE  /\ confirmed \in 0..NumTxs /\ after \in Nat /\ asked \in 0..confirmed
         /\ after <= asked
         /\ fetch \in FetchType /\ fetch.history \in Seq(Sigs) /\ fetch.kept \in Seq(Sigs)
         /\ fetch.attempt \in 1..maxRetries /\ fetch.before \in 0..NumTxs
         /\ answer = None /\ read = None /\ response = None /\ polling = TRUE
<1>1. fetch \in FetchType /\ fetch.attempt # 0 /\ HistoryTypeOK
  BY DEF ReadInv, TypeOK, HistoryTypeOK
<1>2. /\ fetch.history \in Seq(Sigs) /\ fetch.kept \in Seq(Sigs)
      /\ fetch.attempt \in 1..maxRetries /\ fetch.before \in 0..NumTxs
  BY <1>1, HistoryAssumption DEF FetchType
<1>3. /\ confirmed \in 0..NumTxs /\ after \in Nat /\ asked \in 0..confirmed
      /\ answer = None /\ polling = TRUE
  BY <1>1, HistoryAssumption DEF HistoryTypeOK
<1>4. read = None /\ response = None
  BY <1>3 DEF ReadInv, TypeOK
<1> QED
  BY <1>1, <1>2, <1>3, <1>4 DEF ReadInv, FetchInv

\* Where the next page begins, and what was read before it.
LEMMA PageStarts ==
  ASSUME ReadInv, fetch.attempt > 0
  PROVE  \E last \in asked..confirmed, mid \in 1..(NumTxs + 1), first \in 1..(NumTxs + 1) :
           /\ mid <= last + 1 /\ after < mid
           /\ fetch.history = Back(last, mid)
           /\ Page(fetch.before) = Back(mid - 1, first)
           /\ first <= mid
           /\ mid > 1 => first < mid
<1>t. /\ confirmed \in 0..NumTxs /\ after \in Nat /\ asked \in 0..confirmed
      /\ after <= asked /\ fetch.before \in 0..NumTxs /\ NumTxs \in Nat
      /\ PageSize \in Nat \ {0}
  BY Fetching, HistoryAssumption
<1>1. \E last \in asked..confirmed, mid \in 1..(NumTxs + 1) :
        /\ mid <= last + 1 /\ after < mid
        /\ fetch.history = Back(last, mid)
        /\ mid - 1 = IF fetch.before = 0 THEN confirmed ELSE fetch.before - 1
  <2>1. CASE fetch.before = 0
    <3>1. fetch.history = <<>>
      BY <2>1 DEF ReadInv, TypeOK, HistoryTypeOK
    <3>2. Back(confirmed, confirmed + 1) = <<>>
      BY <1>t, BackEmpty
    <3>3. /\ confirmed \in asked..confirmed /\ confirmed + 1 \in 1..(NumTxs + 1)
          /\ confirmed + 1 <= confirmed + 1 /\ after < confirmed + 1
          /\ (confirmed + 1) - 1 = confirmed
      BY <1>t
    <3> QED
      BY <2>1, <3>1, <3>2, <3>3
  <2>2. CASE fetch.before # 0
    <3>1. /\ after < fetch.before
          /\ \E last \in asked..confirmed :
               fetch.before <= last /\ fetch.history = Back(last, fetch.before)
      BY <1>t, <2>2 DEF ReadInv, FetchInv
    <3>2. PICK last \in asked..confirmed :
            fetch.before <= last /\ fetch.history = Back(last, fetch.before)
      BY <3>1
    <3>3. fetch.before <= last + 1 /\ fetch.before \in 1..(NumTxs + 1)
      BY <1>t, <2>2, <3>2
    <3> QED
      BY <2>2, <3>1, <3>2, <3>3
  <2> QED
    BY <2>1, <2>2
<1>2. PICK last \in asked..confirmed, mid \in 1..(NumTxs + 1) :
        /\ mid <= last + 1 /\ after < mid
        /\ fetch.history = Back(last, mid)
        /\ mid - 1 = IF fetch.before = 0 THEN confirmed ELSE fetch.before - 1
  BY <1>1
<1> DEFINE first == IF mid - 1 > PageSize THEN mid - 1 - PageSize + 1 ELSE 1
<1>3. Page(fetch.before) = Back(mid - 1, first)
  BY <1>2 DEF Page
<1>4. first \in 1..(NumTxs + 1) /\ first <= mid /\ (mid > 1 => first < mid)
  BY <1>t
<1> HIDE DEF first
<1> QED
  BY <1>2, <1>3, <1>4

\* The last page completes a run from `after' to what was there when it began.
LEMMA LastPage ==
  ASSUME ReadInv, fetch.attempt > 0, NEW page, page = Page(fetch.before),
         page = <<>> \/ ReachedAfter(page)
  PROVE  \E last \in asked..confirmed :
           Reverse(fetch.history \o Newer(page)) = Run(after, last)
<1>t. confirmed \in 0..NumTxs /\ after \in Nat /\ asked \in 0..confirmed /\ after <= asked
      /\ fetch.history \in Seq(Sigs) /\ NumTxs \in Nat
  BY Fetching, HistoryAssumption
<1>1. PICK last \in asked..confirmed, mid \in 1..(NumTxs + 1), first \in 1..(NumTxs + 1) :
        /\ mid <= last + 1 /\ after < mid
        /\ fetch.history = Back(last, mid)
        /\ page = Back(mid - 1, first)
        /\ first <= mid
        /\ mid > 1 => first < mid
  BY PageStarts
<1>2. after \in Int /\ last \in Int /\ after <= last
  BY <1>t
<1>3. /\ Len(page) = mid - first
      /\ \A i \in 1..(mid - first) : page[i] = mid - i
  <2>1. mid \in Int /\ first \in Int
    BY <1>t
  <2> QED
    BY <1>1, <2>1, BeforeSeq
<1>4. fetch.history \o Newer(page) = Back(last, after + 1)
  <2>1. CASE ReachedAfter(page)
    <3>1. PICK i \in 1..Len(page) : page[i] = after
      BY <2>1 DEF ReachedAfter, Contains
    <3>2. after > 0 /\ after \in first..(mid - 1)
      BY <1>3, <2>1, <3>1 DEF ReachedAfter
    <3>3. Newer(page) = Back(mid - 1, after + 1)
      BY <1>1, <3>2, NewerReached
    <3>4. after + 1 \in Int /\ after + 1 <= mid /\ mid \in Int
      BY <1>t, <1>1
    <3>5. Back(last, mid) \o Back(mid - 1, after + 1) = Back(last, after + 1)
      BY <1>1, <1>2, <3>4, BackJoins
    <3> QED
      BY <1>1, <3>3, <3>5
  <2>2. CASE page = <<>>
    <3>1. Len(page) = 0
      BY <2>2
    <3>2. ~(mid > 1)
      BY <1>1, <1>3, <3>1
    <3>3. mid = 1 /\ after = 0
      BY <1>t, <1>1, <3>2
    <3>4. Newer(page) = <<>>
      BY <2>2, <3>3 DEF Newer, ReachedAfter
    <3>5. fetch.history \o <<>> = fetch.history
      BY <1>t, ConcatEmptySeq
    <3>6. after + 1 = mid
      BY <3>3
    <3> QED
      BY <1>1, <3>4, <3>5, <3>6
  <2> QED
    BY <2>1, <2>2
<1>5. Reverse(Back(last, after + 1)) = Run(after, last)
  BY <1>2, BackReversed
<1> QED
  BY <1>4, <1>5

\* Any other page brings the walk back further, and not past `after'.
LEMMA NextPage ==
  ASSUME ReadInv, fetch.attempt > 0, NEW page, page = Page(fetch.before),
         page # <<>>, ~ReachedAfter(page)
  PROVE  /\ Last(page) \in Sigs
         /\ after < Last(page)
         /\ fetch.history \o page \in Seq(Sigs)
         /\ fetch.history \o page # <<>>
         /\ \E last \in asked..confirmed :
              Last(page) <= last /\ fetch.history \o page = Back(last, Last(page))
<1>t. confirmed \in 0..NumTxs /\ after \in Nat /\ asked \in 0..confirmed /\ after <= asked
      /\ fetch.history \in Seq(Sigs) /\ NumTxs \in Nat
  BY Fetching, HistoryAssumption
<1>1. PICK last \in asked..confirmed, mid \in 1..(NumTxs + 1), first \in 1..(NumTxs + 1) :
        /\ mid <= last + 1 /\ after < mid
        /\ fetch.history = Back(last, mid)
        /\ page = Back(mid - 1, first)
        /\ first <= mid
        /\ mid > 1 => first < mid
  BY PageStarts
<1>2. /\ page \in Seq(Int) /\ Len(page) = mid - first
      /\ \A i \in 1..(mid - first) : page[i] = mid - i
  <2>1. mid \in Int /\ first \in Int
    BY <1>t
  <2> QED
    BY <1>1, <2>1, BeforeSeq
<1>3. first < mid
  <2>1. Len(page) # 0
    BY <1>2, EmptySeq
  <2> QED
    BY <1>1, <1>2, <2>1
<1>4. Last(page) = first
  <2>1. mid - first \in 1..(mid - first) /\ mid - (mid - first) = first
    BY <1>3
  <2> QED
    BY <1>2, <2>1 DEF Last
<1>5. after < first
  <2>1. CASE after = 0
    BY <2>1
  <2>2. CASE after > 0
    <3>1. ~Contains(Back(mid - 1, first), after)
      BY <1>1, <2>2 DEF ReachedAfter
    <3>2. mid - 1 \in Int /\ first <= (mid - 1) + 1 /\ after \in Int /\ after <= mid - 1
      BY <1>t, <1>1
    <3> QED
      BY <3>1, <3>2, NotReached
  <2> QED
    BY <1>t, <2>1, <2>2
<1>6. fetch.history \o page = Back(last, first)
  <2>1. last \in Int /\ mid \in Int /\ first \in Int
    BY <1>t
  <2> QED
    BY <1>1, <2>1, BackJoins, ZenonT(30)
<1>7. first <= last /\ first \in Sigs /\ last \in 0..NumTxs
  BY <1>t, <1>1, <1>3 DEF Sigs
<1>8. fetch.history \o page \in Seq(Sigs)
  <2>1. first \in Nat \ {0} /\ first <= last + 1
    BY <1>7
  <2> QED
    BY <1>6, <1>7, <2>1, BackSigs
<1>9. fetch.history \o page # <<>>
  <2>1. first <= last + 1 /\ last \in Int /\ first \in Int /\ last - first + 1 # 0
    BY <1>7
  <2>2. Len(Back(last, first)) # 0
    BY <2>1, BackSeq
  <2> QED
    BY <1>6, <2>2
<1> QED
  BY <1>4, <1>5, <1>6, <1>7, <1>8, <1>9

-------------------------------------------------------------------------------
(* The steps of a fetch.                                                   *)

\* Outside a fetch nothing is read.
LEMMA NoFetchType ==
  /\ NoFetch \in FetchType
  /\ NoFetch.attempt = 0 /\ NoFetch.before = 0
  /\ NoFetch.history = <<>> /\ NoFetch.kept = <<>>
<1>1. 0 \in 0..maxRetries /\ 0 \in 0..NumTxs /\ <<>> \in Seq(Sigs)
  BY HistoryAssumption
<1> QED
  BY <1>1 DEF NoFetch, FetchType

\* Each attempt starts over, with the longest result so far.
LEMMA NewAttempt ==
  ASSUME NEW n \in 0..maxRetries, NEW kept \in Seq(Sigs),
         fetch' = [NoFetch EXCEPT !.attempt = n, !.kept = kept]
  PROVE  /\ fetch' \in FetchType
         /\ fetch'.attempt = n /\ fetch'.before = 0 /\ fetch'.history = <<>>
         /\ fetch'.kept = kept
<1> DEFINE g == NoFetch
<1>1. g \in FetchType /\ g.before = 0 /\ g.history = <<>>
  BY NoFetchType
<1>2. fetch' = [g EXCEPT !.attempt = n, !.kept = kept]
  OBVIOUS
<1> HIDE DEF g
<1> QED
  BY <1>1, <1>2 DEF FetchType

\* A fetch begins with its first attempt and no pages.
LEMMA FirstAttempt ==
  ASSUME NEW f, f = [NoFetch EXCEPT !.attempt = 1]
  PROVE  /\ f \in FetchType
         /\ f.attempt = 1 /\ f.before = 0 /\ f.history = <<>> /\ f.kept = <<>>
<1> DEFINE g == NoFetch
<1>1. g \in FetchType /\ g.before = 0 /\ g.history = <<>> /\ g.kept = <<>>
  BY NoFetchType
<1>2. f = [g EXCEPT !.attempt = 1] /\ 1 \in 0..maxRetries
  BY HistoryAssumption
<1> HIDE DEF g
<1> QED
  BY <1>1, <1>2 DEF FetchType

\* The state in which a watcher begins, and its counterpart.
LEMMA InitRefines == Init => ReadInv /\ Abstract!Init
<1> SUFFICES ASSUME Init PROVE ReadInv /\ Abstract!Init
  OBVIOUS
<1> USE HistoryAssumption
<1>1. /\ confirmed = 0 /\ latest = 0 /\ after = 0 /\ polling = TRUE /\ asked = -1
      /\ fetch = NoFetch /\ answer = None /\ faults = 0
      /\ txs = {} /\ response = None /\ read = None
  BY DEF Init, HistoryInit
<1>2. HistoryTypeOK
  BY <1>1, NoFetchType DEF HistoryTypeOK
<1>3. TypeOK
  BY <1>1, <1>2 DEF TypeOK
<1>4. FetchInv /\ AnswerInv /\ HandInv /\ Done(latest) /\ Done(after)
  BY <1>1, NoFetchType DEF FetchInv, AnswerInv, HandInv, Done
<1> QED
  BY <1>1, <1>3, <1>4 DEF ReadInv, Abstract!Init

\* Transactions are confirmed whatever the watcher does.
LEMMA ConfirmRefines ==
  ASSUME ReadInv, Confirm, UNCHANGED <<txs, response, read>>
  PROVE  ReadInv' /\ Abstract!Next
<1>t. /\ TypeOK /\ HistoryTypeOK /\ FetchInv /\ AnswerInv /\ Done(latest) /\ Done(after)
      /\ confirmed \in 0..NumTxs /\ NumTxs \in Nat
  BY HistoryAssumption DEF ReadInv, TypeOK, HistoryTypeOK
<1>1. /\ confirmed' = confirmed + 1 /\ confirmed < NumTxs
      /\ UNCHANGED <<latest, after, polling, asked, fetch, answer, faults, txs, response, read>>
  BY DEF Confirm
<1>2. confirmed' \in 0..NumTxs /\ confirmed <= confirmed' /\ confirmed' \in Int
  BY <1>t, <1>1
<1>3. HistoryTypeOK'
  BY <1>t, <1>1, <1>2 DEF HistoryTypeOK
<1>4. TypeOK'
  BY <1>t, <1>1, <1>2, <1>3 DEF TypeOK
<1>5. FetchInv'
  <2>1. \A last \in asked..confirmed : last \in asked..confirmed'
    BY <1>t, <1>2 DEF HistoryTypeOK
  <2> QED
    BY <1>t, <1>1, <2>1 DEF FetchInv
<1>6. AnswerInv'
  <2>1. \A last \in 0..confirmed : last \in 0..confirmed'
    BY <1>t, <1>2
  <2> QED
    BY <1>t, <1>1, <2>1 DEF AnswerInv, Done
<1>7. Done(latest)' /\ Done(after)' /\ HandInv'
  BY <1>t, <1>1 DEF ReadInv, Done, HandInv, AtHand
<1>8. Abstract!Confirm
  BY <1>1 DEF Abstract!Confirm
<1> QED
  BY <1>4, <1>5, <1>6, <1>7, <1>8 DEF ReadInv, Abstract!Next

\* A poll asks.
LEMMA BeginRefines ==
  ASSUME ReadInv, Begin, UNCHANGED <<txs, response, read>>
  PROVE  ReadInv' /\ Abstract!Next
<1>t. /\ TypeOK /\ HistoryTypeOK /\ AnswerInv /\ Done(latest) /\ Done(after)
      /\ confirmed \in 0..NumTxs /\ after \in 0..confirmed
  BY DEF ReadInv, TypeOK, HistoryTypeOK
<1>1. /\ polling /\ fetch.attempt = 0 /\ answer = None /\ asked' = confirmed
      /\ fetch' = [NoFetch EXCEPT !.attempt = 1]
      /\ UNCHANGED <<confirmed, latest, after, polling, answer, faults, txs, response, read>>
  BY DEF Begin
<1>2. /\ fetch' \in FetchType /\ fetch'.attempt = 1 /\ fetch'.before = 0
      /\ fetch'.history = <<>> /\ fetch'.kept = <<>>
  BY <1>1, FirstAttempt
<1>3. asked' \in -1..confirmed' /\ asked' # -1
  BY <1>t, <1>1
<1>4. HistoryTypeOK'
  BY <1>t, <1>1, <1>2, <1>3 DEF HistoryTypeOK
<1>5. TypeOK'
  BY <1>t, <1>1, <1>4 DEF TypeOK
<1>6. FetchInv'
  BY <1>t, <1>1, <1>2 DEF FetchInv
<1>7. AnswerInv' /\ HandInv' /\ Done(latest)' /\ Done(after)'
  BY <1>t, <1>1 DEF AnswerInv, HandInv, TypeOK, Done
<1>8. Abstract!Ask
  BY <1>t, <1>1 DEF Abstract!Ask, HistoryTypeOK
<1> QED
  BY <1>5, <1>6, <1>7, <1>8 DEF ReadInv, Abstract!Next

\* The result of an attempt is kept or returned; what is returned is the longest of
\* several runs from `after', which is one too.
LEMMA EndAttemptRefines ==
  ASSUME ReadInv, fetch.attempt > 0, NEW last \in asked..confirmed,
         EndAttempt(Run(after, last)),
         UNCHANGED <<confirmed, latest, after, polling, faults, txs, response, read>>
  PROVE  ReadInv' /\ [Abstract!Next]_(Abstract!vars)
<1> DEFINE result == Run(after, last)
           kept == IF Len(result) > Len(fetch.kept) THEN result ELSE fetch.kept
<1>t. /\ TypeOK /\ HistoryTypeOK /\ Done(latest) /\ Done(after) /\ FetchInv
      /\ confirmed \in 0..NumTxs /\ after \in Nat /\ asked \in 0..confirmed /\ after <= asked
      /\ fetch \in FetchType /\ fetch.kept \in Seq(Sigs) /\ fetch.attempt \in 1..maxRetries
      /\ answer = None /\ read = None /\ response = None /\ polling = TRUE
      /\ NumTxs \in Nat /\ maxRetries \in Nat
  BY Fetching, HistoryAssumption DEF ReadInv, TypeOK
<1>1. last \in 0..NumTxs /\ last \in Int /\ after \in Int /\ after <= last
  BY <1>t
<1>2. result \in Seq(Sigs) /\ Len(result) = last - after
  BY <1>t, <1>1, RunSigs, RunSeq
<1>3. \E end \in asked..confirmed : kept = Run(after, end)
  <2>1. CASE kept = result
    BY <2>1
  <2>2. CASE kept # result
    <3>1. kept = fetch.kept /\ ~(Len(result) > Len(fetch.kept))
      BY <2>2
    <3>2. CASE fetch.kept = <<>>
      <4>1. Len(result) = 0
        BY <1>1, <1>2, <3>1, <3>2
      <4>2. result = <<>>
        BY <1>2, <4>1, EmptySeq
      <4> QED
        BY <2>2, <3>1, <3>2, <4>2
    <3>3. CASE fetch.kept # <<>>
      BY <3>1, <3>3, <1>t DEF FetchInv
    <3> QED
      BY <3>2, <3>3
  <2> QED
    BY <2>1, <2>2
<1>4. kept \in Seq(Sigs)
  BY <1>2, <1>t
<1>5. CASE fetch.attempt < maxRetries
  <2> DEFINE n == fetch.attempt + 1
  <2>1. /\ fetch' = [NoFetch EXCEPT !.attempt = n, !.kept = kept]
        /\ UNCHANGED <<answer, asked>>
    BY <1>5 DEF EndAttempt
  <2>2. n \in 0..maxRetries /\ n # 0
    BY <1>5, <1>t
  <2> HIDE DEF kept, result, n
  <2>3. /\ fetch' \in FetchType /\ fetch'.attempt = n /\ fetch'.before = 0
        /\ fetch'.history = <<>> /\ fetch'.kept = kept
    <3>1. fetch' = [NoFetch EXCEPT !.attempt = n, !.kept = kept]
      BY <2>1
    <3> QED
      BY <1>4, <2>2, <3>1, NewAttempt
  <2>4. HistoryTypeOK'
    BY <1>t, <2>1, <2>2, <2>3 DEF HistoryTypeOK
  <2>5. TypeOK'
    BY <1>t, <2>1, <2>4 DEF TypeOK
  <2>6. FetchInv'
    BY <1>t, <1>3, <2>1, <2>3 DEF FetchInv
  <2>7. AnswerInv' /\ HandInv' /\ Done(latest)' /\ Done(after)'
    BY <1>t, <2>1 DEF AnswerInv, HandInv, Done
  <2>8. UNCHANGED Abstract!vars
    BY <2>1 DEF Abstract!vars
  <2> QED
    BY <2>5, <2>6, <2>7, <2>8 DEF ReadInv
<1>6. CASE ~(fetch.attempt < maxRetries)
  <2>1. fetch' = NoFetch /\ answer' = kept /\ asked' = -1
    BY <1>6 DEF EndAttempt
  <2> HIDE DEF kept, result
  <2>2. PICK end \in asked..confirmed : kept = Run(after, end)
    BY <1>3
  <2>3. HistoryTypeOK'
    BY <1>t, <1>4, <2>1, NoFetchType DEF HistoryTypeOK
  <2>4. TypeOK'
    BY <1>t, <2>1, <2>3 DEF TypeOK
  <2>5. FetchInv'
    BY <2>1, NoFetchType DEF FetchInv
  <2>6. AnswerInv'
    <3>1. end \in 0..confirmed /\ after \in 0..end
      BY <1>t
    <3> QED
      BY <1>t, <2>1, <2>2, <3>1 DEF AnswerInv, Done
  <2>7. HandInv' /\ Done(latest)' /\ Done(after)'
    BY <1>t DEF HandInv, Done
  <2>8. Abstract!Answer
    <3>1. answer' = [i \in 1..(end - after) |-> after + i]
      BY <2>1, <2>2 DEF Run
    <3>2. asked # -1
      BY <1>t
    <3> QED
      BY <2>1, <3>1, <3>2 DEF Abstract!Answer
  <2> QED
    BY <2>4, <2>5, <2>6, <2>7, <2>8 DEF ReadInv, Abstract!Next
<1> QED
  BY <1>5, <1>6

\* A page is read.
LEMMA ReadPageRefines ==
  ASSUME ReadInv, ReadPage, UNCHANGED <<txs, response, read>>
  PROVE  ReadInv' /\ [Abstract!Next]_(Abstract!vars)
<1> DEFINE page == Page(fetch.before)
<1>1. /\ fetch.attempt > 0
      /\ UNCHANGED <<confirmed, latest, after, polling, faults, txs, response, read>>
  BY DEF ReadPage
<1>2. CASE page = <<>> \/ ReachedAfter(page)
  <2>1. EndAttempt(Reverse(fetch.history \o Newer(page)))
    BY <1>2 DEF ReadPage
  <2> HIDE DEF page
  <2>2. PICK last \in asked..confirmed :
          Reverse(fetch.history \o Newer(page)) = Run(after, last)
    BY <1>1, <1>2, LastPage DEF page
  <2>3. EndAttempt(Run(after, last))
    BY <2>1, <2>2
  <2> QED
    BY <1>1, <2>3, EndAttemptRefines
<1>3. CASE ~(page = <<>> \/ ReachedAfter(page))
  <2>1. /\ fetch' = [fetch EXCEPT !.history = fetch.history \o page, !.before = Last(page)]
        /\ UNCHANGED <<answer, asked>>
    BY <1>3 DEF ReadPage
  <2> DEFINE history == fetch.history \o page
             before == Last(page)
  <2>2. /\ before \in Sigs /\ after < before /\ history \in Seq(Sigs) /\ history # <<>>
        /\ \E last \in asked..confirmed : before <= last /\ history = Back(last, before)
    BY <1>1, <1>3, NextPage
  <2>3. fetch' = [fetch EXCEPT !.history = history, !.before = before]
    BY <2>1
  <2> HIDE DEF history, before, page
  <2>t. /\ TypeOK /\ HistoryTypeOK /\ Done(latest) /\ Done(after) /\ FetchInv /\ AnswerInv
        /\ fetch \in FetchType /\ after <= asked
    BY <1>1, Fetching DEF ReadInv, TypeOK
  <2>4. before \in 0..NumTxs /\ before # 0
    BY <2>2 DEF Sigs
  <2>5. /\ fetch' \in FetchType /\ fetch'.attempt = fetch.attempt /\ fetch'.before = before
        /\ fetch'.history = history /\ fetch'.kept = fetch.kept
    BY <2>t, <2>2, <2>3, <2>4 DEF FetchType
  <2>6. HistoryTypeOK'
    BY <1>1, <2>t, <2>1, <2>2, <2>4, <2>5 DEF HistoryTypeOK
  <2>7. TypeOK'
    BY <1>1, <2>t, <2>1, <2>6 DEF TypeOK
  <2>8. FetchInv'
    BY <1>1, <2>t, <2>1, <2>2, <2>5 DEF FetchInv
  <2>9. AnswerInv' /\ HandInv' /\ Done(latest)' /\ Done(after)'
    BY <1>1, <2>t, <2>1, Fetching DEF AnswerInv, HandInv, Done
  <2>10. UNCHANGED Abstract!vars
    BY <1>1, <2>1 DEF Abstract!vars
  <2> QED
    BY <2>7, <2>8, <2>9, <2>10 DEF ReadInv
<1> QED
  BY <1>2, <1>3

\* An attempt that throws leaves nothing of its pages.
LEMMA AttemptThrowsRefines ==
  ASSUME ReadInv, AttemptThrows, faults' \in 0..MaxFaults, UNCHANGED <<txs, response, read>>
  PROVE  ReadInv' /\ [Abstract!Next]_(Abstract!vars)
<1>1. /\ fetch.attempt > 0
      /\ UNCHANGED <<confirmed, latest, after, answer, txs, response, read>>
  BY DEF AttemptThrows
<1>t. /\ TypeOK /\ HistoryTypeOK /\ Done(latest) /\ Done(after) /\ FetchInv /\ AnswerInv
      /\ confirmed \in 0..NumTxs /\ after \in Nat /\ asked \in 0..confirmed /\ after <= asked
      /\ fetch \in FetchType /\ fetch.kept \in Seq(Sigs) /\ fetch.attempt \in 1..maxRetries
      /\ answer = None /\ read = None /\ response = None /\ polling = TRUE
      /\ maxRetries \in Nat
  BY <1>1, Fetching, HistoryAssumption DEF ReadInv, TypeOK
<1>2. AnswerInv' /\ HandInv' /\ Done(latest)' /\ Done(after)'
  BY <1>t, <1>1 DEF AnswerInv, HandInv, Done
<1>3. CASE fetch.attempt < maxRetries
  <2> DEFINE n == fetch.attempt + 1
             kept == fetch.kept
  <2>1. /\ fetch' = [NoFetch EXCEPT !.attempt = n, !.kept = kept]
        /\ UNCHANGED <<asked, polling>>
    BY <1>3 DEF AttemptThrows
  <2>2. n \in 0..maxRetries /\ n # 0 /\ kept \in Seq(Sigs)
    BY <1>3, <1>t
  <2> HIDE DEF n, kept
  <2>3. /\ fetch' \in FetchType /\ fetch'.attempt = n /\ fetch'.before = 0
        /\ fetch'.history = <<>> /\ fetch'.kept = kept
    <3>1. fetch' = [NoFetch EXCEPT !.attempt = n, !.kept = kept]
      BY <2>1
    <3> QED
      BY <2>2, <3>1, NewAttempt
  <2>4. HistoryTypeOK'
    BY <1>t, <1>1, <2>1, <2>2, <2>3 DEF HistoryTypeOK
  <2>5. TypeOK'
    BY <1>t, <1>1, <2>4 DEF TypeOK
  <2>6. FetchInv'
    BY <1>t, <1>1, <2>1, <2>3 DEF FetchInv, kept
  <2>7. UNCHANGED Abstract!vars
    BY <1>1, <2>1 DEF Abstract!vars
  <2> QED
    BY <1>2, <2>5, <2>6, <2>7 DEF ReadInv
<1>4. CASE ~(fetch.attempt < maxRetries)
  <2>1. fetch' = NoFetch /\ asked' = -1 /\ polling' = FALSE
    BY <1>4 DEF AttemptThrows
  <2>2. HistoryTypeOK'
    <3>1. /\ fetch' \in FetchType /\ fetch'.attempt = 0 /\ fetch'.before = 0
          /\ fetch'.history = <<>>
      BY <2>1, NoFetchType
    <3>2. polling' \in BOOLEAN /\ answer' = None
      BY <1>t, <1>1, <2>1
    <3>3. asked' \in -1..confirmed'
      BY <1>t, <1>1, <2>1, HistoryAssumption
    <3> QED
      BY <1>t, <1>1, <2>1, <3>1, <3>2, <3>3 DEF HistoryTypeOK
  <2>3. TypeOK'
    BY <1>t, <1>1, <2>2 DEF TypeOK
  <2>4. FetchInv'
    BY <2>1, NoFetchType DEF FetchInv
  <2>5. Abstract!Fail
    BY <1>t, <1>1, <2>1 DEF Abstract!Fail
  <2> QED
    BY <1>2, <2>3, <2>4, <2>5 DEF ReadInv, Abstract!Next
<1> QED
  BY <1>3, <1>4

\* The steps of a fetch together.
LEMMA HistoryRefines ==
  ASSUME ReadInv, History
  PROVE  ReadInv' /\ [Abstract!Next]_(Abstract!vars)
<1>1. UNCHANGED <<txs, response, read>>
  BY DEF History
<1>2. CASE Confirm
  BY <1>1, <1>2, ConfirmRefines
<1>3. CASE Begin
  BY <1>1, <1>3, BeginRefines
<1>4. CASE ReadPage
  BY <1>1, <1>4, ReadPageRefines
<1>5. CASE RequestThrows \/ PageOutOfOrder
  <2>1. faults \in 0..MaxFaults /\ MaxFaults \in Nat
    BY HistoryAssumption DEF ReadInv, TypeOK, HistoryTypeOK
  <2>2. AttemptThrows /\ faults < MaxFaults /\ faults' = faults + 1
    BY <1>5 DEF RequestThrows, PageOutOfOrder, Fault
  <2> QED
    BY <1>1, <2>1, <2>2, AttemptThrowsRefines
<1> QED
  BY <1>2, <1>3, <1>4, <1>5 DEF History, FetchSteps

-------------------------------------------------------------------------------
(* The steps of the backfill.                                              *)

\* While an answer is worked on, its first transaction follows what is done.
LEMMA Working ==
  ASSUME ReadInv, answer \notin {None, <<>>}
  PROVE  \E last \in 0..confirmed, done \in Nat :
           /\ answer = Run(done, last)
           /\ done < last
           /\ AtHand = done + 1
           /\ Tail(answer) = Run(done + 1, last)
           /\ Done(done)
<1>1. PICK last \in 0..confirmed, done \in Nat :
        done <= last /\ Done(done) /\ answer = Run(done, last)
  BY DEF ReadInv, AnswerInv
<1>2. last \in Int /\ done \in Int /\ done <= last
  BY <1>1, HistoryAssumption DEF ReadInv, TypeOK, HistoryTypeOK
<1>3. /\ done < last /\ Head(Run(done, last)) = done + 1
      /\ Tail(Run(done, last)) = Run(done + 1, last)
  BY <1>1, <1>2, RunTaken
<1> QED
  BY <1>1, <1>3 DEF AtHand

\* Between fetches.
LEMMA Answered ==
  ASSUME ReadInv, answer # None
  PROVE  /\ HistoryTypeOK /\ fetch.attempt = 0 /\ asked = -1
         /\ confirmed \in 0..NumTxs /\ NumTxs \in Nat /\ fetch \in FetchType
BY HistoryAssumption DEF ReadInv, TypeOK, HistoryTypeOK

\* What is stored follows no transaction that is not.
LEMMA StoreRefines ==
  ASSUME ReadInv, Store
  PROVE  ReadInv' /\ Abstract!Next
<1>1. /\ response # None /\ txs' = txs \cup {AtHand} /\ response' = None /\ read' = None
      /\ UNCHANGED historyVars
  BY DEF Store
<1>2. answer \notin {None, <<>>} /\ TypeOK
  BY <1>1 DEF ReadInv, TypeOK
<1>3. PICK last \in 0..confirmed, done \in Nat :
        /\ answer = Run(done, last) /\ done < last /\ AtHand = done + 1
        /\ Done(done)
  BY <1>2, Working
<1>4. /\ HistoryTypeOK /\ confirmed \in 0..NumTxs /\ NumTxs \in Nat
  BY <1>2, Answered
<1>5. /\ HistoryTypeOK' /\ confirmed' = confirmed /\ asked' = asked
      /\ UNCHANGED <<latest, after, answer, fetch>>
  BY <1>1, <1>4 DEF historyVars, HistoryTypeOK
<1>6. TypeOK'
  <2>1. AtHand \in 1..confirmed
    BY <1>3, <1>4
  <2> QED
    BY <1>1, <1>2, <1>5, <2>1 DEF TypeOK
<1>7. FetchInv' /\ AnswerInv' /\ HandInv' /\ Done(latest)' /\ Done(after)'
  BY <1>1, <1>5 DEF ReadInv, FetchInv, AnswerInv, HandInv, Done
<1>8. Abstract!Store
  <2>1. Head(answer) - 1 = done
    BY <1>3, <1>4 DEF AtHand
  <2> QED
    BY <1>1, <1>2, <1>3, <1>5, <2>1 DEF Abstract!Store, Abstract!Done, Done, AtHand
<1> QED
  BY <1>6, <1>7, <1>8 DEF ReadInv, Abstract!Next

\* The row follows what is stored.
LEMMA UpdateRowRefines ==
  ASSUME ReadInv, UpdateRow
  PROVE  ReadInv' /\ Abstract!Next
<1>1. /\ answer \notin {None, <<>>} /\ AtHand \in txs
      /\ latest' = AtHand /\ answer' = Tail(answer)
      /\ UNCHANGED <<confirmed, after, polling, asked, fetch, faults, txs, response, read>>
  BY DEF UpdateRow, Advance, AtHand
<1>2. PICK last \in 0..confirmed, done \in Nat :
        /\ answer = Run(done, last) /\ done < last /\ AtHand = done + 1
        /\ Tail(answer) = Run(done + 1, last) /\ Done(done)
  BY <1>1, Working
<1>3. /\ HistoryTypeOK /\ fetch.attempt = 0 /\ asked = -1 /\ TypeOK
      /\ confirmed \in 0..NumTxs /\ NumTxs \in Nat
  BY <1>1, Answered DEF ReadInv
<1>4. read = None /\ response = None
  BY <1>1 DEF ReadInv, HandInv, TypeOK
<1>5. done + 1 \in 0..last /\ last \in 0..NumTxs /\ done + 1 \in 0..confirmed
  BY <1>2, <1>3
<1>6. answer' \in Seq(Sigs)
  <2>1. done + 1 \in Nat /\ done + 1 <= last
    BY <1>5
  <2> QED
    BY <1>1, <1>2, <1>5, <2>1, RunSigs
<1>7. HistoryTypeOK'
  <2>1. latest' \in 0..confirmed'
    BY <1>1, <1>2, <1>5
  <2>2. polling' = TRUE
    BY <1>1, <1>3 DEF HistoryTypeOK
  <2> QED
    BY <1>1, <1>3, <1>6, <2>1, <2>2 DEF HistoryTypeOK
<1>8. TypeOK'
  BY <1>1, <1>3, <1>4, <1>7 DEF TypeOK
<1>9. Done(done + 1)
  BY <1>1, <1>2 DEF Done
<1>10. AnswerInv'
  BY <1>1, <1>2, <1>5, <1>9 DEF AnswerInv, Done
<1>11. FetchInv' /\ HandInv' /\ Done(latest)' /\ Done(after)'
  BY <1>1, <1>2, <1>3, <1>4, <1>9 DEF ReadInv, FetchInv, HandInv, Done
<1>12. Abstract!Take
  BY <1>1, <1>2, <1>9 DEF Abstract!Take, Abstract!Done, Done, AtHand
<1> QED
  BY <1>8, <1>10, <1>11, <1>12 DEF ReadInv, Abstract!Next

\* An answer is done with, or given up.
LEMMA DropRefines ==
  ASSUME ReadInv, answer # None, NEW goesOn \in BOOLEAN, Drop(goesOn),
         response' = None, read' = None, UNCHANGED <<faults, txs>>
  PROVE  ReadInv' /\ Abstract!Next
<1>1. /\ answer' = None /\ polling' = goesOn
      /\ UNCHANGED <<confirmed, latest, after, asked, fetch, faults, txs>>
  BY DEF Drop
<1>2. HistoryTypeOK /\ fetch.attempt = 0 /\ asked = -1 /\ TypeOK
  BY Answered DEF ReadInv
<1>3. HistoryTypeOK'
  BY <1>1, <1>2 DEF HistoryTypeOK
<1>4. TypeOK'
  BY <1>1, <1>2, <1>3 DEF TypeOK
<1>5. FetchInv' /\ AnswerInv' /\ HandInv' /\ Done(latest)' /\ Done(after)'
  BY <1>1, <1>2 DEF ReadInv, FetchInv, AnswerInv, HandInv, Done
<1>6. Abstract!Drop
  BY <1>1 DEF Abstract!Drop
<1> QED
  BY <1>4, <1>5, <1>6 DEF ReadInv, Abstract!Next

\* The steps of the backfill together; that a transaction is read changes nothing of
\* what is promised.
LEMMA BackfillRefines ==
  ASSUME ReadInv, Backfill
  PROVE  ReadInv' /\ [Abstract!Next]_(Abstract!vars)
<1>t. TypeOK /\ HistoryTypeOK
  BY DEF ReadInv, TypeOK
<1>1. CASE ReadTransaction
  <2>1. /\ answer \notin {None, <<>>} /\ AtHand \notin txs
        /\ UNCHANGED <<confirmed, latest, after, polling, asked, fetch, answer, faults, txs>>
    BY <1>1 DEF ReadTransaction, historyVars
  <2>2. AtHand \in Sigs
    <3>1. PICK last \in 0..confirmed, done \in Nat : done < last /\ AtHand = done + 1
      BY <2>1, Working
    <3> QED
      BY <1>t, <3>1, HistoryAssumption DEF HistoryTypeOK, Sigs
  <2>3. response' # None /\ read' # None
    BY <1>1, <2>2, ResponsesAssumption DEF ReadTransaction
  <2>4. HistoryTypeOK'
    BY <1>t, <2>1 DEF HistoryTypeOK
  <2>5. TypeOK'
    BY <1>t, <2>1, <2>3, <2>4 DEF TypeOK
  <2>6. FetchInv' /\ AnswerInv' /\ HandInv' /\ Done(latest)' /\ Done(after)'
    BY <2>1 DEF ReadInv, FetchInv, AnswerInv, HandInv, Done, AtHand
  <2>7. UNCHANGED Abstract!vars
    BY <2>1 DEF Abstract!vars
  <2> QED
    BY <2>5, <2>6, <2>7 DEF ReadInv
<1>2. CASE Store
  BY <1>2, StoreRefines
<1>3. CASE ReadFails
  <2>1. response # None /\ Drop(FALSE) /\ response' = None /\ read' = None
        /\ UNCHANGED <<faults, txs>>
    BY <1>3 DEF ReadFails
  <2>2. answer # None
    BY <1>t, <2>1 DEF TypeOK
  <2> QED
    BY <2>1, <2>2, DropRefines
<1>4. CASE UpdateRow
  BY <1>4, UpdateRowRefines
<1>5. CASE EndBackfill
  <2>1. answer = <<>> /\ Drop(TRUE) /\ UNCHANGED <<faults, txs, response, read>>
    BY <1>5 DEF EndBackfill
  <2>2. answer # None
    BY <2>1, ResponsesAssumption, EmptySeq
  <2>3. response = None /\ read = None
    BY <1>t, <2>1 DEF TypeOK
  <2> QED
    BY <2>1, <2>2, <2>3, DropRefines
<1> QED
  BY <1>1, <1>2, <1>3, <1>4, <1>5 DEF Backfill

\* A new watcher starts from the row, behind which nothing is missing.
LEMMA RestartRefines ==
  ASSUME ReadInv, Restart
  PROVE  ReadInv' /\ Abstract!Next
<1>t. TypeOK /\ HistoryTypeOK /\ Done(latest) /\ MaxFaults \in Nat
  BY HistoryAssumption DEF ReadInv, TypeOK
<1>1. /\ after' = latest /\ polling' = TRUE /\ asked' = -1 /\ fetch' = NoFetch
      /\ answer' = None /\ response' = None /\ read' = None
      /\ faults < MaxFaults /\ faults' = faults + 1
      /\ UNCHANGED <<confirmed, latest, txs>>
  BY DEF Restart, Reconstruct, Fault
<1>2. faults' \in 0..MaxFaults /\ latest \in 0..confirmed
  BY <1>t, <1>1 DEF HistoryTypeOK
<1>3. HistoryTypeOK'
  BY <1>t, <1>1, <1>2, NoFetchType, HistoryAssumption DEF HistoryTypeOK
<1>4. TypeOK'
  BY <1>t, <1>1, <1>3 DEF TypeOK
<1>5. FetchInv' /\ AnswerInv' /\ HandInv' /\ Done(latest)' /\ Done(after)'
  BY <1>t, <1>1, NoFetchType DEF FetchInv, AnswerInv, HandInv, Done
<1>6. Abstract!Resume
  BY <1>t, <1>1, <1>2 DEF Abstract!Resume, Abstract!Done, Done
<1> QED
  BY <1>4, <1>5, <1>6 DEF ReadInv, Abstract!Next

\* Every step is one of HistoryAnswer, or changes nothing that it speaks of.
LEMMA StepRefines ==
  ASSUME ReadInv, [Next]_vars
  PROVE  ReadInv' /\ [Abstract!Next]_(Abstract!vars)
<1>1. CASE History
  BY <1>1, HistoryRefines
<1>2. CASE Backfill
  BY <1>2, BackfillRefines
<1>3. CASE Restart
  BY <1>3, RestartRefines
<1>4. CASE UNCHANGED vars
  <2>1. UNCHANGED <<confirmed, latest, after, polling, asked, fetch, answer, faults, txs,
                    response, read>>
    BY <1>4 DEF vars, historyVars
  <2>2. HistoryTypeOK'
    BY <2>1 DEF ReadInv, TypeOK, HistoryTypeOK
  <2>3. ReadInv'
    BY <2>1, <2>2 DEF ReadInv, TypeOK, FetchInv, AnswerInv, HandInv, AtHand, Done
  <2> QED
    BY <2>1, <2>3 DEF Abstract!vars
<1> QED
  BY <1>1, <1>2, <1>3, <1>4 DEF Next

-------------------------------------------------------------------------------
\* What is read of an account and of a transaction has the declared types; there is
\* no answer while a fetch is in progress, and nothing is asked while one is worked on.
THEOREM TypeCorrect == Spec => []TypeOK
<1>1. Init => ReadInv
  BY InitRefines
<1>2. ReadInv /\ [Next]_vars => ReadInv'
  BY StepRefines
<1>3. ReadInv => TypeOK
  BY DEF ReadInv
<1> QED
  BY <1>1, <1>2, <1>3, PTL DEF Spec

\* The reading of an account page by page, in several attempts that fail half way
\* while transactions are confirmed, implements HistoryAnswer: an answer is the run of
\* transactions after the one that the watcher was constructed with, at least up to
\* what was confirmed when it asked; each is stored after those before it; and a
\* restarted watcher resumes where nothing is missing.
THEOREM AnswersInFullCorrect == Spec => AnswersInFull
<1>1. Init => ReadInv /\ Abstract!Init
  BY InitRefines
<1>2. ReadInv /\ [Next]_vars => ReadInv' /\ [Abstract!Next]_(Abstract!vars)
  BY StepRefines
<1> QED
  BY <1>1, <1>2, PTL DEF Spec, AnswersInFull, Abstract!Spec

-------------------------------------------------------------------------------
(* BalancesKept.                                                           *)

\* Balances that are accepted are of accounts of the message.
LEMMA BalanceAccount ==
  ASSUME NEW keys \in Nat, NEW balances \in Seq([index : Nat, amount : Nat]),
         parseTokenBalances(balances, keys).success,
         NEW b \in ToSet(balances)
  PROVE  b.index + 1 \in 1..keys
<1>1. PICK i \in DOMAIN balances : balances[i] = b
  BY DEF ToSet
<1>2. b \in [index : Nat, amount : Nat]
  BY <1>1, LenProperties, ElementOfSeq
<1>3. \A j \in DOMAIN balances : ~(balances[j].index >= keys)
  BY DEF parseTokenBalances, Thrown, Err
<1> QED
  BY <1>1, <1>2, <1>3

\* Balances that are accepted are found again under the index of their account.
LEMMA BalanceFound ==
  ASSUME NEW keys \in Nat, NEW balances \in Seq([index : Nat, amount : Nat]),
         parseTokenBalances(balances, keys).success,
         NEW b \in ToSet(balances)
  PROVE  parseTokenBalances(balances, keys).ok[b.index + 1] = << b.amount >>
<1>1. PICK i \in DOMAIN balances : balances[i] = b
  BY DEF ToSet
<1>2. i \in Int /\ b \in [index : Nat, amount : Nat]
  <2>1. DOMAIN balances = 1..Len(balances) /\ Len(balances) \in Nat
    BY LenProperties
  <2>2. i \in Int
    BY <2>1
  <2>3. b \in [index : Nat, amount : Nat]
    BY <1>1, <2>1, ElementOfSeq
  <2> QED
    BY <2>2, <2>3
<1>3. /\ \A j \in DOMAIN balances : ~(balances[j].index >= keys)
      /\ ~Duplicates(balances)
  BY DEF parseTokenBalances, Thrown, Err
<1>4. parseTokenBalances(balances, keys).ok = [k \in 1..keys |-> BalanceOf(balances, k - 1)]
  BY <1>3 DEF parseTokenBalances, Ok
<1>5. b.index + 1 \in 1..keys /\ (b.index + 1) - 1 = b.index
  BY <1>1, <1>2, <1>3
<1>6. parseTokenBalances(balances, keys).ok[b.index + 1] = BalanceOf(balances, b.index)
  BY <1>4, <1>5
<1>7. {j \in DOMAIN balances : balances[j].index = b.index} = {i}
  BY <1>1, <1>3 DEF Duplicates
<1>8. Max({i}) = i
  BY <1>2 DEF Max
<1> QED
  BY <1>1, <1>6, <1>7, <1>8 DEF BalanceOf

\* What getTransaction makes of an answer has both lists of its balances, and its
\* instructions.
LEMMA ResponseParsed ==
  ASSUME NEW r, r.keys \in Nat, getTransaction(r).success
  PROVE  /\ parseTokenBalances(r.pre, r.keys).success
         /\ parseTokenBalances(r.post, r.keys).success
         /\ \A k \in 1..r.keys :
              /\ getTransaction(r).ok.accounts[k].pre = parseTokenBalances(r.pre, r.keys).ok[k]
              /\ getTransaction(r).ok.accounts[k].post = parseTokenBalances(r.post, r.keys).ok[k]
         /\ ParseInstructions(r.outer, r.inner).success
         /\ getTransaction(r).ok.instructions = ParseInstructions(r.outer, r.inner).ok
<1> DEFINE pre == parseTokenBalances(r.pre, r.keys)
           post == parseTokenBalances(r.post, r.keys)
           parsed == ParseInstructions(r.outer, r.inner)
           none == ResolveError(r) # "none"
<1>1. getTransaction(r) =
        IF ~r.found THEN Err("NullGetTransactionResponse")
        ELSE IF none THEN Err("ResolveAccountError")
        ELSE IF ~pre.success THEN pre
        ELSE IF ~post.success THEN post
        ELSE IF ~r.meta THEN Thrown
        ELSE IF ~parsed.success THEN parsed
        ELSE IF ~r.units THEN Thrown
        ELSE IF ~r.times THEN Err("ZodError")
        ELSE Ok(Parsed(r, pre.ok, post.ok, parsed.ok))
  BY DEF getTransaction
<1> HIDE DEF pre, post, parsed, none
<1>2. \A type : ~Err(type).success
  BY DEF Err
<1>3. /\ pre.success /\ post.success /\ parsed.success
      /\ getTransaction(r) = Ok(Parsed(r, pre.ok, post.ok, parsed.ok))
  BY <1>1, <1>2 DEF Thrown
<1>4. getTransaction(r).ok = Parsed(r, pre.ok, post.ok, parsed.ok)
  BY <1>3 DEF Ok
<1>5. Parsed(r, pre.ok, post.ok, parsed.ok).accounts
        = [k \in 1..r.keys |-> [pre |-> pre.ok[k], post |-> post.ok[k]]]
  BY DEF Parsed
<1>6. \A k \in 1..r.keys : /\ getTransaction(r).ok.accounts[k].pre = pre.ok[k]
                            /\ getTransaction(r).ok.accounts[k].post = post.ok[k]
  BY <1>4, <1>5
<1>7. getTransaction(r).ok.instructions = parsed.ok
  BY <1>4 DEF Parsed
<1> QED
  BY <1>3, <1>6, <1>7 DEF pre, post, parsed

\* What the watcher works on is an answer of the node and what was made of it.
LEMMA ReadOfResponseStep ==
  ASSUME ReadInv, ReadOfResponse, [Next]_vars PROVE ReadOfResponse'
<1>1. CASE ReadTransaction
  <2>1. answer \notin {None, <<>>}
    BY <1>1 DEF ReadTransaction
  <2>2. AtHand \in Sigs
    <3>1. PICK last \in 0..confirmed, done \in Nat : done < last /\ AtHand = done + 1
      BY <2>1, Working
    <3> QED
      BY <3>1, HistoryAssumption DEF ReadInv, TypeOK, HistoryTypeOK, Sigs
  <2> QED
    BY <1>1, <2>2 DEF ReadTransaction, ReadOfResponse
<1>2. CASE response' = None
  BY <1>2 DEF ReadOfResponse
<1>3. CASE UNCHANGED <<response, read>>
  BY <1>3 DEF ReadOfResponse
<1> QED
  BY <1>1, <1>2, <1>3 DEF Next, vars, History, Backfill, Store, ReadFails, UpdateRow, EndBackfill,
     Restart

\* No balance of a stored transaction is lost or taken for another account's, whatever
\* the node answered: duplicates and balances without an account are refused.
THEOREM BalancesKeptCorrect == Spec => []BalancesKept
<1>1. Init => ReadInv /\ ReadOfResponse
  BY InitRefines DEF Init, ReadOfResponse
<1>2. ReadInv /\ ReadOfResponse /\ [Next]_vars => ReadInv' /\ ReadOfResponse'
  BY StepRefines, ReadOfResponseStep
<1>3. ReadInv /\ ReadOfResponse => BalancesKept
  <2> SUFFICES ASSUME ReadInv, ReadOfResponse, Stored PROVE BalancesKept
    BY DEF BalancesKept
  <2>1. response # None /\ read.success
    BY DEF Stored, ReadInv, TypeOK
  <2>2. PICK i \in Sigs : response \in Responses[i]
    BY <2>1 DEF ReadOfResponse
  <2>3. /\ response.keys \in Nat
        /\ response.pre \in Seq([index : Nat, amount : Nat])
        /\ response.post \in Seq([index : Nat, amount : Nat])
    BY <2>2, ResponsesAssumption
  <2>4. read = getTransaction(response)
    BY <2>1 DEF ReadOfResponse
  <2>5. /\ parseTokenBalances(response.pre, response.keys).success
        /\ parseTokenBalances(response.post, response.keys).success
        /\ \A k \in 1..response.keys :
             /\ read.ok.accounts[k].pre = parseTokenBalances(response.pre, response.keys).ok[k]
             /\ read.ok.accounts[k].post = parseTokenBalances(response.post, response.keys).ok[k]
    BY <2>1, <2>3, <2>4, ResponseParsed
  <2>6. ASSUME NEW b \in ToSet(response.pre)
        PROVE  read.ok.accounts[b.index + 1].pre = << b.amount >>
    <3>1. b.index + 1 \in 1..response.keys
      BY <2>3, <2>5, <2>6, BalanceAccount
    <3> QED
      BY <2>3, <2>5, <3>1, BalanceFound
  <2>7. ASSUME NEW b \in ToSet(response.post)
        PROVE  read.ok.accounts[b.index + 1].post = << b.amount >>
    <3>1. b.index + 1 \in 1..response.keys
      BY <2>3, <2>5, <2>7, BalanceAccount
    <3> QED
      BY <2>3, <2>5, <3>1, BalanceFound
  <2> QED
    BY <2>6, <2>7 DEF BalancesKept
<1> QED
  BY <1>1, <1>2, <1>3, PTL DEF Spec

-------------------------------------------------------------------------------
(* CallsKept.  Sequences that are made of parts: what a part has is in the *)
(* whole at the place of the part.                                         *)

\* A set of naturals that has 0, and the next of each that it has, has all of them: the
\* order of the naturals is well-founded.
LEMMA SetInduction ==
  ASSUME NEW S, 0 \in S, \A n \in Nat : n \in S => n + 1 \in S
  PROVE  \A n \in Nat : n \in S
<1> DEFINE missing == Nat \ S
<1> SUFFICES ASSUME missing # {} PROVE FALSE
  OBVIOUS
<1>1. IsWellFoundedOn(OpToRel(<, Nat), Nat)
  BY NatLessThanWellFounded
<1>2. PICK x \in missing : \A y \in missing : <<y, x>> \notin OpToRel(<, Nat)
  <2> HIDE DEF missing
  <2>1. missing \subseteq Nat
    BY DEF missing
  <2> QED
    BY <1>1, <2>1, WFMin
<1>3. \A y \in missing : ~(y < x)
  BY <1>2 DEF OpToRel
<1>4. x # 0 /\ x \in Nat
  OBVIOUS
<1>5. x - 1 \in Nat /\ x - 1 < x /\ (x - 1) + 1 = x
  BY <1>4
<1>6. x - 1 \in S
  BY <1>3, <1>5
<1> QED
  BY <1>5, <1>6

\* The recursion of FlattenSeq has a solution, which is built up part by part.
LEMMA FlattenSteps ==
  ASSUME NEW seqs, NEW n \in Nat \ {0}, Len(seqs) = n
  PROVE  \E f : /\ f = [i \in 1..n |-> IF i = 1 THEN seqs[i] ELSE f[i - 1] \o seqs[i]]
                /\ FlattenSeq(seqs) = f[n]
<1> DEFINE Steps(f, k) == f = [i \in 1..k |-> IF i = 1 THEN seqs[i] ELSE f[i - 1] \o seqs[i]]
           S == {k \in Nat : \E f : Steps(f, k)}
<1>1. 0 \in S
  <2>1. Steps([i \in 1..0 |-> 0], 0)
    OBVIOUS
  <2> QED
    BY <2>1
<1>2. ASSUME NEW k \in Nat, k \in S PROVE k + 1 \in S
  <2>1. PICK f : Steps(f, k)
    BY <1>2
  <2> DEFINE g == [i \in 1..(k + 1) |-> IF i \in 1..k THEN f[i]
                                        ELSE IF i = 1 THEN seqs[i] ELSE f[i - 1] \o seqs[i]]
  <2>2. ASSUME NEW i \in 1..(k + 1)
        PROVE  g[i] = IF i = 1 THEN seqs[i] ELSE g[i - 1] \o seqs[i]
    <3>1. CASE i = 1
      BY <2>1, <3>1
    <3>2. CASE i # 1
      <4>1. i - 1 \in 1..k /\ i - 1 \in 1..(k + 1)
        BY <3>2
      <4>2. g[i - 1] = f[i - 1]
        BY <4>1
      <4>3. CASE i \in 1..k
        <5>1. f[i] = f[i - 1] \o seqs[i]
          <6> DEFINE h == [j \in 1..k |-> IF j = 1 THEN seqs[j] ELSE f[j - 1] \o seqs[j]]
          <6>1. h[i] = f[i - 1] \o seqs[i]
            BY <3>2, <4>3
          <6>2. f = h
            BY <2>1
          <6> HIDE DEF h
          <6> QED
            BY <6>1, <6>2
        <5>2. g[i] = f[i]
          BY <4>3
        <5> QED
          BY <3>2, <4>2, <5>1, <5>2
      <4>4. CASE i \notin 1..k
        BY <3>2, <4>2, <4>4
      <4> QED
        BY <4>3, <4>4
    <3> QED
      BY <3>1, <3>2
  <2>3. Steps(g, k + 1)
    <3> DEFINE h == [i \in 1..(k + 1) |-> IF i = 1 THEN seqs[i] ELSE g[i - 1] \o seqs[i]]
    <3>1. \A i \in 1..(k + 1) : g[i] = h[i]
      <4> HIDE DEF g
      <4> QED
        BY <2>2
    <3> QED
      BY <3>1, ZenonT(30)
  <2>4. \E e : Steps(e, k + 1)
    <3> HIDE DEF Steps, g
    <3> QED
      BY <2>3
  <2> HIDE DEF Steps
  <2> QED
    BY <2>4
<1>3. n \in S
  <2> HIDE DEF S
  <2> QED
    BY <1>1, <1>2, SetInduction
<1> DEFINE f == CHOOSE f : Steps(f, n)
<1>4. Steps(f, n)
  BY <1>3
<1>5. FlattenSeq(seqs) = f[n]
  BY DEF FlattenSeq
<1> QED
  BY <1>4, <1>5

\* What FlattenSeq makes of the first parts, from none to all of them.
LEMMA FlattenPrefixes ==
  ASSUME NEW S, NEW seqs \in Seq(Seq(S))
  PROVE  \E f : /\ f[0] = <<>>
                /\ \A o \in 1..Len(seqs) : f[o] = f[o - 1] \o seqs[o]
                /\ FlattenSeq(seqs) = f[Len(seqs)]
<1>n. Len(seqs) \in Nat /\ DOMAIN seqs = 1..Len(seqs)
  BY LenProperties
<1>s. \A o \in 1..Len(seqs) : seqs[o] \in Seq(S)
  BY <1>n, ElementOfSeq
<1>1. CASE Len(seqs) = 0
  <2>1. seqs = <<>> /\ FlattenSeq(seqs) = seqs
    BY <1>1, EmptySeq DEF FlattenSeq
  <2> DEFINE f == [o \in {0} |-> <<>>]
  <2>2. f[0] = <<>>
    OBVIOUS
  <2> HIDE DEF f
  <2> QED
    BY <1>1, <2>1, <2>2
<1>2. CASE Len(seqs) # 0
  <2>1. PICK h : /\ h = [i \in 1..Len(seqs) |-> IF i = 1 THEN seqs[i] ELSE h[i - 1] \o seqs[i]]
                 /\ FlattenSeq(seqs) = h[Len(seqs)]
    BY <1>n, <1>2, FlattenSteps
  <2> DEFINE f == [o \in 0..Len(seqs) |-> IF o = 0 THEN <<>> ELSE h[o]]
  <2>2. f[0] = <<>> /\ \A o \in 1..Len(seqs) : f[o] = h[o]
    BY <1>n
  <2>3. ASSUME NEW o \in 1..Len(seqs) PROVE f[o] = f[o - 1] \o seqs[o]
    <3> DEFINE e == [i \in 1..Len(seqs) |-> IF i = 1 THEN seqs[i] ELSE h[i - 1] \o seqs[i]]
    <3>1. e[o] = IF o = 1 THEN seqs[o] ELSE h[o - 1] \o seqs[o]
      OBVIOUS
    <3>2. h = e
      BY <2>1
    <3> HIDE DEF e, f
    <3>3. h[o] = IF o = 1 THEN seqs[o] ELSE h[o - 1] \o seqs[o]
      BY <3>1, <3>2
    <3>4. CASE o = 1
      <4>1. <<>> \o seqs[o] = seqs[o]
        BY <1>s, ConcatEmptySeq
      <4>2. o - 1 = 0
        BY <3>4
      <4> QED
        BY <2>2, <3>3, <3>4, <4>1, <4>2
    <3>5. CASE o # 1
      <4>1. o - 1 \in 1..Len(seqs)
        BY <1>n, <3>5
      <4> QED
        BY <2>2, <3>3, <3>5, <4>1
    <3> QED
      BY <3>4, <3>5
  <2>4. FlattenSeq(seqs) = f[Len(seqs)]
    <3>1. Len(seqs) \in 1..Len(seqs)
      BY <1>n, <1>2
    <3> HIDE DEF f
    <3> QED
      BY <2>1, <2>2, <3>1
  <2> HIDE DEF f
  <2> QED
    BY <2>2, <2>3, <2>4
<1> QED
  BY <1>1, <1>2

\* Where the elements of two sequences are when they are joined.
LEMMA JoinPlaces ==
  ASSUME NEW S, NEW s \in Seq(S), NEW t \in Seq(S)
  PROVE  /\ s \o t \in Seq(S) /\ Len(s) \in Nat /\ Len(t) \in Nat
         /\ Len(s \o t) = Len(s) + Len(t)
         /\ \A k \in 1..Len(s) : k \in 1..Len(s \o t) /\ (s \o t)[k] = s[k]
         /\ \A k \in 1..Len(t) : /\ Len(s) + k \in 1..Len(s \o t)
                                /\ (s \o t)[Len(s) + k] = t[k]
         /\ \A j \in 1..Len(s \o t) :
              j \in 1..Len(s) \/ \E k \in 1..Len(t) : j = Len(s) + k
<1>1. /\ s \o t \in Seq(S) /\ Len(s \o t) = Len(s) + Len(t)
      /\ \A j \in 1..(Len(s) + Len(t)) :
           (s \o t)[j] = IF j <= Len(s) THEN s[j] ELSE t[j - Len(s)]
  BY ConcatProperties
<1>2. Len(s) \in Nat /\ Len(t) \in Nat
  BY LenProperties
<1> DEFINE st == s \o t
<1> HIDE DEF st
<1>3. /\ st \in Seq(S) /\ Len(st) = Len(s) + Len(t)
      /\ \A j \in 1..(Len(s) + Len(t)) : st[j] = IF j <= Len(s) THEN s[j] ELSE t[j - Len(s)]
  BY <1>1 DEF st
<1>4. \A k \in 1..Len(s) : k \in 1..Len(st) /\ st[k] = s[k]
  BY <1>2, <1>3
<1>5. ASSUME NEW k \in 1..Len(t) PROVE Len(s) + k \in 1..Len(st) /\ st[Len(s) + k] = t[k]
  <2> DEFINE j == Len(s) + k
  <2>1. j \in 1..(Len(s) + Len(t)) /\ ~(j <= Len(s)) /\ j - Len(s) = k
    BY <1>2
  <2> HIDE DEF j
  <2>2. j \in 1..Len(st) /\ st[j] = t[k]
    BY <1>3, <2>1
  <2> QED
    BY <2>2 DEF j
<1>6. ASSUME NEW j \in 1..Len(st), j \notin 1..Len(s)
      PROVE  \E k \in 1..Len(t) : j = Len(s) + k
  <2>1. j - Len(s) \in 1..Len(t) /\ j = Len(s) + (j - Len(s))
    BY <1>2, <1>3, <1>6
  <2> QED
    BY <2>1
<1> QED
  BY <1>2, <1>3, <1>4, <1>5, <1>6 DEF st

\* `start' has where each part begins in the whole, of which no position is left.
Places(parts, whole, start) ==
  /\ start \in [1..(Len(parts) + 1) -> Nat \ {0}]
  /\ start[1] = 1 /\ start[Len(parts) + 1] = Len(whole) + 1
  /\ \A o \in 1..Len(parts) :
       /\ start[o + 1] = start[o] + Len(parts[o])
       /\ \A k \in 1..Len(parts[o]) : /\ start[o] + k - 1 \in 1..Len(whole)
                                       /\ whole[start[o] + k - 1] = parts[o][k]
  /\ \A i \in 1..Len(whole) :
       \E o \in 1..Len(parts) : \E k \in 1..Len(parts[o]) : i = start[o] + k - 1

\* What FlattenSeq makes of its parts has each of them in its place, and nothing else.
LEMMA FlattenPlaces ==
  ASSUME NEW S, NEW seqs \in Seq(Seq(S))
  PROVE  /\ FlattenSeq(seqs) \in Seq(S)
         /\ \E start : Places(seqs, FlattenSeq(seqs), start)
<1>n. Len(seqs) \in Nat /\ DOMAIN seqs = 1..Len(seqs)
  BY LenProperties
<1>s. \A o \in 1..Len(seqs) : seqs[o] \in Seq(S)
  BY <1>n, ElementOfSeq
<1>1. PICK f : /\ f[0] = <<>>
               /\ \A o \in 1..Len(seqs) : f[o] = f[o - 1] \o seqs[o]
               /\ FlattenSeq(seqs) = f[Len(seqs)]
  BY FlattenPrefixes
<1> DEFINE n == Len(seqs)
           start == [o \in 1..(n + 1) |-> Len(f[o - 1]) + 1]
           Holds(i) == \A o \in 1..i : \A k \in 1..Len(seqs[o]) :
                         /\ Len(f[o - 1]) + k \in 1..Len(f[i])
                         /\ f[i][Len(f[o - 1]) + k] = seqs[o][k]
           Covers(i) == \A j \in 1..Len(f[i]) :
                          \E o \in 1..i : \E k \in 1..Len(seqs[o]) : j = Len(f[o - 1]) + k
           Good(i) == f[i] \in Seq(S) /\ Holds(i) /\ Covers(i)
           I == {i \in Nat : i <= n => Good(i)}
<1>2. Good(0)
  BY <1>1
<1>3. ASSUME NEW i \in Nat, i + 1 <= n, Good(i), Len(f[i]) \in Nat
      PROVE  Good(i + 1)
  <2>1. i + 1 \in 1..n /\ (i + 1) - 1 = i
    BY <1>n, <1>3
  <2>2. f[i + 1] = f[i] \o seqs[i + 1] /\ seqs[i + 1] \in Seq(S)
    BY <1>1, <1>s, <2>1
  <2>3. f[i] \in Seq(S)
    BY <1>3
  <2> DEFINE s == f[i]
             t == seqs[i + 1]
             st == f[i + 1]
  <2>4. /\ st \in Seq(S) /\ Len(s) \in Nat /\ Len(t) \in Nat
        /\ \A k \in 1..Len(s) : k \in 1..Len(st) /\ st[k] = s[k]
        /\ \A k \in 1..Len(t) : Len(s) + k \in 1..Len(st) /\ st[Len(s) + k] = t[k]
        /\ \A j \in 1..Len(st) : j \in 1..Len(s) \/ \E k \in 1..Len(t) : j = Len(s) + k
    <3>1. seqs[i + 1] \in Seq(S) /\ f[i + 1] = f[i] \o seqs[i + 1]
      BY <2>2
    <3> HIDE DEF Holds, Covers, s, t, st
    <3>2. s \in Seq(S) /\ t \in Seq(S) /\ st = s \o t
      BY <2>3, <3>1 DEF s, t, st
    <3> QED
      BY <3>2, JoinPlaces
  <2>5. Holds(i + 1)
    <3> SUFFICES ASSUME NEW o \in 1..(i + 1), NEW k \in 1..Len(seqs[o])
                 PROVE  /\ Len(f[o - 1]) + k \in 1..Len(f[i + 1])
                        /\ f[i + 1][Len(f[o - 1]) + k] = seqs[o][k]
      OBVIOUS
    <3>1. CASE o = i + 1
      <4>1. o - 1 = i /\ k \in 1..Len(t)
        BY <3>1
      <4> HIDE DEF s, st
      <4>2. Len(s) + k \in 1..Len(st) /\ st[Len(s) + k] = t[k]
        BY <2>4, <4>1
      <4> QED
        BY <3>1, <4>1, <4>2 DEF s, st
    <3>2. CASE o # i + 1
      <4>1. o \in 1..i
        BY <3>2
      <4>2. Len(f[o - 1]) + k \in 1..Len(f[i]) /\ f[i][Len(f[o - 1]) + k] = seqs[o][k]
        BY <1>3, <4>1
      <4> DEFINE j == Len(f[o - 1]) + k
      <4> HIDE DEF j
      <4>3. j \in 1..Len(s) /\ s[j] = seqs[o][k]
        BY <4>2 DEF j
      <4> HIDE DEF s, t, st
      <4>4. j \in 1..Len(st) /\ st[j] = seqs[o][k]
        BY <2>4, <4>3
      <4> QED
        BY <4>4 DEF j, st
    <3> QED
      BY <3>1, <3>2
  <2>6. Covers(i + 1)
    <3> SUFFICES ASSUME NEW j \in 1..Len(f[i + 1])
                 PROVE  \E o \in 1..(i + 1) : \E k \in 1..Len(seqs[o]) : j = Len(f[o - 1]) + k
      OBVIOUS
    <3>1. CASE j \in 1..Len(s)
      <4>1. PICK o \in 1..i : \E k \in 1..Len(seqs[o]) : j = Len(f[o - 1]) + k
        BY <1>3, <3>1
      <4>2. o \in 1..(i + 1)
        OBVIOUS
      <4> QED
        BY <4>1, <4>2
    <3>2. CASE j \notin 1..Len(s)
      <4>1. \E k \in 1..Len(seqs[i + 1]) : j = Len(f[(i + 1) - 1]) + k
        BY <2>1, <2>4, <3>2
      <4>2. i + 1 \in 1..(i + 1)
        OBVIOUS
      <4> QED
        BY <4>1, <4>2
    <3> QED
      BY <3>1, <3>2
  <2> QED
    BY <2>4, <2>5, <2>6
<1>4. \A i \in Nat : i \in I
  <2> HIDE DEF Good
  <2>1. 0 \in I
    BY <1>2
  <2>2. ASSUME NEW i \in Nat, i \in I PROVE i + 1 \in I
    <3> SUFFICES ASSUME i + 1 <= n PROVE Good(i + 1)
      OBVIOUS
    <3>1. i <= n
      BY <1>n
    <3>2. Good(i)
      BY <2>2, <3>1
    <3>3. Len(f[i]) \in Nat
      BY <3>2, LenProperties DEF Good
    <3> QED
      BY <1>3, <3>2, <3>3
  <2> HIDE DEF I
  <2> QED
    BY <2>1, <2>2, SetInduction
<1>5. \A i \in 0..n : Good(i)
  <2> HIDE DEF Good
  <2> QED
    BY <1>4, <1>n
<1>6. \A i \in 0..n : Len(f[i]) \in Nat
  BY <1>5, LenProperties
<1>7. /\ start \in [1..(n + 1) -> Nat \ {0}] /\ start[1] = 1
      /\ \A o \in 1..(n + 1) : start[o] = Len(f[o - 1]) + 1 /\ o - 1 \in 0..n
  <2>1. \A o \in 1..(n + 1) : o - 1 \in 0..n
    BY <1>n
  <2>2. Len(f[0]) = 0
    BY <1>1
  <2>3. \A o \in 1..(n + 1) : Len(f[o - 1]) + 1 \in Nat \ {0}
    BY <1>6, <2>1
  <2> QED
    BY <1>n, <2>1, <2>2, <2>3
<1>8. \A o \in 1..n : start[o + 1] = start[o] + Len(seqs[o])
  <2> SUFFICES ASSUME NEW o \in 1..n PROVE start[o + 1] = start[o] + Len(seqs[o])
    OBVIOUS
  <2>1. o - 1 \in 0..n /\ o \in 0..n /\ (o + 1) - 1 = o /\ o \in 1..(n + 1) /\ o + 1 \in 1..(n + 1)
    BY <1>n
  <2>2. Len(f[o]) = Len(f[o - 1]) + Len(seqs[o])
    <3> HIDE DEF Holds, Covers
    <3>1. f[o - 1] \in Seq(S) /\ seqs[o] \in Seq(S) /\ f[o] = f[o - 1] \o seqs[o]
      BY <1>1, <1>5, <1>s, <2>1
    <3> QED
      BY <3>1, ConcatProperties
  <2>3. Len(seqs[o]) \in Nat
    BY <1>s, LenProperties
  <2>4. start[o + 1] = Len(f[o]) + 1 /\ start[o] = Len(f[o - 1]) + 1
    BY <1>7, <2>1
  <2>5. Len(f[o - 1]) \in Nat
    BY <1>6, <2>1
  <2>6. \A a, b \in Nat : (a + b) + 1 = (a + 1) + b
    OBVIOUS
  <2> HIDE DEF start
  <2> QED
    BY <2>2, <2>3, <2>4, <2>5, <2>6, Zenon
<1>9. n \in 0..n /\ n + 1 \in 1..(n + 1) /\ (n + 1) - 1 = n
  BY <1>n
<1>10. /\ FlattenSeq(seqs) \in Seq(S) /\ FlattenSeq(seqs) = f[n]
       /\ start[n + 1] = Len(FlattenSeq(seqs)) + 1
  <2>1. start[n + 1] = Len(f[n]) + 1
    BY <1>7, <1>9
  <2> HIDE DEF start, Holds, Covers
  <2> QED
    BY <1>1, <1>5, <1>6, <1>9, <2>1
<1>11. ASSUME NEW o \in 1..n, NEW k \in 1..Len(seqs[o])
       PROVE  /\ start[o] + k - 1 \in 1..Len(FlattenSeq(seqs))
              /\ FlattenSeq(seqs)[start[o] + k - 1] = seqs[o][k]
  <2>1. o \in 1..(n + 1) /\ k \in Int /\ o - 1 \in 0..n
    BY <1>n
  <2>2. Len(f[o - 1]) + k \in 1..Len(f[n]) /\ f[n][Len(f[o - 1]) + k] = seqs[o][k]
    BY <1>5, <1>9
  <2>3. start[o] + k - 1 = Len(f[o - 1]) + k
    BY <1>6, <1>7, <2>1
  <2> HIDE DEF start, Good
  <2> QED
    BY <1>10, <2>2, <2>3
<1>12. ASSUME NEW i \in 1..Len(FlattenSeq(seqs))
       PROVE  \E o \in 1..n : \E k \in 1..Len(seqs[o]) : i = start[o] + k - 1
  <2>0. PICK o \in 1..n : \E k \in 1..Len(seqs[o]) : i = Len(f[o - 1]) + k
    <3>1. Covers(n)
      BY <1>5, <1>9
    <3>2. i \in 1..Len(f[n])
      BY <1>10
    <3> HIDE DEF start, Holds
    <3> QED
      BY <3>1, <3>2
  <2>1. PICK k \in 1..Len(seqs[o]) : i = Len(f[o - 1]) + k
    BY <2>0
  <2>2. o \in 1..(n + 1) /\ k \in Int /\ o - 1 \in 0..n
    BY <1>n
  <2>3. start[o] + k - 1 = Len(f[o - 1]) + k
    BY <1>6, <1>7, <2>2
  <2> HIDE DEF start
  <2> QED
    BY <2>1, <2>3
<1> HIDE DEF start
<1>13. Places(seqs, FlattenSeq(seqs), start)
  BY <1>7, <1>8, <1>10, <1>11, <1>12 DEF Places
<1> QED
  BY <1>10, <1>13

\* The positions and elements of a sequence.
LEMMA SeqParts ==
  ASSUME NEW s, IsSeq(s)
  PROVE  /\ Len(s) \in Nat /\ DOMAIN s = 1..Len(s)
         /\ \A i \in 1..Len(s) : s[i] \in ToSet(s)
<1>1. Len(s) \in Nat /\ DOMAIN s = 1..Len(s)
  BY LenProperties DEF IsSeq
<1> QED
  BY <1>1 DEF ToSet

\* A sequence over any set is one over its own elements.
LEMMA SeqMade ==
  ASSUME NEW S, NEW s \in Seq(S) PROVE IsSeq(s)
<1>1. Len(s) \in Nat /\ DOMAIN s = 1..Len(s) /\ s = [i \in 1..Len(s) |-> s[i]]
  BY LenProperties, SeqDef
<1>2. \A i \in 1..Len(s) : s[i] \in ToSet(s)
  BY <1>1 DEF ToSet
<1>3. s \in [1..Len(s) -> ToSet(s)]
  BY <1>1, <1>2
<1> QED
  BY <1>1, <1>3, SeqDef DEF IsSeq

\* A sequence of sequences is one over the elements of them all.
LEMMA SeqOfSeqs ==
  ASSUME NEW n \in Nat, NEW seqs, seqs = [o \in 1..n |-> seqs[o]],
         \A o \in 1..n : IsSeq(seqs[o])
  PROVE  Len(seqs) = n /\ seqs \in Seq(Seq(UNION {ToSet(seqs[o]) : o \in 1..n}))
<1> DEFINE S == UNION {ToSet(seqs[o]) : o \in 1..n}
<1>1. ASSUME NEW o \in 1..n PROVE seqs[o] \in Seq(S)
  <2>1. seqs[o] \in Seq(ToSet(seqs[o]))
    BY DEF IsSeq
  <2>2. Len(seqs[o]) \in Nat /\ seqs[o] \in [1..Len(seqs[o]) -> ToSet(seqs[o])]
    BY <2>1, LenProperties
  <2>3. ToSet(seqs[o]) \subseteq S
    OBVIOUS
  <2>4. seqs[o] \in [1..Len(seqs[o]) -> S]
    BY <2>2, <2>3
  <2> HIDE DEF S
  <2> QED
    BY <2>2, <2>4, SeqDef
<1> HIDE DEF S
<1>2. seqs \in [1..n -> Seq(S)]
  BY <1>1
<1>3. seqs \in Seq(Seq(S))
  BY <1>2, SeqDef
<1>4. Len(seqs) = n
  BY <1>2, <1>3, LenProperties
<1> QED
  BY <1>3, <1>4 DEF S

\* Where the elements of a sequence are when one is put before it.
LEMMA SeqFrom ==
  ASSUME NEW x, NEW t, IsSeq(t)
  PROVE  /\ IsSeq(<<x>> \o t) /\ Len(t) \in Nat /\ Len(<<x>> \o t) = 1 + Len(t)
         /\ (<<x>> \o t)[1] = x
         /\ \A k \in 1..Len(t) : (<<x>> \o t)[1 + k] = t[k]
<1>1. PICK S : <<x>> \in Seq(S) /\ t \in Seq(S)
  <2> DEFINE S == {x} \cup ToSet(t)
  <2>1. Len(t) \in Nat /\ t \in [1..Len(t) -> ToSet(t)]
    BY LenProperties DEF IsSeq
  <2>2. t \in [1..Len(t) -> S]
    BY <2>1
  <2>3. <<x>> \in Seq(S)
    OBVIOUS
  <2> HIDE DEF S
  <2>4. t \in Seq(S)
    BY <2>1, <2>2, SeqDef
  <2> QED
    BY <2>3, <2>4
<1>2. PICK s : s = <<x>>
  OBVIOUS
<1>3. s \in Seq(S) /\ Len(s) = 1 /\ s[1] = x
  BY <1>1, <1>2
<1>4. /\ s \o t \in Seq(S) /\ Len(t) \in Nat /\ Len(s \o t) = 1 + Len(t)
      /\ (s \o t)[1] = s[1]
      /\ \A k \in 1..Len(t) : (s \o t)[1 + k] = t[k]
  <2>1. /\ s \o t \in Seq(S) /\ Len(s) \in Nat /\ Len(t) \in Nat
        /\ Len(s \o t) = Len(s) + Len(t)
        /\ \A k \in 1..Len(s) : k \in 1..Len(s \o t) /\ (s \o t)[k] = s[k]
        /\ \A k \in 1..Len(t) : /\ Len(s) + k \in 1..Len(s \o t)
                                /\ (s \o t)[Len(s) + k] = t[k]
    <3>1. s \in Seq(S) /\ t \in Seq(S)
      BY <1>1, <1>3
    <3> QED
      BY <3>1, JoinPlaces
  <2>2. 1 \in 1..Len(s)
    BY <1>3
  <2>3. (s \o t)[1] = s[1]
    BY <2>1, <2>2
  <2>4. \A k \in 1..Len(t) : (s \o t)[1 + k] = t[k]
    BY <1>3, <2>1
  <2> QED
    BY <1>3, <2>1, <2>3, <2>4
<1>5. IsSeq(s \o t)
  BY <1>4, SeqMade
<1> QED
  BY <1>2, <1>3, <1>4, <1>5

\* An outer instruction comes first and each inner one in its order.
LEMMA WithInnerParts ==
  ASSUME NEW outer, NEW inner, IsSeq(inner)
  PROVE  /\ IsSeq(WithInner(outer, inner))
         /\ Len(inner) \in Nat /\ Len(WithInner(outer, inner)) = 1 + Len(inner)
         /\ WithInner(outer, inner)[1]
              = Instruction(outer, 1, Display(outer.program, outer))
         /\ \A k \in 1..Len(inner) :
              WithInner(outer, inner)[1 + k]
                = Instruction(inner[k], inner[k].height, Display(inner[k].program, outer))
<1> DEFINE first == Instruction(outer, 1, Display(outer.program, outer))
           called(k) == Instruction(inner[k], inner[k].height, Display(inner[k].program, outer))
           t == [k \in DOMAIN inner |-> called(k)]
<1> HIDE DEF first, called
<1>1. Len(inner) \in Nat /\ DOMAIN inner = 1..Len(inner)
  BY SeqParts
<1>2. Len(t) = Len(inner) /\ t \in Seq({t[k] : k \in 1..Len(inner)})
      /\ \A k \in 1..Len(inner) : t[k] = called(k)
  BY <1>1
<1>3. WithInner(outer, inner) = <<first>> \o t
  BY DEF WithInner, first, called
<1> HIDE DEF t
<1>4. IsSeq(t)
  BY <1>2, SeqMade
<1>5. /\ IsSeq(<<first>> \o t) /\ Len(<<first>> \o t) = 1 + Len(t)
      /\ (<<first>> \o t)[1] = first
      /\ \A k \in 1..Len(t) : (<<first>> \o t)[1 + k] = t[k]
  BY <1>4, SeqFrom
<1> QED
  BY <1>1, <1>2, <1>3, <1>5 DEF first, called

\* When no index is repeated, the group of an outer instruction is the one found for it.
LEMMA InnerFound ==
  ASSUME NEW inner, ~RepeatedIndex(inner), NEW g \in ToSet(inner)
  PROVE  InnerOf(inner, g.index) = g.instructions
<1> DEFINE groups == {h \in ToSet(inner) : h.index = g.index}
<1>1. groups = {g}
  <2>1. PICK i \in DOMAIN inner : inner[i] = g
    BY DEF ToSet
  <2>2. ASSUME NEW h \in groups PROVE h = g
    <3>1. PICK j \in DOMAIN inner : inner[j] = h
      BY DEF ToSet
    <3> QED
      BY <2>1, <3>1 DEF RepeatedIndex
  <2> QED
    BY <2>2
<1>2. InnerOf(inner, g.index) = (CHOOSE h \in groups : TRUE).instructions
  BY <1>1 DEF InnerOf
<1> HIDE DEF groups
<1> QED
  BY <1>1, <1>2

\* The inner instructions of an outer one are a sequence, empty if it has no group.
LEMMA InnerSeq ==
  ASSUME NEW inner, \A g \in ToSet(inner) : IsSeq(g.instructions), NEW index
  PROVE  IsSeq(InnerOf(inner, index))
<1> DEFINE groups == {g \in ToSet(inner) : g.index = index}
<1>1. CASE groups = {}
  <2>1. InnerOf(inner, index) = <<>>
    BY <1>1 DEF InnerOf
  <2>2. <<>> \in Seq({})
    OBVIOUS
  <2> QED
    BY <2>1, <2>2, SeqMade
<1>2. CASE groups # {}
  <2>1. InnerOf(inner, index) = (CHOOSE g \in groups : TRUE).instructions
    BY <1>2 DEF InnerOf
  <2>2. (CHOOSE g \in groups : TRUE) \in groups
    BY <1>2
  <2> QED
    BY <2>1, <2>2
<1> QED
  BY <1>1, <1>2

\* What is accepted has no repeated index and no invalid height.
LEMMA Accepted ==
  ASSUME NEW outer, NEW inner, ParseInstructions(outer, inner).success
  PROVE  /\ ~RepeatedIndex(inner)
         /\ \A o \in DOMAIN outer : ~InvalidHeights(InnerOf(inner, o - 1))
         /\ ParseInstructions(outer, inner).ok
              = FlattenSeq([o \in DOMAIN outer |-> WithInner(outer[o], InnerOf(inner, o - 1))])
<1> DEFINE bad == {o \in DOMAIN outer : outer[o].height \/ InvalidHeights(InnerOf(inner, o - 1))}
           first == CHOOSE o \in bad : \A p \in bad : o <= p
           type == IF outer[first].height THEN "OuterIxStackHeightNonNull"
                   ELSE "InvalidStackHeightTransition"
           flat == FlattenSeq([o \in DOMAIN outer |-> WithInner(outer[o], InnerOf(inner, o - 1))])
<1>1. ParseInstructions(outer, inner) =
        IF RepeatedIndex(inner) THEN Err("RepeatOuterIndicesForInnerIx")
        ELSE IF bad # {} THEN Err(type) ELSE Ok(flat)
  BY DEF ParseInstructions
<1>2. bad = {} => \A o \in DOMAIN outer : ~InvalidHeights(InnerOf(inner, o - 1))
  OBVIOUS
<1> HIDE DEF bad, type, flat, first
<1>3. \A e : ~Err(e).success
  BY DEF Err
<1>4. ~RepeatedIndex(inner) /\ bad = {} /\ ParseInstructions(outer, inner) = Ok(flat)
  BY <1>1, <1>3
<1>5. ParseInstructions(outer, inner).ok = flat
  BY <1>4 DEF Ok
<1> QED
  BY <1>2, <1>4, <1>5 DEF flat

\* The calls of each outer instruction, in the order of the outer ones.
CallParts(outer, inner) ==
  [o \in DOMAIN outer |-> WithInner(outer[o], InnerOf(inner, o - 1))]

\* The instructions that are read are those calls, each in its place.
LEMMA ReadBack ==
  ASSUME NEW outer, NEW inner, IsSeq(outer), \A g \in ToSet(inner) : IsSeq(g.instructions),
         ParseInstructions(outer, inner).success,
         NEW ixs, ixs = ParseInstructions(outer, inner).ok
  PROVE  /\ IsSeq(ixs) /\ Len(CallParts(outer, inner)) = Len(outer)
         /\ \E start : Places(CallParts(outer, inner), ixs, start)
<1> DEFINE n == Len(outer)
           seqs == CallParts(outer, inner)
<1>1. n \in Nat /\ DOMAIN outer = 1..n
  BY SeqParts
<1>2. \A o \in 1..n : IsSeq(seqs[o])
  <2> SUFFICES ASSUME NEW o \in 1..n PROVE IsSeq(seqs[o])
    OBVIOUS
  <2>1. IsSeq(InnerOf(inner, o - 1))
    BY InnerSeq
  <2>2. seqs[o] = WithInner(outer[o], InnerOf(inner, o - 1))
    BY <1>1 DEF CallParts
  <2> QED
    BY <2>1, <2>2, WithInnerParts
<1>3. seqs = [o \in 1..n |-> seqs[o]]
  BY <1>1 DEF CallParts
<1>4. ixs = FlattenSeq(seqs)
  BY Accepted DEF CallParts
<1> HIDE DEF seqs, n
<1>5. PICK S : Len(seqs) = n /\ seqs \in Seq(Seq(S))
  BY <1>1, <1>2, <1>3, SeqOfSeqs
<1>6. ixs \in Seq(S) /\ \E start : Places(seqs, ixs, start)
  BY <1>4, <1>5, FlattenPlaces
<1> QED
  BY <1>5, <1>6, SeqMade DEF seqs, n

\* By its place, each outer instruction is followed by those that it called.
LEMMA CallsReadBack ==
  ASSUME NEW outer, NEW inner, IsSeq(outer), \A g \in ToSet(inner) : IsSeq(g.instructions),
         ParseInstructions(outer, inner).success,
         NEW ixs, ixs = ParseInstructions(outer, inner).ok
  PROVE  CallsOf(ixs, outer, inner)
<1> DEFINE n == Len(outer)
           seqs == CallParts(outer, inner)
<1>1. PICK start : Places(seqs, ixs, start)
  BY ReadBack
<1>2. n \in Nat /\ DOMAIN outer = 1..n /\ Len(seqs) = n /\ Len(ixs) \in Nat
  BY SeqParts, ReadBack
<1>3. ~RepeatedIndex(inner) /\ \A o \in DOMAIN outer : ~InvalidHeights(InnerOf(inner, o - 1))
  BY Accepted
<1>4. \A o \in 1..n : seqs[o] = WithInner(outer[o], InnerOf(inner, o - 1))
  BY <1>2 DEF CallParts
<1> HIDE DEF seqs, n
<1>5. /\ start \in [1..(n + 1) -> Nat \ {0}]
      /\ start[1] = 1 /\ start[n + 1] = Len(ixs) + 1
  BY <1>1, <1>2 DEF Places
<1>6. ASSUME NEW o \in 1..n
      PROVE  /\ start[o] \in 1..Len(ixs)
             /\ Called(ixs, start[o], start[o + 1], outer[o],
                       {g \in ToSet(inner) : g.index = o - 1})
  <2> DEFINE called == InnerOf(inner, o - 1)
             groups == {g \in ToSet(inner) : g.index = o - 1}
             w == seqs[o]
  <2>1. IsSeq(called)
    BY InnerSeq
  <2>2. /\ Len(called) \in Nat /\ DOMAIN called = 1..Len(called)
        /\ Len(w) = 1 + Len(called)
        /\ w[1] = Instruction(outer[o], 1, Display(outer[o].program, outer[o]))
        /\ \A k \in 1..Len(called) :
             w[1 + k] = Instruction(called[k], called[k].height, Display(called[k].program, outer[o]))
    BY <1>4, <2>1, SeqParts, WithInnerParts
  <2>3. start[o] \in Nat
    <3>1. o \in 1..(n + 1)
      BY <1>2
    <3> QED
      BY <1>5, <3>1
  <2>4. /\ start[o + 1] = start[o] + Len(w)
        /\ \A k \in 1..Len(w) : /\ start[o] + k - 1 \in 1..Len(ixs)
                                /\ ixs[start[o] + k - 1] = w[k]
    BY <1>1, <1>2 DEF Places
  <2> HIDE DEF called, groups, w
  <2>5. start[o] \in 1..Len(ixs) /\ ixs[start[o]] = w[1]
    <3>1. 1 \in 1..Len(w) /\ start[o] + 1 - 1 = start[o]
      BY <2>2, <2>3
    <3> QED
      BY <2>4, <3>1
  <2>6. ixs[start[o]].stackHeight = 1 /\ ixs[start[o]].program = outer[o].program
    BY <2>2, <2>5 DEF Instruction
  <2>7. groups = {} => Len(called) = 0
    BY DEF groups, called, InnerOf
  <2>8. ASSUME NEW g \in groups PROVE called = g.instructions
    BY <1>3, InnerFound DEF groups, called
  <2>9. ASSUME NEW k \in 1..Len(called)
        PROVE  /\ ixs[start[o] + k].stackHeight # 1
               /\ ixs[start[o] + k].program = called[k].program
    <3>1. 1 + k \in 1..Len(w) /\ start[o] + (1 + k) - 1 = start[o] + k
      BY <2>2, <2>3
    <3>2. ixs[start[o] + k] = w[1 + k]
      BY <2>4, <3>1
    <3>3. ~(called[k].height < 2)
      BY <1>2, <1>3, <2>2 DEF InvalidHeights, InvalidStep, called
    <3>4. w[1 + k] = Instruction(called[k], called[k].height, Display(called[k].program, outer[o]))
      BY <2>2
    <3> QED
      BY <3>2, <3>3, <3>4 DEF Instruction
  <2>10. /\ start[o] < start[o + 1] /\ start[o + 1] = start[o] + 1 + Len(called)
         /\ groups = {} => start[o + 1] = start[o] + 1
    <3> DEFINE a == start[o]
               b == Len(called)
    <3>a. a \in Nat /\ b \in Nat
      BY <2>2, <2>3
    <3>b. start[o + 1] = a + (1 + b)
      BY <2>2, <2>4
    <3> HIDE DEF a, b
    <3>1. start[o + 1] = a + 1 + b
      BY <3>a, <3>b
    <3> USE DEF a, b
    <3> QED
      BY <2>2, <2>3, <2>7, <3>1
  <2>11. ASSUME NEW g \in groups
         PROVE  /\ start[o + 1] = start[o] + 1 + Len(g.instructions)
                /\ \A k \in DOMAIN g.instructions :
                     /\ ixs[start[o] + k].stackHeight # 1
                     /\ ixs[start[o] + k].program = g.instructions[k].program
    BY <2>2, <2>8, <2>9, <2>10
  <2> QED
    BY <2>5, <2>6, <2>10, <2>11 DEF Called, groups
<1>7. start \in [1..(n + 1) -> 1..(Len(ixs) + 1)]
  <2> SUFFICES ASSUME NEW o \in 1..(n + 1) PROVE start[o] \in 1..(Len(ixs) + 1)
    BY <1>5
  <2>1. CASE o = n + 1
    BY <1>2, <1>5, <2>1
  <2>2. CASE o # n + 1
    <3>1. o \in 1..n
      BY <1>2, <2>2
    <3>2. start[o] \in 1..Len(ixs)
      BY <1>6, <3>1
    <3> QED
      BY <1>2, <3>2
  <2> QED
    BY <2>1, <2>2
<1>8. \A o \in DOMAIN outer :
        Called(ixs, start[o], start[o + 1], outer[o], {g \in ToSet(inner) : g.index = o - 1})
  BY <1>2, <1>6
<1> QED
  BY <1>5, <1>7, <1>8 DEF CallsOf, n

\* The recursion over the depths of an IDL has a solution, which is built up depth by
\* depth.
LEMMA LevelSteps ==
  ASSUME NEW items
  PROVE  /\ Levels(items)[0] = Entries(items, <<>>)
         /\ \A depth \in Nat : depth + 1 <= IdlDepth =>
              Levels(items)[depth + 1] = Opened(Levels(items)[depth])
<1>d. IdlDepth \in Nat
  BY IdlAssumption
<1> DEFINE Steps(f, k) == f = [depth \in 0..k |-> IF depth = 0 THEN Entries(items, <<>>)
                                                  ELSE Opened(f[depth - 1])]
           S == {k \in Nat : \E f : Steps(f, k)}
<1>1. 0 \in S
  <2> DEFINE e == [depth \in 0..0 |-> Entries(items, <<>>)]
  <2>1. Steps(e, 0)
    <3> DEFINE h == [depth \in 0..0 |-> IF depth = 0 THEN Entries(items, <<>>)
                                        ELSE Opened(e[depth - 1])]
    <3>1. \A depth \in 0..0 : e[depth] = h[depth]
      OBVIOUS
    <3> QED
      BY <3>1
  <2>2. \E f : Steps(f, 0)
    <3> HIDE DEF Steps, e
    <3> QED
      BY <2>1
  <2> HIDE DEF Steps
  <2> QED
    BY <2>2
<1>2. ASSUME NEW k \in Nat, k \in S PROVE k + 1 \in S
  <2>1. PICK f : Steps(f, k)
    BY <1>2
  <2> DEFINE g == [depth \in 0..(k + 1) |-> IF depth \in 0..k THEN f[depth]
                                            ELSE Opened(f[depth - 1])]
  <2>2. ASSUME NEW depth \in 0..(k + 1)
        PROVE  g[depth] = IF depth = 0 THEN Entries(items, <<>>) ELSE Opened(g[depth - 1])
    <3> DEFINE h == [d \in 0..k |-> IF d = 0 THEN Entries(items, <<>>) ELSE Opened(f[d - 1])]
    <3>1. f = h
      BY <2>1
    <3>2. CASE depth = 0
      <4>1. g[depth] = f[depth] /\ h[depth] = Entries(items, <<>>)
        BY <3>2
      <4> HIDE DEF g, h
      <4> QED
        BY <3>1, <3>2, <4>1
    <3>3. CASE depth # 0
      <4>1. depth - 1 \in 0..k /\ depth - 1 \in 0..(k + 1)
        BY <3>3
      <4>2. g[depth - 1] = f[depth - 1]
        BY <4>1
      <4>3. CASE depth \in 0..k
        <5>1. g[depth] = f[depth] /\ h[depth] = Opened(f[depth - 1])
          BY <3>3, <4>3
        <5> HIDE DEF g, h
        <5> QED
          BY <3>1, <3>3, <4>2, <5>1
      <4>4. CASE depth \notin 0..k
        BY <3>3, <4>2, <4>4
      <4> QED
        BY <4>3, <4>4
    <3> QED
      BY <3>2, <3>3
  <2>3. Steps(g, k + 1)
    <3> DEFINE h == [depth \in 0..(k + 1) |-> IF depth = 0 THEN Entries(items, <<>>)
                                              ELSE Opened(g[depth - 1])]
    <3>1. \A depth \in 0..(k + 1) : g[depth] = h[depth]
      <4> HIDE DEF g
      <4> QED
        BY <2>2
    <3> QED
      BY <3>1
  <2>4. \E e : Steps(e, k + 1)
    <3> HIDE DEF Steps, g
    <3> QED
      BY <2>3
  <2> HIDE DEF Steps
  <2> QED
    BY <2>4
<1>3. IdlDepth \in S
  <2> HIDE DEF S
  <2> QED
    BY <1>d, <1>1, <1>2, SetInduction
<1> DEFINE f == CHOOSE f : Steps(f, IdlDepth)
<1>4. Steps(f, IdlDepth)
  BY <1>3
<1>5. Levels(items) = f
  BY DEF Levels
<1> DEFINE h == [depth \in 0..IdlDepth |-> IF depth = 0 THEN Entries(items, <<>>)
                                           ELSE Opened(f[depth - 1])]
<1>6. f = h
  BY <1>4
<1> HIDE DEF f
<1>7. h[0] = Entries(items, <<>>)
  BY <1>d
<1>8. \A depth \in Nat : depth + 1 <= IdlDepth => h[depth + 1] = Opened(f[depth])
  <2> SUFFICES ASSUME NEW depth \in Nat, depth + 1 <= IdlDepth
               PROVE  h[depth + 1] = Opened(f[depth])
    OBVIOUS
  <2>1. depth + 1 \in 0..IdlDepth /\ depth + 1 # 0 /\ (depth + 1) - 1 = depth
    BY <1>d
  <2> QED
    BY <2>1
<1> HIDE DEF h
<1> QED
  BY <1>5, <1>6, <1>7, <1>8

-------------------------------------------------------------------------------
(* NamesApart.  Two paths are apart when they differ at a position of both,*)
(* so that no continuation of one is one of the other.                     *)

Apart(p, q) == \E k \in (1..Len(p)) \cap (1..Len(q)) : p[k] # q[k]

\* Path q begins with path p.
Continues(q, p) == Len(p) <= Len(q) /\ \A k \in 1..Len(p) : q[k] = p[k]

\* The paths of entries are pairwise apart.
PathsApart(entries) ==
  /\ IsSeq(entries)
  /\ \A i \in 1..Len(entries) : entries[i].path \in Seq(STRING)
  /\ \A i, j \in 1..Len(entries) : i # j => Apart(entries[i].path, entries[j].path)

\* Continuations of paths that are apart are apart.
LEMMA ApartContinued ==
  ASSUME NEW p \in Seq(STRING), NEW q \in Seq(STRING), Apart(p, q),
         NEW s \in Seq(STRING), NEW t \in Seq(STRING), Continues(s, p), Continues(t, q)
  PROVE  Apart(s, t)
<1>1. Len(p) \in Nat /\ Len(q) \in Nat /\ Len(s) \in Nat /\ Len(t) \in Nat
  BY LenProperties
<1>2. PICK k \in (1..Len(p)) \cap (1..Len(q)) : p[k] # q[k]
  BY DEF Apart
<1>3. k \in (1..Len(s)) \cap (1..Len(t)) /\ s[k] = p[k] /\ t[k] = q[k]
  BY <1>1 DEF Continues
<1> QED
  BY <1>2, <1>3 DEF Apart

\* The fields of a struct have different names, so their paths are apart.
LEMMA EntriesApart ==
  ASSUME NEW items, Fields(items), NEW prefix \in Seq(STRING)
  PROVE  /\ PathsApart(Entries(items, prefix))
         /\ \A i \in 1..Len(Entries(items, prefix)) : Continues(Entries(items, prefix)[i].path, prefix)
<1> DEFINE entries == Entries(items, prefix)
           n == Len(items)
<1>1. n \in Nat /\ DOMAIN items = 1..n
  BY SeqParts DEF Fields
<1>2. \A i \in 1..n : entries[i].path = Append(prefix, items[i].name)
  BY <1>1 DEF Entries, Path
<1>3. IsSeq(entries) /\ Len(entries) = n
  <2>1. entries \in [1..n -> {entries[i] : i \in 1..n}]
    BY <1>1 DEF Entries
  <2> HIDE DEF entries
  <2>2. entries \in Seq({entries[i] : i \in 1..n}) /\ Len(entries) = n
    BY <1>1, <2>1, SeqDef, LenProperties
  <2> QED
    BY <2>2, SeqMade
<1>4. Len(prefix) \in Nat
  BY LenProperties
<1>5. ASSUME NEW i \in 1..n
      PROVE  LET p == entries[i].path
             IN  /\ p \in Seq(STRING) /\ Len(p) = Len(prefix) + 1
                 /\ \A k \in 1..Len(prefix) : p[k] = prefix[k]
                 /\ p[Len(prefix) + 1] = items[i].name
  <2>1. items[i].name \in STRING
    BY <1>1 DEF Fields
  <2> DEFINE p == entries[i].path
             name == items[i].name
  <2>2. p = Append(prefix, name) /\ name \in STRING
    BY <1>2, <2>1
  <2> HIDE DEF p, name
  <2>3. /\ Append(prefix, name) \in Seq(STRING)
        /\ Len(Append(prefix, name)) = Len(prefix) + 1
        /\ \A k \in 1..Len(prefix) : Append(prefix, name)[k] = prefix[k]
        /\ Append(prefix, name)[Len(prefix) + 1] = name
    <3> DEFINE T == STRING
    <3>1. prefix \in Seq(T) /\ name \in T
      BY <2>2
    <3> HIDE DEF T
    <3>2. /\ Append(prefix, name) \in Seq(T)
          /\ Len(Append(prefix, name)) = Len(prefix) + 1
          /\ \A k \in 1..Len(prefix) : Append(prefix, name)[k] = prefix[k]
          /\ Append(prefix, name)[Len(prefix) + 1] = name
      BY <3>1, AppendProperties
    <3> QED
      BY <3>2 DEF T
  <2> QED
    BY <2>2, <2>3 DEF p, name
<1> HIDE DEF entries
<1>6. \A i \in 1..n : Continues(entries[i].path, prefix)
  BY <1>4, <1>5 DEF Continues
<1>7. ASSUME NEW i \in 1..n, NEW j \in 1..n, i # j PROVE Apart(entries[i].path, entries[j].path)
  <2>1. items[i].name # items[j].name
    BY <1>1, <1>7 DEF Fields
  <2>2. Len(prefix) + 1 \in (1..Len(entries[i].path)) \cap (1..Len(entries[j].path))
    BY <1>4, <1>5
  <2> QED
    BY <1>5, <2>1, <2>2 DEF Apart
<1> QED
  BY <1>3, <1>5, <1>6, <1>7 DEF PathsApart, entries

\* A sequence of one element.
LEMMA OneElement ==
  ASSUME NEW x, NEW s, s = <<x>>
  PROVE  IsSeq(s) /\ Len(s) = 1 /\ s[1] = x /\ \A k \in 1..Len(s) : k = 1
<1>1. Len(s) = 1 /\ s[1] = x /\ s \in Seq({x})
  OBVIOUS
<1>2. Len(s) = 1
  BY <1>1
<1>3. \A k \in 1..1 : k = 1
  OBVIOUS
<1> QED
  BY <1>1, <1>2, <1>3, SeqMade

\* What is put in the place of an entry continues its path.
LEMMA PartApart ==
  ASSUME NEW entry, entry.path \in Seq(STRING), Fields(entry.accounts),
         NEW part, part = IF entry.accounts = <<>> THEN <<entry>>
                          ELSE Entries(entry.accounts, entry.path)
  PROVE  PathsApart(part) /\ \A k \in 1..Len(part) : Continues(part[k].path, entry.path)
<1>1. CASE entry.accounts = <<>>
  <2>1. part = <<entry>>
    BY <1>1
  <2>2. Len(part) = 1 /\ part[1] = entry /\ IsSeq(part)
    BY <2>1, OneElement
  <2>3. \A k \in 1..Len(part) : k = 1
    BY <2>1, OneElement
  <2>4. part[1].path = entry.path
    BY <2>2
  <2>5. Len(entry.path) \in Nat
    BY LenProperties
  <2> QED
    <3>1. \A k \in 1..Len(part) : part[k].path = entry.path
      BY <2>3, <2>4
    <3>2. \A k \in 1..Len(part) : Continues(part[k].path, entry.path)
      BY <2>5, <3>1 DEF Continues
    <3>3. \A i, j \in 1..Len(part) : ~(i # j)
      BY <2>3
    <3> QED
      BY <2>2, <3>1, <3>2, <3>3 DEF PathsApart
<1>2. CASE entry.accounts # <<>>
  BY <1>2, EntriesApart
<1> QED
  BY <1>1, <1>2

\* Opening the groups keeps the paths apart: those of a group differ in the name of the
\* field, those of two entries where the entries do.
LEMMA OpenedApart ==
  ASSUME NEW entries, PathsApart(entries), \A e \in ToSet(entries) : Fields(e.accounts)
  PROVE  PathsApart(Opened(entries))
<1> DEFINE n == Len(entries)
           parts == [i \in DOMAIN entries |->
                       IF entries[i].accounts = <<>> THEN << entries[i] >>
                       ELSE Entries(entries[i].accounts, entries[i].path)]
           whole == Opened(entries)
<1>1. n \in Nat /\ DOMAIN entries = 1..n /\ \A i \in 1..n : entries[i] \in ToSet(entries)
  BY SeqParts DEF PathsApart
<1>2. ASSUME NEW i \in 1..n
      PROVE  /\ PathsApart(parts[i])
             /\ \A k \in 1..Len(parts[i]) : Continues(parts[i][k].path, entries[i].path)
  <2> DEFINE part == parts[i]
  <2>1. part = IF entries[i].accounts = <<>> THEN << entries[i] >>
               ELSE Entries(entries[i].accounts, entries[i].path)
    BY <1>1
  <2>2. entries[i].path \in Seq(STRING) /\ Fields(entries[i].accounts)
    BY <1>1 DEF PathsApart
  <2> HIDE DEF part
  <2>3. PathsApart(part) /\ \A k \in 1..Len(part) : Continues(part[k].path, entries[i].path)
    BY <2>1, <2>2, PartApart
  <2> QED
    BY <2>3 DEF part
<1>3. parts = [i \in 1..n |-> parts[i]]
  BY <1>1
<1>4. whole = FlattenSeq(parts)
  BY DEF Opened
<1> HIDE DEF parts, whole, n
<1>5. Len(parts) = n /\ parts \in Seq(Seq(UNION {ToSet(parts[o]) : o \in 1..n}))
  BY <1>1, <1>2, <1>3, SeqOfSeqs DEF PathsApart
<1>6. PICK S : whole \in Seq(S) /\ \E start : Places(parts, whole, start)
  BY <1>4, <1>5, FlattenPlaces
<1>7. PICK start : Places(parts, whole, start)
  BY <1>6
<1>8. IsSeq(whole)
  BY <1>6, SeqMade
<1>9. ASSUME NEW i \in 1..Len(whole)
      PROVE  \E o \in 1..n : \E k \in 1..Len(parts[o]) :
               i = start[o] + k - 1 /\ whole[i] = parts[o][k]
  <2>1. PICK o \in 1..n : \E k \in 1..Len(parts[o]) : i = start[o] + k - 1
    BY <1>5, <1>7 DEF Places
  <2>2. PICK k \in 1..Len(parts[o]) : i = start[o] + k - 1
    BY <2>1
  <2>3. whole[start[o] + k - 1] = parts[o][k]
    BY <1>5, <1>7 DEF Places
  <2> QED
    BY <2>2, <2>3
<1>10. \A i \in 1..Len(whole) : whole[i].path \in Seq(STRING)
  BY <1>2, <1>9 DEF PathsApart
<1>11. ASSUME NEW i \in 1..Len(whole), NEW j \in 1..Len(whole), i # j
       PROVE  Apart(whole[i].path, whole[j].path)
  <2>1. PICK o \in 1..n : \E k \in 1..Len(parts[o]) :
               i = start[o] + k - 1 /\ whole[i] = parts[o][k]
    BY <1>9
  <2>2. PICK k \in 1..Len(parts[o]) : i = start[o] + k - 1 /\ whole[i] = parts[o][k]
    BY <2>1
  <2>3. PICK u \in 1..n : \E l \in 1..Len(parts[u]) :
               j = start[u] + l - 1 /\ whole[j] = parts[u][l]
    BY <1>9
  <2>4. PICK l \in 1..Len(parts[u]) : j = start[u] + l - 1 /\ whole[j] = parts[u][l]
    BY <2>3
  <2>5. CASE o = u
    <3>1. k # l
      BY <1>11, <2>2, <2>4, <2>5
    <3> QED
      BY <1>2, <2>2, <2>4, <2>5, <3>1 DEF PathsApart
  <2>6. CASE o # u
    <3>1. Apart(entries[o].path, entries[u].path)
          /\ entries[o].path \in Seq(STRING) /\ entries[u].path \in Seq(STRING)
      BY <2>6 DEF PathsApart, n
    <3>2. /\ Continues(whole[i].path, entries[o].path)
          /\ Continues(whole[j].path, entries[u].path)
      BY <1>2, <2>2, <2>4
    <3> QED
      BY <1>10, <3>1, <3>2, ApartContinued
  <2> QED
    BY <2>5, <2>6
<1> QED
  BY <1>8, <1>10, <1>11 DEF PathsApart, whole

\* The names that an IDL gives to the accounts of a method are different.
LEMMA FlattenApart ==
  ASSUME NEW program \in DOMAIN Idls, NEW data \in DOMAIN Idls[program],
         NEW names, names = Names[program][data]
  PROVE  Len(names) \in Nat /\ \A i, j \in 1..Len(names) : names[i] = names[j] => i = j
<1> DEFINE items == Idls[program][data]
           level == Levels(items)
<1>1. /\ IdlDepth \in Nat /\ Fields(items)
      /\ \A depth \in 0..IdlDepth : \A e \in ToSet(level[depth]) : Fields(e.accounts)
  BY IdlAssumption
<1>2. /\ level[0] = Entries(items, <<>>)
      /\ \A depth \in Nat : depth + 1 <= IdlDepth => level[depth + 1] = Opened(level[depth])
  BY LevelSteps
<1>3. names = Flatten(items)
  BY DEF Names
<1> HIDE DEF items, level
<1>4. PathsApart(level[0])
  <2>1. <<>> \in Seq(STRING)
    OBVIOUS
  <2> QED
    BY <1>1, <1>2, <2>1, EntriesApart
<1> DEFINE S == {depth \in Nat : depth <= IdlDepth => PathsApart(level[depth])}
<1>5. \A depth \in Nat : depth \in S
  <2>1. 0 \in S
    BY <1>4
  <2>2. ASSUME NEW depth \in Nat, depth \in S PROVE depth + 1 \in S
    <3> SUFFICES ASSUME depth + 1 <= IdlDepth PROVE PathsApart(level[depth + 1])
      OBVIOUS
    <3>1. depth \in 0..IdlDepth
      BY <1>1
    <3>2. PathsApart(level[depth])
      BY <2>2, <3>1
    <3>3. \A e \in ToSet(level[depth]) : Fields(e.accounts)
      BY <1>1, <3>1
    <3> QED
      BY <1>2, <3>2, <3>3, OpenedApart
  <2> HIDE DEF S
  <2> QED
    BY <2>1, <2>2, SetInduction
<1> DEFINE leaves == level[IdlDepth]
<1>6. PathsApart(leaves)
  BY <1>1, <1>5
<1> HIDE DEF leaves
<1>7. Len(leaves) \in Nat /\ DOMAIN leaves = 1..Len(leaves)
  BY <1>6, SeqParts DEF PathsApart
<1>8. names = [i \in 1..Len(leaves) |-> leaves[i].path]
  BY <1>3, <1>7 DEF Flatten, leaves, level
<1>9. Len(names) = Len(leaves)
  BY <1>7, <1>8
<1>10. ASSUME NEW i \in 1..Len(names), NEW j \in 1..Len(names), names[i] = names[j], i # j
       PROVE  FALSE
  <2>1. Apart(leaves[i].path, leaves[j].path)
    BY <1>6, <1>9, <1>10 DEF PathsApart
  <2>2. leaves[i].path = leaves[j].path
    BY <1>8, <1>9, <1>10
  <2> QED
    BY <2>1, <2>2 DEF Apart
<1> QED
  BY <1>7, <1>9, <1>10

\* The names of the accounts that are shown differ.
NamesDiffer(shown) ==
  \A i, j \in DOMAIN shown : shown[i].name = shown[j].name => i = j

\* So are those that are shown of an instruction: the accounts beyond the IDL are
\* numbered.
LEMMA DisplayApart ==
  ASSUME NEW program, NEW ix, IsSeq(ix.accounts),
         NEW shown, shown = Display(program, ix).accountsWithData
  PROVE  NamesDiffer(shown)
<1>1. CASE program \notin DOMAIN Idls \/ ix.data \notin DOMAIN Idls[program]
  <2>1. shown = <<>>
    BY <1>1 DEF Display
  <2> QED
    BY <2>1 DEF NamesDiffer
<1>2. CASE program \in DOMAIN Idls /\ ix.data \in DOMAIN Idls[program]
  <2> DEFINE names == Names[program][ix.data]
             n == Len(names)
  <2>1. n \in Nat /\ \A i, j \in 1..n : names[i] = names[j] => i = j
    BY <1>2, FlattenApart
  <2>2. shown = [i \in DOMAIN ix.accounts |-> [name |-> NameOf(names, i), key |-> ix.accounts[i]]]
    BY <1>2 DEF Display
  <2>3. DOMAIN ix.accounts = 1..Len(ix.accounts) /\ Len(ix.accounts) \in Nat
    BY SeqParts
  <2> HIDE DEF names
  <2> SUFFICES ASSUME NEW i \in 1..Len(ix.accounts), NEW j \in 1..Len(ix.accounts),
                      NameOf(names, i) = NameOf(names, j)
               PROVE  i = j
    BY <2>2, <2>3 DEF NamesDiffer
  <2>4. CASE i <= n /\ j <= n
    <3>1. NameOf(names, i).path = names[i] /\ NameOf(names, j).path = names[j]
      BY <2>4 DEF NameOf
    <3> QED
      BY <2>1, <2>4, <3>1
  <2>5. CASE i <= n /\ ~(j <= n)
    <3>1. NameOf(names, i).number = -1 /\ NameOf(names, j).number = j - n - 1
      BY <2>5 DEF NameOf
    <3> QED
      BY <2>1, <2>5, <3>1
  <2>6. CASE ~(i <= n) /\ j <= n
    <3>1. NameOf(names, i).number = i - n - 1 /\ NameOf(names, j).number = -1
      BY <2>6 DEF NameOf
    <3> QED
      BY <2>1, <2>6, <3>1
  <2>7. CASE ~(i <= n) /\ ~(j <= n)
    <3>1. NameOf(names, i).number = i - n - 1 /\ NameOf(names, j).number = j - n - 1
      BY <2>7 DEF NameOf
    <3> QED
      BY <2>1, <2>7, <3>1
  <2> QED
    BY <2>4, <2>5, <2>6, <2>7
<1> QED
  BY <1>1, <1>2

\* So are those of each instruction that is read.
LEMMA NamesReadBack ==
  ASSUME NEW outer, NEW inner, IsSeq(outer), \A g \in ToSet(inner) : IsSeq(g.instructions),
         \A ix \in ToSet(outer) : IsSeq(ix.accounts),
         ParseInstructions(outer, inner).success,
         NEW ixs, ixs = ParseInstructions(outer, inner).ok,
         NEW n \in DOMAIN ixs,
         NEW shown, shown = ixs[n].accountsWithData
  PROVE  NamesDiffer(shown)
<1> DEFINE seqs == CallParts(outer, inner)
<1>1. PICK start : Places(seqs, ixs, start)
  BY ReadBack
<1>2. /\ DOMAIN outer = 1..Len(outer) /\ \A o \in 1..Len(outer) : outer[o] \in ToSet(outer)
      /\ Len(seqs) = Len(outer) /\ DOMAIN ixs = 1..Len(ixs)
  BY SeqParts, ReadBack
<1>3. \A o \in 1..Len(outer) : seqs[o] = WithInner(outer[o], InnerOf(inner, o - 1))
  BY <1>2 DEF CallParts
<1> HIDE DEF seqs
<1>4. PICK o \in 1..Len(outer) : \E k \in 1..Len(seqs[o]) : n = start[o] + k - 1
  <2>1. \A i \in 1..Len(ixs) :
          \E o \in 1..Len(seqs) : \E k \in 1..Len(seqs[o]) : i = start[o] + k - 1
    BY <1>1 DEF Places
  <2>2. n \in 1..Len(ixs) /\ Len(seqs) = Len(outer)
    BY <1>2
  <2> QED
    BY <2>1, <2>2, ZenonT(30)
<1>5. PICK k \in 1..Len(seqs[o]) : n = start[o] + k - 1
  BY <1>4
<1>6. ixs[n] = seqs[o][k]
  BY <1>1, <1>2, <1>5 DEF Places
<1> DEFINE called == InnerOf(inner, o - 1)
<1>7. IsSeq(called)
  BY InnerSeq
<1>8. /\ Len(called) \in Nat /\ Len(seqs[o]) = 1 + Len(called)
      /\ seqs[o][1] = Instruction(outer[o], 1, Display(outer[o].program, outer[o]))
      /\ \A l \in 1..Len(called) :
           seqs[o][1 + l]
             = Instruction(called[l], called[l].height, Display(called[l].program, outer[o]))
  BY <1>3, <1>7, WithInnerParts
<1> HIDE DEF called
<1>9. \E program : shown = Display(program, outer[o]).accountsWithData
  <2>1. CASE k = 1
    <3>1. ixs[n] = Instruction(outer[o], 1, Display(outer[o].program, outer[o]))
      BY <1>6, <1>8, <2>1
    <3> QED
      BY <3>1 DEF Instruction
  <2>2. CASE k # 1
    <3> DEFINE l == k - 1
    <3>1. l \in 1..Len(called) /\ k = 1 + l
      BY <1>8, <2>2
    <3> HIDE DEF l
    <3>2. ixs[n] = Instruction(called[l], called[l].height, Display(called[l].program, outer[o]))
      BY <1>6, <1>8, <3>1
    <3> QED
      BY <3>2 DEF Instruction
  <2> QED
    BY <2>1, <2>2
<1>10. PICK program : shown = Display(program, outer[o]).accountsWithData
  BY <1>9
<1>11. IsSeq(outer[o].accounts)
  BY <1>2
<1> QED
  BY <1>10, <1>11, DisplayApart

-------------------------------------------------------------------------------
\* A stored transaction is what was made of an answer of the node, whose instructions
\* were accepted.
LEMMA StoredParsed ==
  ASSUME ReadInv, ReadOfResponse, Stored
  PROVE  /\ IsSeq(response.outer) /\ \A ix \in ToSet(response.outer) : IsSeq(ix.accounts)
         /\ \A g \in ToSet(response.inner) : IsSeq(g.instructions)
         /\ ParseInstructions(response.outer, response.inner).success
         /\ read.ok.instructions = ParseInstructions(response.outer, response.inner).ok
<1>1. response # None /\ read.success
  BY DEF Stored, ReadInv, TypeOK
<1>2. PICK i \in Sigs : response \in Responses[i]
  BY <1>1 DEF ReadOfResponse
<1>3. /\ response.keys \in Nat
      /\ IsSeq(response.outer) /\ \A ix \in ToSet(response.outer) : IsSeq(ix.accounts)
      /\ \A g \in ToSet(response.inner) : IsSeq(g.instructions)
  BY <1>2, ResponsesAssumption
<1>4. read = getTransaction(response)
  BY <1>1 DEF ReadOfResponse
<1> QED
  BY <1>1, <1>3, <1>4, ResponseParsed

\* The instructions of a stored transaction are the calls of the response, whatever the
\* node answered: each outer instruction is at the height 1, in its order, and followed
\* by the instructions of its group, none of which is at that height.
THEOREM CallsKeptCorrect == Spec => []CallsKept
<1>1. Init => ReadInv /\ ReadOfResponse
  BY InitRefines DEF Init, ReadOfResponse
<1>2. ReadInv /\ ReadOfResponse /\ [Next]_vars => ReadInv' /\ ReadOfResponse'
  BY StepRefines, ReadOfResponseStep
<1>3. ReadInv /\ ReadOfResponse => CallsKept
  <2> SUFFICES ASSUME ReadInv, ReadOfResponse, Stored
               PROVE  CallsOf(read.ok.instructions, response.outer, response.inner)
    BY DEF CallsKept
  <2>1. /\ IsSeq(response.outer) /\ \A g \in ToSet(response.inner) : IsSeq(g.instructions)
        /\ ParseInstructions(response.outer, response.inner).success
        /\ read.ok.instructions = ParseInstructions(response.outer, response.inner).ok
    BY StoredParsed
  <2> QED
    BY <2>1, CallsReadBack
<1> QED
  BY <1>1, <1>2, <1>3, PTL DEF Spec

\* The accounts of each instruction of a stored transaction are told apart by their
\* names, whatever the node answered and however deep the groups of the IDLs are.
THEOREM NamesApartCorrect == Spec => []NamesApart
<1>1. Init => ReadInv /\ ReadOfResponse
  BY InitRefines DEF Init, ReadOfResponse
<1>2. ReadInv /\ ReadOfResponse /\ [Next]_vars => ReadInv' /\ ReadOfResponse'
  BY StepRefines, ReadOfResponseStep
<1>3. ReadInv /\ ReadOfResponse => NamesApart
  <2> SUFFICES ASSUME ReadInv, ReadOfResponse, Stored,
                      NEW n \in DOMAIN read.ok.instructions
               PROVE  NamesDiffer(read.ok.instructions[n].accountsWithData)
    BY DEF NamesApart, NamesDiffer
  <2> DEFINE ixs == read.ok.instructions
             outer == response.outer
             inner == response.inner
  <2>1. /\ IsSeq(outer) /\ \A g \in ToSet(inner) : IsSeq(g.instructions)
        /\ \A ix \in ToSet(outer) : IsSeq(ix.accounts)
        /\ ParseInstructions(outer, inner).success
        /\ ixs = ParseInstructions(outer, inner).ok /\ n \in DOMAIN ixs
    BY StoredParsed
  <2> HIDE DEF ixs, outer, inner
  <2>2. NamesDiffer(ixs[n].accountsWithData)
    BY <2>1, NamesReadBack
  <2> QED
    BY <2>2 DEF ixs
<1> QED
  BY <1>1, <1>2, <1>3, PTL DEF Spec
===============================================================================
