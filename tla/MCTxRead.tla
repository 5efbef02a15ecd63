------------------------------- MODULE MCTxRead -------------------------------
(***************************************************************************)
(* An instance of TxRead for TLC: six transactions in four slots.  The     *)
(* node answers plainly for all but the last of them.                      *)
(***************************************************************************)
EXTENDS TxRead, TLC

SixTxs == <<1, 1, 2, 3, 3, 4>>

\* A method with a group of accounts, and one whose program has no other.
Account(name) == [name |-> name, accounts |-> <<>>]
AmmIdl ==
    "swap" :> << Account("user"), [name |-> "amm", accounts |-> <<Account("user"), Account("mint")>>] >>
    @@ "crank" :> << Account("amm") >>
TwoPrograms == "amm" :> AmmIdl @@ "token" :> ("transfer" :> <<Account("from"), Account("to")>>)

Ix(program, data, height) ==
    [program |-> program, data |-> data, accounts |-> <<0, 1, 2, 3, 4>>, height |-> height]
OuterIx(data) == Ix("amm", data, FALSE)

Plain ==
    [found |-> TRUE, version |-> "0", tables |-> <<TRUE>>, keys |-> 2, meta |-> TRUE,
     units |-> TRUE, times |-> TRUE, pre |-> <<>>, post |-> <<>>,
     outer |-> <<OuterIx("swap")>>, inner |-> <<>>]

\* Up to two groups of up to three inner instructions, in any order and at any height.
Heights(n) == UNION {[1..k -> 1..3] : k \in 0..n}
Calls(h) ==
    [i \in DOMAIN h |-> Ix(IF h[i] = 2 THEN "amm" ELSE "token", "transfer", h[i])]
Groups(n) == {[index |-> x, instructions |-> Calls(h)] : x \in 0..1, h \in Heights(n)}
Trees ==
    {[Plain EXCEPT !.outer = <<OuterIx("swap"), OuterIx("crank")>>, !.inner = inner] :
        inner \in {<<g>> : g \in Groups(3)} \cup (Groups(3) \X Groups(2))}

\* Up to two balances before and after.
Balances == UNION {[1..k -> [index : 0..1, amount : {5, 7}]] : k \in 0..2}
Tokens == {[Plain EXCEPT !.pre = p, !.post = q] : p, q \in Balances}

\* A response that lacks something, or has what it should not.
Odd ==
    {[Plain EXCEPT !.found = FALSE], [Plain EXCEPT !.meta = FALSE],
     [Plain EXCEPT !.units = FALSE], [Plain EXCEPT !.times = FALSE],
     [Plain EXCEPT !.tables = <<TRUE, FALSE>>], [Plain EXCEPT !.version = "legacy"],
     [Plain EXCEPT !.version = "1"], [Plain EXCEPT !.post = <<[index |-> 2, amount |-> 5]>>],
     [Plain EXCEPT !.outer = <<OuterIx("crank"), Ix("token", "crank", TRUE)>>]}

AnyKind == Trees \cup Tokens \cup Odd
LastOdd == [i \in Sigs |-> IF i = NumTxs THEN AnyKind ELSE {Plain}]
===============================================================================
