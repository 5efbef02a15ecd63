------------------------------ MODULE Serializer ------------------------------
(***************************************************************************)
(* The reading of a transaction (packages/indexer/src/transaction:         *)
(* serializer.ts and account-resolver.ts): getTransaction of the response  *)
(* of the RPC node.                                                        *)
(*                                                                         *)
(* A response is a record                                                  *)
(*   found     whether the node has the transaction                        *)
(*   version   "legacy", "0", or none of these                             *)
(*   tables    for each table of the message, whether the node has it      *)
(*   keys      the number of accounts                                      *)
(*   meta, units, times   whether it has a meta with inner instructions,   *)
(*             the compute units, and the time of the block and the logs   *)
(*   pre, post the token balances: [index, amount]                         *)
(*   outer     the instructions: [program, data, accounts, height]         *)
(*   inner     their inner ones: [index, instructions]                     *)
(* with the indices of the response from 0.  An instruction's data stands  *)
(* for the method that its discriminator is of.                            *)
(***************************************************************************)
EXTENDS Integers, Sequences, SequencesExt, FiniteSetsExt

CONSTANTS
    Idls,    \* Idls[p]: the methods of program p, each with its IdlAccountItems
    IdlDepth \* bound: how deep the groups of accounts of an IDL are nested

IsSeq(s) == s \in Seq(ToSet(s))

-------------------------------------------------------------------------------
Ok(x) == [success |-> TRUE, ok |-> x]
Err(type) == [success |-> FALSE, error |-> type]

\* An exception leaves getTransaction; it is not one of its errors.
Thrown == Err("throws")

-------------------------------------------------------------------------------
(* resolveAccounts.                                                        *)

ResolveError(response) ==
    CASE response.version = "legacy" /\ response.tables # <<>> ->
             "AddressTableLookupsInLegacy"
      [] response.version = "0" /\ Contains(response.tables, FALSE) ->
             "MissingLookupTableResponse"
      [] response.version \notin {"legacy", "0"} -> "UnsupportedTransactionVersion"
      [] OTHER -> "none"

-------------------------------------------------------------------------------
(* parseTokenBalances.                                                     *)

\* Variant of Duplicates with a bug: the last balance of an account is taken.
LastOfDuplicates(balances) == FALSE

Duplicates(balances) ==
    \E i, j \in DOMAIN balances : i # j /\ balances[i].index = balances[j].index

\* The balance of account k, if it has one: a later one replaces an earlier one.
BalanceOf(balances, k) ==
    LET found == {i \in DOMAIN balances : balances[i].index = k}
    IN  IF found = {} THEN <<>> ELSE << balances[Max(found)].amount >>

\* The balances by account; one of an account that the message does not have throws.
parseTokenBalances(balances, keys) ==
    IF \E i \in DOMAIN balances : balances[i].index >= keys THEN Thrown
    ELSE IF Duplicates(balances) THEN Err("DuplicateTokenAccounts")
    ELSE Ok([k \in 1..keys |-> BalanceOf(balances, k - 1)])

-------------------------------------------------------------------------------
(* flattenIdlAccounts and getIxWithDisplay.                                *)

\* Variant of Path with a bug: an account of a group keeps its own name.
PathOfLeaf(prefix, name) == <<name>>

Path(prefix, name) == Append(prefix, name)

\* What a list of account items holds.  The `accounts' of an account are empty, those
\* of a group are not.
Entries(items, prefix) ==
    [i \in DOMAIN items |->
       [path |-> Path(prefix, items[i].name), accounts |-> items[i].accounts]]

\* A group is replaced by what it holds, where it is.
Opened(entries) ==
    FlattenSeq([i \in DOMAIN entries |->
        IF entries[i].accounts = <<>> THEN << entries[i] >>
        ELSE Entries(entries[i].accounts, entries[i].path)])

\* The entries after the groups down to each depth are opened.
Levels(items) ==
    LET level[depth \in 0..IdlDepth] ==
          IF depth = 0 THEN Entries(items, <<>>) ELSE Opened(level[depth - 1])
    IN  level

\* The paths of the accounts.
Flatten(items) ==
    LET leaves == Levels(items)[IdlDepth] IN [i \in DOMAIN leaves |-> leaves[i].path]

\* The fields of a struct: no two have the same name.
Fields(items) ==
    /\ IsSeq(items)
    /\ \A i \in DOMAIN items : items[i].name \in STRING
    /\ \A i, j \in DOMAIN items : items[i].name = items[j].name => i = j

\* An IDL names the fields of structs, which are nested no deeper than the bound.
ASSUME IdlAssumption ==
    /\ IdlDepth \in Nat
    /\ \A program \in DOMAIN Idls : \A data \in DOMAIN Idls[program] :
         LET items == Idls[program][data]
         IN  /\ Fields(items)
             /\ \A depth \in 0..IdlDepth : \A e \in ToSet(Levels(items)[depth]) :
                  Fields(e.accounts) /\ (depth = IdlDepth => e.accounts = <<>>)

\* The names of the accounts of each method.
Names ==
    [program \in DOMAIN Idls |-> [data \in DOMAIN Idls[program] |-> Flatten(Idls[program][data])]]

\* The name of account i by the IDL, or its number if the IDL has none for it.
NameOf(names, i) ==
    IF i <= Len(names) THEN [path |-> names[i], number |-> -1]
    ELSE [path |-> <<"Remaining">>, number |-> i - Len(names) - 1]

\* The name and accounts of an instruction, by the IDL that getIdlForProgram returned
\* for the program: none if it has none or the fetch failed.  Data that the IDL does not
\* decode, or format, is shown as that of an unknown instruction.
Display(program, ix) ==
    IF program \notin DOMAIN Idls \/ ix.data \notin DOMAIN Idls[program]
    THEN [name |-> "unknown", accountsWithData |-> <<>>]
    ELSE LET names == Names[program][ix.data]
         IN  [name |-> ix.data,
              accountsWithData |->
                [i \in DOMAIN ix.accounts |->
                   [name |-> NameOf(names, i), key |-> ix.accounts[i]]]]

Instruction(ix, height, display) ==
    [name |-> display.name, stackHeight |-> height, program |-> ix.program, data |-> ix.data,
     accounts |-> ix.accounts, accountsWithData |-> display.accountsWithData]

-------------------------------------------------------------------------------
(* parseInstructions.                                                      *)

RepeatedIndex(inner) ==
    \E i, j \in DOMAIN inner : i # j /\ inner[i].index = inner[j].index

\* Variant of InnerOf with a bug: the groups are taken in their order.
InnerInOrder(inner, index) ==
    IF index < Len(inner) THEN inner[index + 1].instructions ELSE <<>>

InnerOf(inner, index) ==
    LET groups == {g \in ToSet(inner) : g.index = index}
    IN  IF groups = {} THEN <<>> ELSE (CHOOSE g \in groups : TRUE).instructions

\* The height of an inner instruction after one of height prior.
InvalidStep(prior, height) == height > prior + 1 \/ height < 2

InvalidHeights(inner) ==
    \E i \in DOMAIN inner :
        InvalidStep(IF i = 1 THEN 1 ELSE inner[i - 1].height, inner[i].height)

\* An instruction and its inner ones.  These are displayed with the data and accounts
\* of the outer one, by the IDL of their own program.
WithInner(outer, inner) ==
    << Instruction(outer, 1, Display(outer.program, outer)) >>
    \o [i \in DOMAIN inner |->
          Instruction(inner[i], inner[i].height, Display(inner[i].program, outer))]

\* The errors in the order in which the loops meet them; those of the same loop by
\* the instruction that comes first.
ParseInstructions(outer, inner) ==
    LET innerOf(o) == InnerOf(inner, o - 1)
        bad == {o \in DOMAIN outer : outer[o].height \/ InvalidHeights(innerOf(o))}
        first == CHOOSE o \in bad : \A p \in bad : o <= p
    IN  IF RepeatedIndex(inner) THEN Err("RepeatOuterIndicesForInnerIx")
        ELSE IF bad # {}
        THEN Err(IF outer[first].height THEN "OuterIxStackHeightNonNull"
                 ELSE "InvalidStackHeightTransition")
        ELSE Ok(FlattenSeq([o \in DOMAIN outer |-> WithInner(outer[o], innerOf(o))]))

-------------------------------------------------------------------------------
(* getTransaction.                                                         *)

\* The record that the schema is given.
Parsed(response, pre, post, instructions) ==
    [version |-> response.version,
     accounts |-> [k \in 1..response.keys |-> [pre |-> pre[k], post |-> post[k]]],
     instructions |-> instructions]

getTransaction(response) ==
    LET pre == parseTokenBalances(response.pre, response.keys)
        post == parseTokenBalances(response.post, response.keys)
        parsed == ParseInstructions(response.outer, response.inner)
    IN  IF ~response.found THEN Err("NullGetTransactionResponse")
        ELSE IF ResolveError(response) # "none" THEN Err("ResolveAccountError")
        ELSE IF ~pre.success THEN pre
        ELSE IF ~post.success THEN post
        ELSE IF ~response.meta THEN Thrown
        ELSE IF ~parsed.success THEN parsed
        ELSE IF ~response.units THEN Thrown
        ELSE IF ~response.times THEN Err("ZodError")
        ELSE Ok(Parsed(response, pre.ok, post.ok, parsed.ok))
===============================================================================
