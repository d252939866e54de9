---------------------------- MODULE MCMaybeFuture ----------------------------
(***************************************************************************)
(* The driver's operations, as numbered futures: each comes after its      *)
(* parts in one list.                                                      *)
(***************************************************************************)
EXTENDS Operations, MaybeFuture

Parts(tree) ==
  CASE tree.op \in {"Ready", "Transfer"} -> {}
    [] tree.op \in {"Map", "Either"}     -> {tree.first}
    [] tree.op = "AndThen" -> {tree.captured, tree.first} \cup {tree.next[v] : v \in Value}
    [] OTHER               -> {tree.first} \cup {tree.next[v] : v \in Value}

RECURSIVE Within(_)
Within(tree) == {tree} \cup UNION {Within(part) : part \in Parts(tree)}

\* Trees in a list, parts first.
RECURSIVE Listed(_)
Listed(trees) ==
  IF trees = {} THEN <<>>
                ELSE LET tree == CHOOSE t \in trees : Parts(t) \cap trees = {}
                     IN  <<tree>> \o Listed(trees \ {tree})

Trees == Listed(UNION {Within(Operation[name]) : name \in DOMAIN Operation})

Number(list, tree) == SelectInSeq(list, LAMBDA other : other = tree)

Numbered(list, tree) ==
  CASE tree.op \in {"Ready", "Transfer"} -> tree
    [] tree.op \in {"Map", "Either"}     -> [tree EXCEPT !.first = Number(list, @)]
    [] tree.op = "AndThen" ->
         [tree EXCEPT !.first = Number(list, @), !.captured = Number(list, @),
                      !.next = [v \in Value |-> Number(list, @[v])]]
    [] OTHER ->
         [tree EXCEPT !.first = Number(list, @),
                      !.next = [v \in Value |-> Number(list, @[v])]]

NumberedTrees == LET list == Trees IN [f \in DOMAIN list |-> Numbered(list, list[f])]

Numbers == {Number(Trees, Operation[name]) : name \in DOMAIN Operation}

TransferIds == {tree.id : tree \in {t \in ToSet(Trees) : t.op = "Transfer"}}

ResponsesOf == [id \in TransferIds |->
                  IF id \in {"BoardId", "Firmware", "Serial"} THEN {"Ok", "Bad", "Err"}
                                                              ELSE {"Ok", "Err"}]

\* TLC computes the definitions above once, and a constant at every use.
MCFuture == DOMAIN Trees
MCTree == NumberedTrees
MCRoots == Numbers
MCTransfers == TransferIds
MCOutcomes == ResponsesOf

\* As long as control transfers are deferred, all construction is lazy.
ASSUME LazyAssumption == Control("RxOn") = Transfer("RxOn") \/ LazyConstruction

=============================================================================
