----------------------------- MODULE Hashtable ------------------------------
(***************************************************************************)
(* The hash table of lib/hashtable.c: an array of buckets, each the head   *)
(* of a chain of nodes from malloc, the oldest first.  Nodes that no chain *)
(* reaches any more and that were not freed stay in the heap for good.     *)
(***************************************************************************)
EXTENDS Integers, FiniteSets, SequencesExt

CONSTANTS
  Node,      \* what malloc has to give
  Index,     \* the indices a program uses
  Value,     \* and the values
  Buckets    \* how many buckets the table has: 100

NULL == "null"

ASSUME NodeAssumption == NULL \notin Node
ASSUME IndexAssumption == Index \subseteq Nat
ASSUME BucketsAssumption == Buckets \in Nat \ {0}

VARIABLES
  head,      \* of each bucket, its first node
  node,      \* of each node in the heap, its index, value and successor
  live,      \* between HASH_create and HASH_destroy
  call       \* the last call and what it returned

HASH_vars == <<head, node, live, call>>

Heap == DOMAIN node

hashFunction(i) == i % Buckets

\* The node n and those behind it, as the loops meet them.
From[n \in Heap \cup {NULL}] ==
  IF n = NULL THEN << >> ELSE <<n>> \o From[node[n].next]

Chain(b) == From[head[b]]

Answers(op, val) == call' = [op |-> op, val |-> val]

HASH_Init ==
  /\ head = [b \in 0 .. Buckets - 1 |-> NULL]
  /\ node = << >>
  /\ live = FALSE
  /\ call = [op |-> "none", val |-> "nothing"]

-----------------------------------------------------------------------------
\* The places in chain c of the nodes with index i.
Places(c, i) == {k \in 1 .. Len(c) : node[c[k]].index = i}

First(places) == CHOOSE k \in places : \A m \in places : k <= m

\* Index 0 asks for the last node of the bucket.
searchFor(i, b) ==
  LET c == Chain(b) IN
  IF c = << >> THEN NULL
  ELSE IF i = 0 THEN Last(c)
  ELSE IF Places(c, i) = {} THEN NULL ELSE c[First(Places(c, i))]

\* Any node malloc has not given away does: they are told apart by name only.
malloc == CHOOSE n \in Node : n \notin Heap

HASH_create ==
  /\ ~live
  /\ head' = [b \in 0 .. Buckets - 1 |-> NULL]
  /\ live' = TRUE
  /\ Answers("create", 1)
  /\ UNCHANGED node

Linked(i, v, n) ==
  [m \in Heap \cup {n} |->
     IF m = n THEN [index |-> i, value |-> v, next |-> NULL] ELSE node[m]]

HASH_insert(i, v) ==
  LET n == malloc
      tail == searchFor(0, hashFunction(i))
      new == Linked(i, v, n)
  IN  /\ live
      /\ Heap # Node
      /\ IF tail # NULL
           THEN /\ node' = [new EXCEPT ![tail].next = n]
                /\ UNCHANGED head
           ELSE /\ node' = new
                /\ head' = [head EXCEPT ![hashFunction(i)] = n]
      /\ Answers("insert", 1)
      /\ UNCHANGED live

HASH_get(i) ==
  LET n == searchFor(i, hashFunction(i)) IN
  /\ live
  /\ Answers("get", IF n = NULL THEN NULL ELSE node[n].value)
  /\ UNCHANGED <<head, node, live>>

StillHeld(nodes) == node

Freed(nodes) == [n \in Heap \ nodes |-> node[n]]

\* The rest of the chain is dropped with its first node.
BucketWithoutFirst(i) == [head EXCEPT ![hashFunction(i)] = NULL]

DeleteFirst(i) ==
  LET b == hashFunction(i) IN
  /\ live
  /\ head[b] # NULL /\ node[head[b]].index = i
  /\ node' = Freed({head[b]})
  /\ head' = BucketWithoutFirst(i)
  /\ Answers("delete", 1)
  /\ UNCHANGED live

CutOff(c, k) == NULL

\* The successor of the node behind the one at place k of chain c.
Bypassed(c, k) == node[c[k + 1]].next

DeleteLater(i) ==
  LET c == Chain(hashFunction(i))
      k == First(Places(c, i)) - 1
  IN  /\ live
      /\ Places(c, i) # {} /\ 1 \notin Places(c, i)
      /\ node' = [n \in Heap \ {c[k + 1]} |->
                    IF n = c[k] THEN [node[n] EXCEPT !.next = Bypassed(c, k)]
                    ELSE node[n]]
      /\ Answers("delete", 1)
      /\ UNCHANGED <<head, live>>

DeleteNone(i) ==
  /\ live
  /\ Places(Chain(hashFunction(i)), i) = {}
  /\ Answers("delete", 0)
  /\ UNCHANGED <<head, node, live>>

InChains == UNION {ToSet(Chain(b)) : b \in DOMAIN head}

\* The heads are left as they are: HASH_create comes before any other call.
HASH_destroy ==
  /\ live
  /\ node' = Freed(InChains)
  /\ live' = FALSE
  /\ Answers("destroy", 1)
  /\ UNCHANGED head

HASH_Next ==
  \/ HASH_create
  \/ HASH_destroy
  \/ \E i \in Index :
       \/ \E v \in Value : HASH_insert(i, v)
       \/ HASH_get(i)
       \/ DeleteFirst(i)
       \/ DeleteLater(i)
       \/ DeleteNone(i)

HASH_Spec == HASH_Init /\ [][HASH_Next]_HASH_vars

-----------------------------------------------------------------------------
(***************************************************************************)
(* Properties                                                              *)
(***************************************************************************)

\* Of the nodes of chain c, the values of those with index i.
Under(c, i) ==
  [k \in 1 .. Len(c) |->
     IF node[c[k]].index = i THEN <<node[c[k]].value>> ELSE << >>]

\* The values in the table under index i.
ValuesOf(i) ==
  IF live THEN FlattenSeq(Under(Chain(hashFunction(i)), i)) ELSE << >>

Dict == INSTANCE Dictionary
  WITH values <- [i \in Index |-> ValuesOf(i)], ret <- call

\* Whatever calls are mixed on a table, each index other than 0 gives back its
\* values in the order they were stored, a HASH_delete takes the oldest one,
\* and no call touches an index of another bucket: the chains stay chains.
\* Only a HASH_delete drops what collides with the index it was given.
ImplementsDictionary == Dict!Spec

Lost == IF live THEN Heap \ InChains ELSE Heap

\* Nodes are lost, neither freed nor in a chain, only by a HASH_delete of the
\* first node of their bucket: what HASH_insert allocates and no such call
\* cuts off, HASH_delete or HASH_destroy frees.
LostOnlyBehindFirst ==
  [][Lost' \subseteq Lost \/ \E b \in DOMAIN head :
        /\ call'.op = "delete" /\ live
        /\ Lost' \ Lost = ToSet(Chain(b)) \ {head[b]}
        /\ head[b] \notin DOMAIN node']_HASH_vars
=============================================================================
