------------------------------- MODULE QueueT -------------------------------
(***************************************************************************)
(* The object queueT that the four synchronised queues of lab2/code/2.2    *)
(* share field by field: a singly linked list with its first and last      *)
(* pointers, the element count, the capacity and the statistics.  The      *)
(* operators are the pieces of queueAdd and queueGet that the variants     *)
(* have in common; who may execute them, and when, is the business of the  *)
(* module of each variant.                                                 *)
(***************************************************************************)
EXTENDS Integers, Sequences

CONSTANTS
  Node,        \* the blocks malloc can hand out for a qnodeT
  NULL,        \* the null pointer
  IntRange,    \* number of values of a C int: 2^32 in the program
  LongRange,   \* number of values of a C long: 2^64 in the program
  Capacities   \* the values atoi(argv[1]) may give to maxCount

ASSUME QueueTAssumption ==
  /\ NULL \notin Node
  /\ IntRange  \in Nat \ {0}
  /\ LongRange \in Nat \ {0}
  /\ Capacities \subseteq Int

VARIABLES
  maxCount, count,
  stats,       \* the four counters of queuePrintStats
  first, last,
  next, val,   \* the fields of every node
  heap,        \* the nodes that are allocated
  chain        \* auxiliary: the nodes of the list, in list order

queueVars == <<maxCount, count, stats, first, last, next, val, heap, chain>>
listVars  == <<first, last, next, val, heap, chain>>

-----------------------------------------------------------------------------
(* C integers: the residue of the value, so that an increment wraps. *)

CInt  == 0 .. IntRange - 1
CLong == 0 .. LongRange - 1

NextInt(x)  == IF x = IntRange - 1  THEN 0 ELSE x + 1
NextLong(x) == IF x = LongRange - 1 THEN 0 ELSE x + 1

Counters == {"addAttempts", "getAttempts", "addCount", "getCount"}

-----------------------------------------------------------------------------
(* queueInit; a node's fields are written before the node is linked, so    *)
(* what uninitialised nodes hold is never read.                            *)
QueueInit ==
  /\ maxCount \in Capacities
  /\ count = 0
  /\ stats = [c \in Counters |-> 0]
  /\ first = NULL
  /\ last = NULL
  /\ next = [n \in Node |-> NULL]
  /\ val = [n \in Node |-> 0]
  /\ heap = {}
  /\ chain = <<>>

(* One of the counters incremented. *)
Bump(c) == [stats EXCEPT ![c] = NextLong(@)]

(* Mutant of Link: the test for the empty list is forgotten. *)
LinkBehindLast(n, v) ==
  /\ heap' = heap \cup {n}
  /\ val' = [val EXCEPT ![n] = v]
  /\ next' = [m \in Node |-> IF m = n THEN NULL ELSE IF m = last THEN n ELSE next[m]]
  /\ last' = n
  /\ chain' = Append(chain, n)
  /\ UNCHANGED first

(* malloc returns n; n is filled in and becomes the last node. *)
Link(n, v) ==
  /\ heap' = heap \cup {n}
  /\ val' = [val EXCEPT ![n] = v]
  /\ next' = IF first = NULL
             THEN [next EXCEPT ![n] = NULL]
             ELSE [next EXCEPT ![n] = NULL, ![last] = n]
  /\ first' = IF first = NULL THEN n ELSE first
  /\ last' = n
  /\ chain' = Append(chain, n)

(* q->first = q->first->next; free(tmp), with tmp the old first node.      *)
(* last is left alone, so it dangles when the list becomes empty.          *)
Unlink ==
  /\ first' = next[first]
  /\ heap' = heap \ {first}
  /\ chain' = Tail(chain)
  /\ UNCHANGED <<last, next, val>>

TallyAdd ==
  /\ count' = count + 1
  /\ stats' = Bump("addCount")

TallyGet ==
  /\ count' = count - 1
  /\ stats' = Bump("getCount")

-----------------------------------------------------------------------------

ListTypeOK ==
  /\ first \in Node \cup {NULL}
  /\ last \in Node \cup {NULL}
  /\ next \in [Node -> Node \cup {NULL}]
  /\ val \in [Node -> CInt]
  /\ heap \subseteq Node
  /\ chain \in Seq(Node)

QueueTypeOK ==
  /\ maxCount \in Capacities
  /\ count \in Int
  /\ stats \in [Counters -> CLong]
  /\ ListTypeOK

(* The pointers describe exactly the list in chain: it starts at first,    *)
(* ends at last with a null next, visits no node twice, and its nodes are  *)
(* the allocated ones: nothing leaks and no freed node is reachable.       *)
ListIntact ==
  /\ first = IF chain = <<>> THEN NULL ELSE chain[1]
  /\ chain # <<>> => /\ last = chain[Len(chain)]
                     /\ next[last] = NULL
  /\ \A k \in 1 .. Len(chain) - 1 : next[chain[k]] = chain[k + 1]
  /\ \A j, k \in 1 .. Len(chain) : chain[j] = chain[k] => j = k
  /\ heap = {chain[k] : k \in 1 .. Len(chain)}

(* The values in the list are consecutive integers, in list order, from   *)
(* the one due next at the reader to the one before the writer's next.     *)
ValuesBetween(out, in) ==
  /\ \A k \in 1 .. Len(chain) - 1 : val[chain[k + 1]] = NextInt(val[chain[k]])
  /\ IF chain = <<>>
     THEN out = in
     ELSE val[chain[1]] = out /\ NextInt(val[chain[Len(chain)]]) = in

(* The values in the list, in list order. *)
contents == [k \in 1 .. Len(chain) |-> val[chain[k]]]

(* a + n = b, for counters that wrap at LongRange and a small n. *)
Ahead(b, a, n) == \/ a + n = b
                  \/ a + n = b + LongRange
=============================================================================
