---------------------------- MODULE QueueTProofs ----------------------------
(***************************************************************************)
(* What linking and unlinking a node do to the list of a queueT: the facts *)
(* the proofs of every synchronised queue rest on.                         *)
(***************************************************************************)
EXTENDS QueueT, SequenceTheorems, TLAPS

(* NextInt stays in the type and tells its arguments apart. *)
LEMMA NextIntType ==
  ASSUME NEW x \in CInt
  PROVE  NextInt(x) \in CInt
BY QueueTAssumption DEF CInt, NextInt

LEMMA NextIntInjective ==
  ASSUME NEW x \in CInt, NEW y \in CInt, NextInt(x) = NextInt(y)
  PROVE  x = y
BY QueueTAssumption DEF CInt, NextInt

(* A counter of the statistics stays in its type when it is incremented. *)
LEMMA BumpType ==
  ASSUME stats \in [Counters -> CLong], NEW c \in Counters
  PROVE  Bump(c) \in [Counters -> CLong]
BY QueueTAssumption DEF CLong, NextLong, Bump

-----------------------------------------------------------------------------

(* The list does not change by itself. *)
LEMMA ListFrame ==
  ASSUME UNCHANGED listVars
  PROVE  /\ ListIntact => ListIntact'
         /\ Len(chain') = Len(chain)
         /\ \A out, in : ValuesBetween(out, in) => ValuesBetween(out, in)'
BY DEF listVars, ListIntact, ValuesBetween

(* queueAdd's linking of a block malloc has just returned keeps the list   *)
(* intact and appends the value.                                           *)
LEMMA LinkAppends ==
  ASSUME ListTypeOK, ListIntact,
         NEW n \in Node \ heap, NEW v \in CInt, Link(n, v)
  PROVE  /\ ListTypeOK'
         /\ ListIntact'
         /\ chain' # <<>>
         /\ Len(chain') = Len(chain) + 1
         /\ \A k \in 1 .. Len(chain) :
              chain'[k] = chain[k] /\ val'[chain'[k]] = val[chain[k]]
         /\ chain'[Len(chain) + 1] = n
         /\ val'[chain'[Len(chain) + 1]] = v
<1>1. /\ Len(chain) \in Nat
      /\ \A k \in 1 .. Len(chain) : chain[k] \in Node
      /\ Len(chain) = 0 <=> chain = <<>>
  BY LenProperties, ElementOfSeq, EmptySeq DEF ListTypeOK
<1>2. /\ chain' = Append(chain, n)
      /\ chain' \in Seq(Node)
      /\ Len(chain') = Len(chain) + 1
      /\ chain'[Len(chain) + 1] = n
      /\ \A k \in 1 .. Len(chain) : chain'[k] = chain[k]
  BY <1>1 DEF Link, ListTypeOK
<1>3. \A k \in 1 .. Len(chain) : chain[k] # n
  BY <1>1 DEF ListIntact
<1>4. NULL \notin Node
  BY QueueTAssumption
<1>5. /\ first = NULL <=> chain = <<>>
      /\ chain # <<>> => last \in Node /\ last # n /\ last = chain[Len(chain)]
  BY <1>1, <1>3, <1>4 DEF ListIntact, ListTypeOK
<1>6. ListTypeOK'
  BY <1>2, <1>4, <1>5 DEF Link, ListTypeOK
<1>7. \A m \in Node : val'[m] = IF m = n THEN v ELSE val[m]
  BY DEF Link, ListTypeOK
<1>8. next'[n] = NULL
  BY <1>5 DEF Link, ListTypeOK
<1>9. \A k \in 1 .. Len(chain) : next'[chain[k]] =
        IF k = Len(chain) THEN n ELSE next[chain[k]]
  <2> TAKE k \in 1 .. Len(chain)
  <2>1. first # NULL /\ chain # <<>>
    BY <1>1, <1>5
  <2>2. next' = [next EXCEPT ![n] = NULL, ![last] = n]
    BY <2>1 DEF Link
  <2>3. last = chain[k] <=> k = Len(chain)
    BY <1>1, <1>5, <2>1 DEF ListIntact
  <2>4. chain[k] \in Node /\ chain[k] # n /\ last \in Node
    BY <1>1, <1>3, <1>5, <2>1
  <2> QED BY <2>2, <2>3, <2>4 DEF ListTypeOK
<1>10. ListIntact'
  <2>1. first' = IF chain' = <<>> THEN NULL ELSE chain'[1]
    BY <1>1, <1>2, <1>5 DEF Link, ListIntact
  <2>2. chain' # <<>> => last' = chain'[Len(chain')] /\ next'[last'] = NULL
    BY <1>2, <1>8 DEF Link
  <2>3. \A k \in 1 .. Len(chain') - 1 : next'[chain'[k]] = chain'[k + 1]
    <3> TAKE k \in 1 .. Len(chain') - 1
    <3>1. k \in 1 .. Len(chain) /\ chain'[k] = chain[k]
      BY <1>1, <1>2
    <3>2. CASE k = Len(chain)
      BY <1>2, <1>9, <3>1, <3>2
    <3>3. CASE k # Len(chain)
      <4>1. k + 1 \in 1 .. Len(chain) /\ k \in 1 .. Len(chain) - 1
        BY <1>1, <3>1, <3>3
      <4> QED BY <1>2, <1>9, <3>1, <3>3, <4>1 DEF ListIntact
    <3> QED BY <3>2, <3>3
  <2>4. \A j, k \in 1 .. Len(chain') : chain'[j] = chain'[k] => j = k
    BY <1>1, <1>2, <1>3 DEF ListIntact
  <2>5. heap' = {chain'[k] : k \in 1 .. Len(chain')}
    BY <1>1, <1>2 DEF Link, ListIntact
  <2> QED BY <2>1, <2>2, <2>3, <2>4, <2>5 DEF ListIntact
<1>11. /\ val'[chain'[Len(chain) + 1]] = v
       /\ \A k \in 1 .. Len(chain) : val'[chain'[k]] = val[chain[k]]
  BY <1>1, <1>2, <1>3, <1>7
<1> QED
  BY <1>1, <1>2, <1>6, <1>10, <1>11

(* queueGet's unlinking and freeing of the first node keeps the list       *)
(* intact and removes the front value.                                     *)
LEMMA UnlinkRemoves ==
  ASSUME ListTypeOK, ListIntact, chain # <<>>, Unlink
  PROVE  /\ ListTypeOK'
         /\ ListIntact'
         /\ first = chain[1]
         /\ first \in Node
         /\ Len(chain') = Len(chain) - 1
         /\ Len(chain) > 0
         /\ chain' = <<>> <=> Len(chain) = 1
         /\ val' = val
         /\ \A k \in 1 .. Len(chain') : chain'[k] = chain[k + 1]
<1>1. /\ Len(chain) \in Nat
      /\ Len(chain) > 0
      /\ \A k \in 1 .. Len(chain) : chain[k] \in Node
  BY LenProperties, ElementOfSeq, EmptySeq DEF ListTypeOK
<1>2. /\ chain' \in Seq(Node)
      /\ Len(chain') = Len(chain) - 1
      /\ \A k \in 1 .. Len(chain') : chain'[k] = chain[k + 1]
  BY HeadTailProperties DEF Unlink, ListTypeOK
<1>3. chain' = <<>> <=> Len(chain) = 1
  BY <1>1, <1>2, EmptySeq
<1>4. first = chain[1] /\ first \in Node
  BY <1>1 DEF ListIntact
<1>5. next' = next /\ val' = val /\ last' = last
  BY DEF Unlink
<1>6. ListTypeOK'
  BY <1>2, <1>4 DEF Unlink, ListTypeOK
<1>7. ListIntact'
  <2>1. first' = IF chain' = <<>> THEN NULL ELSE chain'[1]
    <3>1. CASE Len(chain) = 1
      BY <1>3, <1>4, <3>1 DEF Unlink, ListIntact
    <3>2. CASE Len(chain) # 1
      <4>1. 1 \in 1 .. Len(chain) - 1 /\ 1 \in 1 .. Len(chain')
        BY <1>1, <1>2, <3>2
      <4> QED BY <1>2, <1>3, <1>4, <3>2, <4>1 DEF Unlink, ListIntact
    <3> QED BY <3>1, <3>2
  <2>2. chain' # <<>> => last' = chain'[Len(chain')] /\ next'[last'] = NULL
    <3> HAVE chain' # <<>>
    <3>1. Len(chain') \in 1 .. Len(chain')
      BY <1>1, <1>2, <1>3
    <3> QED BY <1>1, <1>2, <1>5, <3>1 DEF ListIntact
  <2>3. \A k \in 1 .. Len(chain') - 1 : next'[chain'[k]] = chain'[k + 1]
    <3> TAKE k \in 1 .. Len(chain') - 1
    <3>1. /\ k \in 1 .. Len(chain') /\ k + 1 \in 1 .. Len(chain')
          /\ k + 1 \in 1 .. Len(chain) - 1
      BY <1>1, <1>2
    <3> QED BY <1>2, <1>5, <3>1 DEF ListIntact
  <2>4. \A j, k \in 1 .. Len(chain') : chain'[j] = chain'[k] => j = k
    BY <1>1, <1>2 DEF ListIntact
  <2>5. heap' = {chain'[k] : k \in 1 .. Len(chain')}
    <3>1. heap' = {chain[k] : k \in 1 .. Len(chain)} \ {chain[1]}
      BY <1>4 DEF Unlink, ListIntact
    <3>2. ASSUME NEW x \in heap'
          PROVE  x \in {chain'[k] : k \in 1 .. Len(chain')}
      <4>1. PICK j \in 1 .. Len(chain) : x = chain[j] /\ j # 1
        BY <3>1, <3>2
      <4>2. j - 1 \in 1 .. Len(chain') /\ chain'[j - 1] = chain[j]
        BY <1>1, <1>2, <4>1
      <4> QED BY <4>1, <4>2
    <3>3. ASSUME NEW k \in 1 .. Len(chain')
          PROVE  chain'[k] \in heap'
      <4>1. k + 1 \in 1 .. Len(chain) /\ k + 1 # 1 /\ 1 \in 1 .. Len(chain)
        BY <1>1, <1>2, <3>3
      <4> QED BY <1>2, <3>1, <4>1 DEF ListIntact
    <3> QED BY <3>2, <3>3
  <2> QED BY <2>1, <2>2, <2>3, <2>4, <2>5 DEF ListIntact
<1> QED
  BY <1>1, <1>2, <1>3, <1>4, <1>5, <1>6, <1>7

-----------------------------------------------------------------------------

(* Linking the writer's next value extends the run of values in the list.  *)
LEMMA LinkExtendsValues ==
  ASSUME ListTypeOK, ListIntact, NEW out \in CInt, NEW v \in CInt,
         ValuesBetween(out, v), NEW n \in Node \ heap, Link(n, v)
  PROVE  /\ \A k \in 1 .. Len(chain') - 1 :
              val'[chain'[k + 1]] = NextInt(val'[chain'[k]])
         /\ val'[chain'[1]] = out
         /\ NextInt(val'[chain'[Len(chain')]]) = NextInt(v)
<1>1. /\ Len(chain) \in Nat
      /\ Len(chain) = 0 <=> chain = <<>>
  BY LenProperties, EmptySeq DEF ListTypeOK
<1>2. /\ Len(chain') = Len(chain) + 1
      /\ \A k \in 1 .. Len(chain) : val'[chain'[k]] = val[chain[k]]
      /\ val'[chain'[Len(chain) + 1]] = v
  BY LinkAppends
<1>3. \A k \in 1 .. Len(chain') - 1 :
        val'[chain'[k + 1]] = NextInt(val'[chain'[k]])
  <2> TAKE k \in 1 .. Len(chain') - 1
  <2>1. k \in 1 .. Len(chain)
    BY <1>1, <1>2
  <2>2. CASE k = Len(chain)
    BY <1>1, <1>2, <2>1, <2>2 DEF ValuesBetween
  <2>3. CASE k # Len(chain)
    <3>1. k \in 1 .. Len(chain) - 1 /\ k + 1 \in 1 .. Len(chain)
      BY <1>1, <2>1, <2>3
    <3> QED BY <1>2, <2>1, <3>1 DEF ValuesBetween
  <2> QED BY <2>2, <2>3
<1>4. val'[chain'[1]] = out
  <2>1. CASE Len(chain) = 0
    BY <1>1, <1>2, <2>1 DEF ValuesBetween
  <2>2. CASE Len(chain) # 0
    <3>1. 1 \in 1 .. Len(chain)
      BY <1>1, <2>2
    <3> QED BY <1>1, <1>2, <2>2, <3>1 DEF ValuesBetween
  <2> QED BY <2>1, <2>2
<1> QED
  BY <1>2, <1>3, <1>4

(* Taking the first value off leaves the run that starts one later. *)
LEMMA UnlinkShortensValues ==
  ASSUME ListTypeOK, ListIntact, chain # <<>>, NEW out, NEW in,
         ValuesBetween(out, in), Unlink
  PROVE  /\ val[first] = out
         /\ \A k \in 1 .. Len(chain') - 1 :
              val'[chain'[k + 1]] = NextInt(val'[chain'[k]])
         /\ IF chain' = <<>>
            THEN NextInt(out) = in
            ELSE /\ val'[chain'[1]] = NextInt(out)
                 /\ NextInt(val'[chain'[Len(chain')]]) = in
<1>1. /\ Len(chain) \in Nat
      /\ Len(chain) > 0
      /\ Len(chain') = Len(chain) - 1
      /\ chain' = <<>> <=> Len(chain) = 1
      /\ \A k \in 1 .. Len(chain') : chain'[k] = chain[k + 1]
      /\ val' = val
      /\ first = chain[1]
  BY UnlinkRemoves, LenProperties DEF ListTypeOK
<1>2. val[first] = out
  BY <1>1 DEF ValuesBetween
<1>3. ASSUME NEW k \in 1 .. Len(chain') - 1
      PROVE  val'[chain'[k + 1]] = NextInt(val'[chain'[k]])
  <2>1. /\ k \in 1 .. Len(chain') /\ k + 1 \in 1 .. Len(chain')
        /\ k + 1 \in 1 .. Len(chain) - 1
    BY <1>1, <1>3
  <2> QED BY <1>1, <2>1 DEF ValuesBetween
<1>4. CASE Len(chain) = 1
  BY <1>1, <1>2, <1>3, <1>4 DEF ValuesBetween
<1>5. CASE Len(chain) # 1
  <2>1. /\ 1 \in 1 .. Len(chain') /\ Len(chain') \in 1 .. Len(chain')
        /\ 1 \in 1 .. Len(chain) - 1
        /\ chain' # <<>>
    BY <1>1, <1>5
  <2>2. val'[chain'[1]] = NextInt(out)
    BY <1>1, <2>1 DEF ValuesBetween
  <2>3. NextInt(val'[chain'[Len(chain')]]) = in
    BY <1>1, <2>1 DEF ValuesBetween
  <2> QED BY <1>2, <1>3, <2>1, <2>2, <2>3
<1> QED
  BY <1>4, <1>5
-----------------------------------------------------------------------------
(* The list as the sequence of its values. *)

LEMMA ContentsType ==
  ASSUME NEW s \in Seq(Node), NEW f \in [Node -> CInt]
  PROVE  LET c == [k \in 1 .. Len(s) |-> f[s[k]]]
         IN  /\ c \in Seq(CInt)
             /\ Len(c) = Len(s)
             /\ \A k \in 1 .. Len(s) : c[k] = f[s[k]]
<1> DEFINE c == [k \in 1 .. Len(s) |-> f[s[k]]]
<1>1. Len(s) \in Nat /\ \A k \in 1 .. Len(s) : s[k] \in Node
  BY LenProperties, ElementOfSeq
<1>2. c \in [1 .. Len(s) -> CInt]
  BY <1>1
<1>3. c \in Seq(CInt)
  BY <1>1, <1>2
<1>4. Len(c) = Len(s)
  BY <1>1, <1>2, <1>3
<1> QED
  BY <1>3, <1>4

LEMMA LinkContents ==
  ASSUME ListTypeOK, ListIntact, NEW n \in Node \ heap, NEW v \in CInt, Link(n, v)
  PROVE  contents' = Append(contents, v)
<1>1. /\ Len(chain) \in Nat
      /\ Len(chain') = Len(chain) + 1
      /\ \A k \in 1 .. Len(chain) : val'[chain'[k]] = val[chain[k]]
      /\ val'[chain'[Len(chain) + 1]] = v
      /\ chain' \in Seq(Node) /\ val' \in [Node -> CInt]
  BY LinkAppends, LenProperties DEF ListTypeOK
<1>2. /\ contents \in Seq(CInt)
      /\ Len(contents) = Len(chain)
      /\ \A k \in 1 .. Len(chain) : contents[k] = val[chain[k]]
  BY ContentsType DEF contents, ListTypeOK
<1>3. /\ contents' \in Seq(CInt)
      /\ Len(contents') = Len(chain')
      /\ \A k \in 1 .. Len(chain') : contents'[k] = val'[chain'[k]]
  BY <1>1, ContentsType DEF contents
<1>4. /\ Append(contents, v) \in Seq(CInt)
      /\ Len(Append(contents, v)) = Len(chain) + 1
      /\ \A k \in 1 .. Len(chain) : Append(contents, v)[k] = contents[k]
      /\ Append(contents, v)[Len(chain) + 1] = v
  BY <1>2
<1>5. \A k \in 1 .. Len(contents') : contents'[k] = Append(contents, v)[k]
  BY <1>1, <1>2, <1>3, <1>4
<1> QED
  BY <1>1, <1>3, <1>4, <1>5, SeqEqual

LEMMA UnlinkContents ==
  ASSUME ListTypeOK, ListIntact, chain # <<>>, Unlink
  PROVE  /\ contents # <<>>
         /\ Head(contents) = val[first]
         /\ contents' = Tail(contents)
<1>1. /\ Len(chain) \in Nat
      /\ Len(chain) > 0
      /\ Len(chain') = Len(chain) - 1
      /\ \A k \in 1 .. Len(chain') : chain'[k] = chain[k + 1]
      /\ val' = val
      /\ first = chain[1]
      /\ chain' \in Seq(Node) /\ val' \in [Node -> CInt]
  BY UnlinkRemoves, LenProperties DEF ListTypeOK
<1>2. /\ contents \in Seq(CInt)
      /\ Len(contents) = Len(chain)
      /\ \A k \in 1 .. Len(chain) : contents[k] = val[chain[k]]
  BY ContentsType DEF contents, ListTypeOK
<1>3. /\ contents' \in Seq(CInt)
      /\ Len(contents') = Len(chain')
      /\ \A k \in 1 .. Len(chain') : contents'[k] = val'[chain'[k]]
  BY <1>1, ContentsType DEF contents
<1>4. contents # <<>> /\ Head(contents) = val[first]
  BY <1>1, <1>2, EmptySeq
<1>5. /\ Tail(contents) \in Seq(CInt)
      /\ Len(Tail(contents)) = Len(chain) - 1
      /\ \A k \in 1 .. Len(chain) - 1 : Tail(contents)[k] = contents[k + 1]
  BY <1>2, <1>4, HeadTailProperties
<1>6. \A k \in 1 .. Len(contents') : contents'[k] = Tail(contents)[k]
  BY SMTT(20), <1>1, <1>2, <1>3, <1>5
<1> QED
  BY <1>1, <1>3, <1>4, <1>5, <1>6, SeqEqual

LEMMA ContentsFrame ==
  ASSUME UNCHANGED listVars
  PROVE  contents' = contents
BY DEF listVars, contents
=============================================================================
