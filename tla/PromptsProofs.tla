--------------------------- MODULE PromptsProofs ----------------------------
(***************************************************************************)
(* Proofs about Prompts for every set of types and every target, with      *)
(* whatever cycles and unions, any numbers of values, any widths of int    *)
(* and any behaviour of std::cin.                                          *)
(***************************************************************************)
EXTENDS Prompts, SequenceTheorems, WellFoundedInduction, TLAPS

-----------------------------------------------------------------------------
(* The inductive invariant. *)

Cell == [kind : {"value", "null"}]
          \cup [kind : {"address"}, block : [buffer : Nat, size : Nat]]

Item == [do : {"enter"}, type : Types, into : Nat, depth : Nat]
          \cup [do : {"publish"}, from : Nat, into : Nat]
          \cup [do : {"fill"}, into : Nat]

\* Everything that is left to do goes to a buffer there is, and once the address of
\* a buffer is to be pushed nothing that comes later goes to that buffer.
Ordered(items, bufs) ==
  /\ items \in Seq(Item)
  /\ bufs \in Seq(Seq(Cell))
  /\ \A k \in 1..Len(items) : items[k].into \in 1..Len(bufs)
  /\ \A k \in 1..Len(items) : items[k].do = "publish" =>
       /\ items[k].from \in 2..Len(bufs)
       /\ items[k].from # items[k].into
       /\ \A j \in k+1..Len(items) : items[j].into # items[k].from

\* The block is the one its buffer has, and will have for good.
Final(block, items, bufs) ==
  /\ block.buffer \in 1..Len(bufs)
  /\ bufs[block.buffer] # <<>>
  /\ block = Block(bufs, block.buffer)
  /\ \A k \in 1..Len(items) : items[k].into # block.buffer

Published(items, bufs) ==
  \A b \in 1..Len(bufs) : \A k \in 1..Len(bufs[b]) :
    bufs[b][k].kind = "address" => Final(bufs[b][k].block, items, bufs)

\* The buffers are complete or being filled, and their blocks are all there is.
Filled ==
  /\ Ordered(todo, buffers)
  /\ Published(todo, buffers)
  /\ buffers # <<>>
  /\ heap = Blocks(buffers, 1..Len(buffers))

FilledInv == phase \in {"enter", "called", "undefined"} => Filled

\* What is there in the other phases.
FreedInv ==
  /\ phase \in {"choose", "called", "another", "ended"} => todo = <<>>
  /\ phase = "another" => heap = Blocks(buffers, {1})
  /\ phase \in {"choose", "ended"} => heap = {} /\ buffers = <<>>

\* As long as a function is asked for, none has been chosen.
ChoiceInv == phase = "choose" => ~IsChoice(i)

IInv == TypeOK /\ FilledInv /\ FreedInv /\ ChoiceInv

-----------------------------------------------------------------------------
(* What is left to do. *)

LEMMA ItemFacts ==
  ASSUME NEW x \in Item
  PROVE  /\ x.do \in {"enter", "publish", "fill"} /\ x.into \in Nat
         /\ x.do = "enter" => x.type \in Types /\ x.depth \in Nat
         /\ x.do = "publish" => x.from \in Nat
BY DEF Item

LEMMA MakeItems ==
  /\ \A T \in Types, b \in Nat, d \in Nat :
       /\ Enter(T, b, d) \in Item
       /\ Enter(T, b, d).do = "enter" /\ Enter(T, b, d).into = b
  /\ \A b \in Nat, c \in Nat :
       /\ Publish(b, c) \in Item /\ Publish(b, c).do = "publish"
       /\ Publish(b, c).from = b /\ Publish(b, c).into = c
  /\ \A b \in Nat : /\ Fill(b) \in Item /\ Fill(b).do = "fill" /\ Fill(b).into = b
BY DEF Enter, Publish, Fill, Item

\* The first thing to do and the rest.
LEMMA HeadFacts ==
  ASSUME NEW items, NEW bufs, Ordered(items, bufs), items # <<>>
  PROVE  /\ Len(items) \in Nat \ {0}
         /\ Head(items) = items[1] /\ Head(items) \in Item
         /\ Head(items).into \in 1..Len(bufs) /\ Head(items).into \in Nat
         /\ Tail(items) \in Seq(Item) /\ Len(Tail(items)) = Len(items) - 1
         /\ \A k \in 1..Len(items) - 1 : Tail(items)[k] = items[k + 1]
<1>1. items \in Seq(Item)
  BY DEF Ordered
<1>2. Len(items) \in Nat \ {0} /\ Head(items) = items[1] /\ items[1] \in Item
  BY <1>1
<1>3. items[1].into \in 1..Len(bufs)
  BY <1>2 DEF Ordered
<1>4. /\ Tail(items) \in Seq(Item) /\ Len(Tail(items)) = Len(items) - 1
      /\ \A k \in 1..Len(items) - 1 : Tail(items)[k] = items[k + 1]
  BY <1>1, <1>2
<1>5. QED
  BY <1>2, <1>3, <1>4, ItemFacts

\* New things to do come first, and publish only buffers that are new.
LEMMA FrontFacts ==
  ASSUME NEW items, NEW bufs, Ordered(items, bufs), items # <<>>, NEW front \in Seq(Item)
  PROVE  LET t == front \o Tail(items)
         IN  /\ t \in Seq(Item) /\ Len(t) = Len(front) + Len(items) - 1
             /\ \A k \in 1..Len(front) : t[k] = front[k]
             /\ \A k \in Len(front) + 1..Len(t) :
                  k - Len(front) + 1 \in 2..Len(items) /\ t[k] = items[k - Len(front) + 1]
<1> DEFINE t == front \o Tail(items)
           r == Tail(items)
<1>1. /\ Len(items) \in Nat \ {0} /\ r \in Seq(Item) /\ Len(r) = Len(items) - 1
      /\ \A k \in 1..Len(items) - 1 : r[k] = items[k + 1]
  BY HeadFacts
<1> HIDE DEF r
<1>2. /\ front \o r \in Seq(Item) /\ Len(front \o r) = Len(front) + Len(r)
      /\ \A k \in 1..Len(front) : (front \o r)[k] = front[k]
      /\ \A k \in Len(front) + 1..Len(front) + Len(r) : (front \o r)[k] = r[k - Len(front)]
  <2>1. /\ front \o r \in Seq(Item) /\ Len(front \o r) = Len(front) + Len(r)
        /\ \A k \in 1..Len(front) + Len(r) :
             (front \o r)[k] = IF k <= Len(front) THEN front[k] ELSE r[k - Len(front)]
    BY <1>1, ConcatProperties, Zenon
  <2>2. Len(front) \in Nat /\ Len(r) \in Nat
    BY <1>1
  <2>3. QED
    BY <2>1, <2>2
<1>3. ASSUME NEW k \in Len(front) + 1..Len(front) + Len(r)
      PROVE  /\ k - Len(front) \in 1..Len(items) - 1
             /\ k - Len(front) + 1 \in 2..Len(items)
             /\ (front \o r)[k] = items[k - Len(front) + 1]
  <2>1. k - Len(front) \in 1..Len(items) - 1 /\ k - Len(front) + 1 \in 2..Len(items)
    BY <1>1
  <2>2. r[k - Len(front)] = items[k - Len(front) + 1]
    BY <1>1, <2>1
  <2>3. QED
    BY <1>2, <2>1, <2>2
<1>4. Len(front) + Len(r) = Len(front) + Len(items) - 1
  BY <1>1
<1>5. t = front \o r
  BY DEF r
<1>6. QED
  BY <1>2, <1>3, <1>4, <1>5

LEMMA OrderedKeeps ==
  ASSUME NEW items, NEW bufs, Ordered(items, bufs), items # <<>>,
         NEW front, NEW bufs2, Ordered(front, bufs2), Len(bufs) <= Len(bufs2),
         \A k \in 1..Len(front) : front[k].do = "publish" => front[k].from > Len(bufs)
  PROVE  Ordered(front \o Tail(items), bufs2)
<1> DEFINE t == front \o Tail(items)
<1>1. /\ front \in Seq(Item) /\ Len(front) \in Nat /\ Len(items) \in Nat
      /\ Len(bufs) \in Nat /\ Len(bufs2) \in Nat /\ bufs2 \in Seq(Seq(Cell))
  BY DEF Ordered
<1>2. /\ t \in Seq(Item) /\ Len(t) = Len(front) + Len(items) - 1
      /\ \A k \in 1..Len(front) : t[k] = front[k]
      /\ \A k \in Len(front) + 1..Len(t) :
           k - Len(front) + 1 \in 2..Len(items) /\ t[k] = items[k - Len(front) + 1]
  BY <1>1, FrontFacts, Zenon
<1> HIDE DEF t
<1>3. ASSUME NEW k \in 1..Len(t)
      PROVE  k \in 1..Len(front) \/ k \in Len(front) + 1..Len(t)
  BY <1>1, <1>2
<1>4. ASSUME NEW k \in 2..Len(items)
      PROVE  /\ k \in 1..Len(items) /\ items[k].into \in 1..Len(bufs)
             /\ items[k].into \in 1..Len(bufs2)
  BY <1>1 DEF Ordered
<1>5. \A k \in 1..Len(t) : t[k].into \in 1..Len(bufs2)
  BY <1>2, <1>3, <1>4 DEF Ordered
<1>6. ASSUME NEW k \in 1..Len(t), t[k].do = "publish"
      PROVE  /\ t[k].from \in 2..Len(bufs2) /\ t[k].from # t[k].into
             /\ \A j \in k+1..Len(t) : t[j].into # t[k].from
  <2>1. CASE k \in 1..Len(front)
    <3>1. /\ t[k] = front[k] /\ front[k].do = "publish"
          /\ front[k].from \in 2..Len(bufs2) /\ front[k].from # front[k].into
          /\ front[k].from > Len(bufs)
          /\ \A j \in k+1..Len(front) : front[j].into # front[k].from
      BY <1>2, <1>6, <2>1 DEF Ordered
    <3>2. ASSUME NEW j \in k+1..Len(t) PROVE t[j].into # t[k].from
      <4>1. CASE j \in k+1..Len(front)
        <5>1. j \in 1..Len(front)
          BY <1>1, <2>1, <4>1
        <5>2. QED
          BY <1>2, <3>1, <4>1, <5>1
      <4>2. CASE j \in Len(front) + 1..Len(t)
        <5>1. j - Len(front) + 1 \in 2..Len(items) /\ t[j] = items[j - Len(front) + 1]
          BY <1>2, <4>2
        <5>2. t[j].into \in 1..Len(bufs)
          BY <1>4, <5>1
        <5>3. t[k].from > Len(bufs)
          BY <3>1
        <5>4. QED
          BY <1>1, <5>2, <5>3
      <4>3. j \in k+1..Len(front) \/ j \in Len(front) + 1..Len(t)
        BY <1>1, <1>2, <2>1
      <4>4. QED
        BY <4>1, <4>2, <4>3
    <3>3. QED
      BY <3>1, <3>2
  <2>2. CASE k \in Len(front) + 1..Len(t)
    <3> DEFINE m == k - Len(front) + 1
    <3>1. m \in 2..Len(items) /\ m \in 1..Len(items) /\ t[k] = items[m]
      <4>1. m \in 2..Len(items) /\ t[k] = items[m]
        BY <1>2, <2>2
      <4>2. QED
        BY <1>1, <4>1
    <3> HIDE DEF m
    <3>2. /\ items[m].from \in 2..Len(bufs) /\ items[m].from # items[m].into
          /\ \A j \in m+1..Len(items) : items[j].into # items[m].from
      BY <1>6, <3>1 DEF Ordered
    <3>3. ASSUME NEW j \in k+1..Len(t) PROVE t[j].into # t[k].from
      <4>1. j \in Len(front) + 1..Len(t) /\ j - Len(front) + 1 \in m+1..Len(items)
        BY <1>1, <1>2, <2>2 DEF m
      <4>2. t[j] = items[j - Len(front) + 1]
        BY <1>2, <4>1
      <4>3. QED
        BY <3>1, <3>2, <4>1, <4>2
    <3>4. items[m].from \in 2..Len(bufs2)
      BY <1>1, <3>2
    <3>5. QED
      BY <3>1, <3>2, <3>3, <3>4
  <2>3. QED
    BY <1>3, <2>1, <2>2
<1>7. QED
  BY <1>1, <1>2, <1>5, <1>6 DEF Ordered, t

\* Nothing to do that is put first goes to a buffer whose address has been pushed,
\* and all addresses that are pushed now are final.
LEMMA PublishedKeeps ==
  ASSUME NEW items, NEW bufs, Ordered(items, bufs), Published(items, bufs), items # <<>>,
         NEW front \in Seq(Item), NEW bufs2 \in Seq(Seq(Cell)), Len(bufs) <= Len(bufs2),
         \A k \in 1..Len(front) :
           front[k].into = Head(items).into \/ front[k].into > Len(bufs),
         \A b \in 1..Len(bufs) : b # Head(items).into => bufs2[b] = bufs[b],
         \A b \in 1..Len(bufs2) : \A k \in 1..Len(bufs2[b]) :
           \/ bufs2[b][k].kind # "address"
           \/ b \in 1..Len(bufs) /\ k \in 1..Len(bufs[b]) /\ bufs2[b][k] = bufs[b][k]
           \/ Final(bufs2[b][k].block, front \o Tail(items), bufs2)
  PROVE  Published(front \o Tail(items), bufs2)
<1> DEFINE t == front \o Tail(items)
<1>1. /\ Len(items) \in Nat \ {0} /\ Head(items) = items[1]
      /\ items[1].into \in 1..Len(bufs)
  BY HeadFacts
<1>2. /\ t \in Seq(Item) /\ Len(t) = Len(front) + Len(items) - 1
      /\ \A k \in 1..Len(front) : t[k] = front[k]
      /\ \A k \in Len(front) + 1..Len(t) :
           k - Len(front) + 1 \in 2..Len(items) /\ t[k] = items[k - Len(front) + 1]
  <2>1. Ordered(items, bufs) /\ items # <<>> /\ front \in Seq(Item)
    OBVIOUS
  <2> QED
    BY ONLY <2>1, FrontFacts, Zenon
<1>3. /\ Len(front) \in Nat /\ Len(bufs) \in Nat /\ Len(bufs2) \in Nat
  BY DEF Ordered
<1> HIDE DEF t
<1>4. ASSUME NEW block, Final(block, items, bufs)
      PROVE  Final(block, t, bufs2)
  <2>1. /\ block.buffer \in 1..Len(bufs) /\ bufs[block.buffer] # <<>>
        /\ block = Block(bufs, block.buffer)
        /\ \A k \in 1..Len(items) : items[k].into # block.buffer
    BY <1>4 DEF Final
  <2>2. block.buffer # Head(items).into
    <3>1. 1 \in 1..Len(items)
      BY <1>1
    <3>2. QED
      BY <1>1, <2>1, <3>1
  <2>3. bufs2[block.buffer] = bufs[block.buffer]
    BY <2>1, <2>2
  <2>4. block.buffer \in 1..Len(bufs2)
    BY <1>3, <2>1
  <2>5. ASSUME NEW k \in 1..Len(t) PROVE t[k].into # block.buffer
    <3>1. CASE k \in 1..Len(front)
      <4>1. t[k] = front[k]
        BY <1>2, <3>1
      <4>2. front[k].into = Head(items).into \/ front[k].into > Len(bufs)
        BY <3>1
      <4>3. QED
        BY <1>3, <2>1, <2>2, <4>1, <4>2
    <3>2. CASE k \in Len(front) + 1..Len(t)
      <4>1. k - Len(front) + 1 \in 1..Len(items) /\ t[k] = items[k - Len(front) + 1]
        BY <1>1, <1>2, <3>2
      <4>2. QED
        BY <2>1, <4>1
    <3>3. QED
      BY <1>2, <1>3, <3>1, <3>2
  <2>6. QED
    BY <2>1, <2>3, <2>4, <2>5 DEF Final, Block
<1>5. ASSUME NEW b \in 1..Len(bufs2), NEW k \in 1..Len(bufs2[b]), bufs2[b][k].kind = "address"
      PROVE  Final(bufs2[b][k].block, t, bufs2)
  <2>1. CASE b \in 1..Len(bufs) /\ k \in 1..Len(bufs[b]) /\ bufs2[b][k] = bufs[b][k]
    BY <1>4, <1>5, <2>1 DEF Published
  <2>2. CASE Final(bufs2[b][k].block, t, bufs2)
    BY <2>2
  <2>3. QED
    BY <1>5, <2>1, <2>2 DEF t
<1>6. QED
  BY <1>5 DEF Published, t

-----------------------------------------------------------------------------
(* Blocks. *)

\* A push allocates anew the blocks of the buffers that it changes and no others.
LEMMA PushKeepsExact ==
  ASSUME NEW bufs \in Seq(Seq(Cell)), NEW bufs2 \in Seq(Seq(Cell)), NEW bs,
         1..Len(bufs2) = (1..Len(bufs)) \cup bs,
         \A b \in (1..Len(bufs)) \ bs : bufs2[b] = bufs[b]
  PROVE  (Blocks(bufs, 1..Len(bufs)) \ Blocks(bufs, bs \cap DOMAIN bufs)) \cup Blocks(bufs2, bs)
           = Blocks(bufs2, 1..Len(bufs2))
<1>1. DOMAIN bufs = 1..Len(bufs)
  OBVIOUS
<1>2. ASSUME NEW b, NEW c, Block(bufs, b) = Block(bufs, c) PROVE b = c
  BY <1>2 DEF Block
<1>3. \A b \in (1..Len(bufs)) \ bs : Block(bufs2, b) = Block(bufs, b)
  BY DEF Block
<1>4. ASSUME NEW x \in Blocks(bufs2, 1..Len(bufs2))
      PROVE  \/ x \in Blocks(bufs2, bs)
             \/ x \in Blocks(bufs, 1..Len(bufs)) /\ x \notin Blocks(bufs, bs \cap DOMAIN bufs)
  <2>1. PICK b \in 1..Len(bufs2) : bufs2[b] # <<>> /\ x = Block(bufs2, b)
    BY <1>4 DEF Blocks
  <2>2. CASE b \in bs
    BY <2>1, <2>2 DEF Blocks
  <2>3. CASE b \in (1..Len(bufs)) \ bs
    <3>1. x = Block(bufs, b) /\ bufs[b] # <<>>
      BY <1>3, <2>1, <2>3
    <3>2. QED
      BY <1>2, <2>3, <3>1 DEF Blocks
  <2>4. QED
    BY <2>2, <2>3
<1>5. ASSUME NEW x \in Blocks(bufs, 1..Len(bufs)), x \notin Blocks(bufs, bs \cap DOMAIN bufs)
      PROVE  x \in Blocks(bufs2, 1..Len(bufs2))
  <2>1. PICK b \in 1..Len(bufs) : bufs[b] # <<>> /\ x = Block(bufs, b)
    BY <1>5 DEF Blocks
  <2>2. b \notin bs
    BY <1>1, <1>5, <2>1 DEF Blocks
  <2>3. x = Block(bufs2, b) /\ bufs2[b] # <<>> /\ b \in 1..Len(bufs2)
    BY <1>3, <2>1, <2>2
  <2>4. QED
    BY <2>3 DEF Blocks
<1>6. ASSUME NEW x \in Blocks(bufs2, bs)
      PROVE  x \in Blocks(bufs2, 1..Len(bufs2))
  BY <1>6 DEF Blocks
<1>7. QED
  BY <1>4, <1>5, <1>6

\* A buffer that nothing was pushed to has no block.
LEMMA NoBlockYet ==
  ASSUME NEW bufs \in Seq(Seq(Cell))
  PROVE  Blocks(Append(bufs, <<>>), 1..Len(Append(bufs, <<>>))) = Blocks(bufs, 1..Len(bufs))
<1> DEFINE bufs2 == Append(bufs, <<>>)
<1>1. /\ Len(bufs2) = Len(bufs) + 1 /\ bufs2[Len(bufs) + 1] = <<>>
      /\ \A b \in 1..Len(bufs) : bufs2[b] = bufs[b]
  OBVIOUS
<1> HIDE DEF bufs2
<1>2. /\ 1..Len(bufs) \subseteq 1..Len(bufs2)
      /\ \A b \in 1..Len(bufs2) : b \in 1..Len(bufs) \/ b = Len(bufs) + 1
  BY <1>1
<1>3. {c \in 1..Len(bufs2) : bufs2[c] # <<>>} = {c \in 1..Len(bufs) : bufs[c] # <<>>}
  BY <1>1, <1>2
<1>4. \A b \in 1..Len(bufs) : Block(bufs2, b) = Block(bufs, b)
  BY <1>1 DEF Block
<1>5. QED
  BY <1>3, <1>4 DEF Blocks, bufs2

\* Without the blocks of storage there is only that of the parameters.
LEMMA StorageFreed ==
  ASSUME NEW bufs \in Seq(Seq(Cell)), bufs # <<>>
  PROVE  Blocks(bufs, 1..Len(bufs)) \ Blocks(bufs, 2..Len(bufs)) = Blocks(bufs, {1})
<1>1. /\ \A b \in 1..Len(bufs) : b \in 2..Len(bufs) \/ b = 1
      /\ 1 \in 1..Len(bufs) /\ 1 \notin 2..Len(bufs)
      /\ 2..Len(bufs) \subseteq 1..Len(bufs)
  OBVIOUS
<1>2. ASSUME NEW b, NEW c, Block(bufs, b) = Block(bufs, c) PROVE b = c
  BY <1>2 DEF Block
<1>3. ASSUME NEW x \in Blocks(bufs, 1..Len(bufs)), x \notin Blocks(bufs, 2..Len(bufs))
      PROVE  x \in Blocks(bufs, {1})
  BY <1>1, <1>3 DEF Blocks
<1>4. ASSUME NEW x \in Blocks(bufs, {1})
      PROVE  x \in Blocks(bufs, 1..Len(bufs)) /\ x \notin Blocks(bufs, 2..Len(bufs))
  <2>1. x = Block(bufs, 1) /\ bufs[1] # <<>>
    BY <1>4 DEF Blocks
  <2>2. QED
    BY <1>1, <1>2, <2>1 DEF Blocks
<1>5. QED
  BY <1>3, <1>4

-----------------------------------------------------------------------------
(* The steps of inputType. *)

LEMMA InitEstablishes == Init => IInv
<1> SUFFICES ASSUME Init PROVE IInv
  OBVIOUS
<1>1. program.functions \in Seq([params : Seq(Types), isVariadic : BOOLEAN])
  BY ProgramsAssumption DEF Init
<1>2. isFunctionValid \in [DOMAIN program.functions -> BOOLEAN]
  BY DEF Init, IsValid
<1>3. ~IsChoice(i)
  BY <1>1, <1>2 DEF Init, IsChoice
<1>4. TypeOK
  BY <1>2, BoundsAssumption DEF Init, TypeOK, Phases
<1>5. FilledInv /\ FreedInv /\ ChoiceInv
  BY <1>3 DEF Init, FilledInv, FreedInv, ChoiceInv
<1>6. QED
  BY <1>4, <1>5 DEF IInv

\* While parameters are entered it is enough to look at buffers and things to do.
LEMMA FilledKeeps ==
  ASSUME IInv, phase = "enter", UNCHANGED <<program, isFunctionValid, phase, i>>,
         option' \in -IntMax-1..IntMax, cin' \in {"good", "failed"}, Filled'
  PROVE  IInv'
<1>1. Ordered(todo', buffers') /\ todo' \in Seq(Item) /\ buffers' \in Seq(Seq(Cell))
  BY DEF Filled, Ordered
<1>2. DOMAIN todo' = 1..Len(todo') /\ DOMAIN buffers' = 1..Len(buffers')
  BY <1>1
<1>3. ASSUME NEW k \in 1..Len(todo')
      PROVE  /\ todo'[k].do = "enter" => todo'[k].type \in Types /\ todo'[k].depth \in Nat
             /\ todo'[k].do = "publish" => todo'[k].from \in (1..Len(buffers')) \ {1}
             /\ todo'[k].into \in 1..Len(buffers')
  <2>1. todo'[k] \in Item
    BY <1>1
  <2>2. /\ todo'[k].into \in 1..Len(buffers')
        /\ todo'[k].do = "publish" => todo'[k].from \in 2..Len(buffers')
    BY <1>1 DEF Ordered
  <2>3. \A n \in 2..Len(buffers') : n \in (1..Len(buffers')) \ {1}
    BY <1>1
  <2>4. QED
    BY <2>1, <2>2, <2>3, ItemFacts
<1>4. IsChoice(i)'
  BY DEF IInv, TypeOK, IsChoice
<1>5. TypeOK'
  BY <1>2, <1>3, <1>4 DEF IInv, TypeOK
<1>6. FilledInv' /\ FreedInv' /\ ChoiceInv'
  BY DEF FilledInv, FreedInv, ChoiceInv
<1>7. QED
  BY <1>5, <1>6 DEF IInv

LEMMA CurrentFacts ==
  ASSUME IInv, phase = "enter", todo # <<>>
  PROVE  /\ Ordered(todo, buffers) /\ Published(todo, buffers)
         /\ buffers \in Seq(Seq(Cell)) /\ buffers # <<>>
         /\ heap = Blocks(buffers, 1..Len(buffers))
         /\ Current \in Item /\ Current = todo[1] /\ 1 \in 1..Len(todo)
         /\ Current.into \in 1..Len(buffers) /\ Current.into \in Nat
         /\ Current.do = "enter" => Current.type \in Types /\ Current.depth \in Nat
<1>1. Filled
  BY DEF IInv, FilledInv
<1>2. Ordered(todo, buffers) /\ todo \in Seq(Item) /\ buffers \in Seq(Seq(Cell))
  BY <1>1 DEF Filled, Ordered
<1>3. /\ Len(todo) \in Nat \ {0}
      /\ Current = todo[1] /\ Current \in Item
      /\ Current.into \in 1..Len(buffers) /\ Current.into \in Nat
  BY <1>2, HeadFacts DEF Current
<1>4. QED
  BY <1>1, <1>2, <1>3, ItemFacts DEF Filled

\* One thing gives way to others that go to the same buffer.
LEMMA ReplacedKeeps ==
  ASSUME IInv, phase = "enter", todo # <<>>,
         NEW front \in Seq(Item),
         \A k \in 1..Len(front) : front[k].do # "publish" /\ front[k].into = Current.into,
         Replaced(front), UNCHANGED <<buffers, heap>>
  PROVE  Filled'
<1>1. /\ Ordered(todo, buffers) /\ Published(todo, buffers)
      /\ buffers \in Seq(Seq(Cell)) /\ buffers # <<>>
      /\ heap = Blocks(buffers, 1..Len(buffers))
      /\ Current.into \in 1..Len(buffers)
  BY CurrentFacts
<1>2. Ordered(front, buffers)
  BY <1>1 DEF Ordered
<1>3. Ordered(front \o Tail(todo), buffers)
  BY <1>1, <1>2, OrderedKeeps
<1>4. Published(front \o Tail(todo), buffers)
  BY <1>1, PublishedKeeps DEF Current
<1>5. todo' = front \o Tail(todo)
  BY DEF Replaced
<1>6. QED
  BY <1>1, <1>3, <1>4, <1>5 DEF Filled

\* Cells are pushed to the buffer that the value belongs to.
LEMMA PushedKeeps ==
  ASSUME IInv, phase = "enter", todo # <<>>, NEW cell \in Cell,
         cell.kind = "address" =>
           Final(cell.block, Tail(todo), [buffers EXCEPT ![Current.into] = @ \o <<cell>>]),
         Pushed(<<cell>>), Replaced(<<>>)
  PROVE  Filled'
<1> DEFINE c == Current.into
           bufs2 == [buffers EXCEPT ![c] = @ \o <<cell>>]
<1>1. /\ Ordered(todo, buffers) /\ Published(todo, buffers)
      /\ buffers \in Seq(Seq(Cell)) /\ buffers # <<>>
      /\ heap = Blocks(buffers, 1..Len(buffers))
      /\ c \in 1..Len(buffers)
  BY CurrentFacts
<1>2. buffers' = bufs2
      /\ heap' = (heap \ Blocks(buffers, {c} \cap DOMAIN buffers)) \cup Blocks(bufs2, {c})
  BY DEF Pushed, Push
<1>3. todo' = Tail(todo) /\ todo' = <<>> \o Tail(todo)
  <2>1. Tail(todo) \in Seq(Item)
    BY <1>1, HeadFacts
  <2>2. <<>> \o Tail(todo) = Tail(todo)
    BY <2>1, ConcatEmptySeq
  <2>3. QED
    BY <2>2 DEF Replaced
<1>4. /\ buffers[c] \in Seq(Cell)
      /\ buffers[c] \o <<cell>> \in Seq(Cell)
      /\ Len(buffers[c] \o <<cell>>) = Len(buffers[c]) + 1
      /\ \A k \in 1..Len(buffers[c]) : (buffers[c] \o <<cell>>)[k] = buffers[c][k]
      /\ (buffers[c] \o <<cell>>)[Len(buffers[c]) + 1] = cell
  BY <1>1
<1>5. /\ bufs2 \in Seq(Seq(Cell)) /\ Len(bufs2) = Len(buffers)
      /\ \A b \in 1..Len(buffers) : b # c => bufs2[b] = buffers[b]
      /\ bufs2[c] = buffers[c] \o <<cell>>
  BY <1>1, <1>4
<1> HIDE DEF bufs2
<1>6. Ordered(todo', bufs2)
  <2>1. Ordered(<<>>, bufs2)
    BY <1>5 DEF Ordered
  <2>2. Len(buffers) <= Len(bufs2) /\ 1..Len(<<>>) = {}
    BY <1>1, <1>5
  <2>3. Ordered(<<>> \o Tail(todo), bufs2)
    BY <1>1, <2>1, <2>2, OrderedKeeps, Zenon
  <2>4. QED
    BY <1>3, <2>3
<1>7. Published(todo', bufs2)
  <2>1. ASSUME NEW b \in 1..Len(bufs2), NEW k \in 1..Len(bufs2[b])
        PROVE  \/ bufs2[b][k].kind # "address"
               \/ b \in 1..Len(buffers) /\ k \in 1..Len(buffers[b]) /\ bufs2[b][k] = buffers[b][k]
               \/ Final(bufs2[b][k].block, <<>> \o Tail(todo), bufs2)
    <3>1. CASE b # c
      BY <1>5, <3>1
    <3>2. CASE b = c /\ k \in 1..Len(buffers[c])
      BY <1>1, <1>4, <1>5, <3>2
    <3>3. CASE b = c /\ k = Len(buffers[c]) + 1
      <4>1. bufs2[b][k] = cell
        BY <1>4, <1>5, <3>3
      <4>2. cell.kind = "address" => Final(cell.block, <<>> \o Tail(todo), bufs2)
        BY <1>3 DEF bufs2
      <4>3. QED
        BY <4>1, <4>2
    <3>4. b = c => k \in 1..Len(buffers[c]) \/ k = Len(buffers[c]) + 1
      BY <1>4, <1>5
    <3>5. QED
      BY <3>1, <3>2, <3>3, <3>4
  <2>2. Len(buffers) <= Len(bufs2) /\ <<>> \in Seq(Item) /\ 1..Len(<<>>) = {}
    BY <1>1, <1>5
  <2>3. \A b \in 1..Len(buffers) : b # Head(todo).into => bufs2[b] = buffers[b]
    BY <1>5 DEF Current
  <2>4. Published(<<>> \o Tail(todo), bufs2)
    BY <1>1, <1>5, <2>1, <2>2, <2>3, PublishedKeeps, Zenon
  <2>5. QED
    BY <1>3, <2>4
<1>8. heap' = Blocks(bufs2, 1..Len(bufs2))
  <2>1. 1..Len(bufs2) = (1..Len(buffers)) \cup {c}
    BY <1>1, <1>5
  <2>2. \A b \in (1..Len(buffers)) \ {c} : bufs2[b] = buffers[b]
    BY <1>5
  <2>3. (Blocks(buffers, 1..Len(buffers)) \ Blocks(buffers, {c} \cap DOMAIN buffers))
          \cup Blocks(bufs2, {c}) = Blocks(bufs2, 1..Len(bufs2))
    BY <1>1, <1>5, <2>1, <2>2, PushKeepsExact, Zenon
  <2>4. QED
    BY <1>1, <1>2, <2>3
<1>9. bufs2 # <<>>
  BY <1>1, <1>5
<1>10. QED
  BY <1>2, <1>6, <1>7, <1>8, <1>9 DEF Filled

\* A new buffer is begun, and its address comes after all that is entered into it.
LEMMA BehindKeeps ==
  ASSUME IInv, phase = "enter", todo # <<>>, Current.do = "enter",
         NEW n \in Nat, NEW T \in Types, Behind(n, T)
  PROVE  Filled'
<1> DEFINE b == Len(buffers) + 1
           copies == Copies(n, T, b, Current.depth + 1)
           front == Append(copies, Publish(b, Current.into))
           bufs2 == Append(buffers, <<>>)
<1>1. /\ Ordered(todo, buffers) /\ Published(todo, buffers)
      /\ buffers \in Seq(Seq(Cell)) /\ buffers # <<>>
      /\ heap = Blocks(buffers, 1..Len(buffers))
      /\ Current.into \in 1..Len(buffers) /\ Current.into \in Nat
      /\ Current.depth \in Nat
  BY CurrentFacts
<1>2. b \in Nat /\ b \in 2..b /\ b # Current.into /\ Len(buffers) \in Nat
  BY <1>1
<1>3. /\ bufs2 \in Seq(Seq(Cell)) /\ Len(bufs2) = b /\ bufs2 # <<>>
      /\ \A c \in 1..Len(buffers) : bufs2[c] = buffers[c]
      /\ bufs2[b] = <<>>
  BY <1>1
<1>4. /\ copies \in Seq(Item) /\ Len(copies) = n
      /\ \A k \in 1..n : copies[k].do = "enter" /\ copies[k].into = b
  <2>1. Current.depth + 1 \in Nat
    BY <1>1
  <2>2. \A k \in 1..n : copies[k] = Enter(T, b, Current.depth + 1)
    BY DEF Copies
  <2>3. /\ Enter(T, b, Current.depth + 1) \in Item
        /\ Enter(T, b, Current.depth + 1).do = "enter"
        /\ Enter(T, b, Current.depth + 1).into = b
    BY <1>2, <2>1, MakeItems
  <2>4. copies \in Seq(Item) /\ Len(copies) = n
    BY <2>3 DEF Copies
  <2>5. QED
    BY <2>2, <2>3, <2>4
<1>5. /\ Publish(b, Current.into) \in Item /\ Publish(b, Current.into).do = "publish"
      /\ Publish(b, Current.into).from = b /\ Publish(b, Current.into).into = Current.into
  BY <1>1, <1>2, MakeItems
<1> HIDE DEF copies
<1>6. /\ front \in Seq(Item) /\ Len(front) = n + 1
      /\ \A k \in 1..n : front[k] = copies[k]
      /\ front[n + 1] = Publish(b, Current.into)
  BY <1>4, <1>5
<1>7. /\ todo' = front \o Tail(todo) /\ buffers' = bufs2 /\ heap' = heap
  BY DEF Behind, Replaced, copies
<1> HIDE DEF front, bufs2, b
<1>8. \A k \in 1..Len(front) :
        \/ front[k].do = "enter" /\ front[k].into = b
        \/ /\ k = n + 1 /\ front[k].do = "publish"
           /\ front[k].from = b /\ front[k].into = Current.into
  <2>1. \A k \in 1..n + 1 : k \in 1..n \/ k = n + 1
    OBVIOUS
  <2>2. QED
    BY <1>4, <1>5, <1>6, <2>1
<1>9. Ordered(front, bufs2)
  <2>1. Current.into \in 1..b /\ b \in 1..b
    BY <1>1, <1>2 DEF b
  <2>2. \A k \in 1..Len(front) : front[k].into \in 1..Len(bufs2)
    BY <1>3, <1>8, <2>1
  <2>3. (n + 1) + 1..Len(front) = {}
    BY <1>6
  <2>4. ASSUME NEW k \in 1..Len(front), front[k].do = "publish"
        PROVE  /\ front[k].from \in 2..Len(bufs2) /\ front[k].from # front[k].into
               /\ \A j \in k+1..Len(front) : front[j].into # front[k].from
    <3>1. k = n + 1 /\ front[k].from = b /\ front[k].into = Current.into
      BY <1>8, <2>4
    <3>2. QED
      BY <1>2, <1>3, <2>3, <3>1
  <2>5. QED
    BY <1>3, <1>6, <2>2, <2>4 DEF Ordered
<1>10. Len(buffers) <= Len(bufs2) /\ b > Len(buffers)
  BY <1>2, <1>3 DEF b
<1>11. Ordered(todo', bufs2)
  <2>1. \A k \in 1..Len(front) : front[k].do = "publish" => front[k].from > Len(buffers)
    BY <1>8, <1>10
  <2>2. Ordered(front \o Tail(todo), bufs2)
    BY <1>1, <1>9, <1>10, <2>1, OrderedKeeps, Zenon
  <2>3. QED
    BY <1>7, <2>2
<1>12. Published(todo', bufs2)
  <2>1. \A k \in 1..Len(front) : front[k].into = Head(todo).into \/ front[k].into > Len(buffers)
    BY <1>8, <1>10 DEF Current
  <2>2. \A c \in 1..Len(buffers) : c # Head(todo).into => bufs2[c] = buffers[c]
    BY <1>3
  <2>3. \A c \in 1..Len(bufs2) : c \in 1..Len(buffers) \/ c = b
    BY <1>2, <1>3 DEF b
  <2>4. ASSUME NEW c \in 1..Len(bufs2), NEW k \in 1..Len(bufs2[c])
        PROVE  \/ bufs2[c][k].kind # "address"
               \/ c \in 1..Len(buffers) /\ k \in 1..Len(buffers[c]) /\ bufs2[c][k] = buffers[c][k]
               \/ Final(bufs2[c][k].block, front \o Tail(todo), bufs2)
    BY <1>3, <2>3
  <2>5. Published(front \o Tail(todo), bufs2)
    BY <1>1, <1>3, <1>6, <1>10, <2>1, <2>2, <2>4, PublishedKeeps, Zenon
  <2>6. QED
    BY <1>7, <2>5
<1>13. heap' = Blocks(bufs2, 1..Len(bufs2))
  BY <1>1, <1>7, NoBlockYet DEF bufs2
<1>14. QED
  BY <1>3, <1>7, <1>11, <1>12, <1>13 DEF Filled

LEMMA inputStringKeeps ==
  ASSUME IInv, inputString
  PROVE  Filled'
<1>1. phase = "enter" /\ todo # <<>>
  BY DEF inputString, Entering, Turn
<1>2. PICK size \in {1, 2} :
        LET b == Len(buffers) + 1
            filled == Append(buffers, [k \in 1..size |-> Value])
        IN  Push({b, Current.into},
                 [filled EXCEPT ![Current.into] = Append(@, Address(filled, b))])
  BY DEF inputString
<1> DEFINE b == Len(buffers) + 1
           c == Current.into
           chars == [k \in 1..size |-> Value]
           filled == Append(buffers, chars)
           cell == Address(filled, b)
           bufs2 == [filled EXCEPT ![c] = Append(@, cell)]
<1>3. /\ Ordered(todo, buffers) /\ Published(todo, buffers)
      /\ buffers \in Seq(Seq(Cell)) /\ buffers # <<>>
      /\ heap = Blocks(buffers, 1..Len(buffers))
      /\ c \in 1..Len(buffers) /\ c \in Nat
  BY <1>1, CurrentFacts
<1>4. /\ Len(buffers) \in Nat /\ b \in Nat /\ b # c /\ b > Len(buffers)
      /\ c \in 1..b /\ b \in 1..b
  BY <1>3
<1>5. /\ buffers' = bufs2
      /\ heap' = (heap \ Blocks(buffers, {b, c} \cap DOMAIN buffers)) \cup Blocks(bufs2, {b, c})
  BY <1>2 DEF Push
<1>6. /\ chars \in Seq(Cell) /\ Len(chars) = size /\ chars # <<>>
      /\ \A k \in 1..Len(chars) : chars[k].kind # "address"
  <2>1. Value \in Cell /\ Value.kind # "address"
    BY DEF Value, Cell
  <2>2. chars \in Seq(Cell) /\ Len(chars) = size
    BY <2>1
  <2>3. \A k \in 1..size : chars[k] = Value
    OBVIOUS
  <2>4. chars # <<>>
    BY <2>2
  <2>5. QED
    BY <2>1, <2>2, <2>3, <2>4
<1> HIDE DEF chars
<1>7. /\ filled \in Seq(Seq(Cell)) /\ Len(filled) = b
      /\ \A a \in 1..Len(buffers) : filled[a] = buffers[a]
      /\ filled[b] = chars
  BY <1>3, <1>6
<1> HIDE DEF filled, b
<1>8. /\ cell = [kind |-> "address", block |-> Block(filled, b)]
      /\ cell \in Cell /\ cell.block = Block(filled, b)
  <2>1. Block(filled, b) \in [buffer : Nat, size : Nat]
    BY <1>4, <1>6, <1>7 DEF Block
  <2>2. cell = [kind |-> "address", block |-> Block(filled, b)]
    BY <1>6, <1>7 DEF Address
  <2>3. QED
    BY <2>1, <2>2 DEF Cell
<1> HIDE DEF cell
<1>9. /\ Append(buffers[c], cell) \in Seq(Cell)
      /\ Len(Append(buffers[c], cell)) = Len(buffers[c]) + 1
      /\ \A k \in 1..Len(buffers[c]) : Append(buffers[c], cell)[k] = buffers[c][k]
      /\ Append(buffers[c], cell)[Len(buffers[c]) + 1] = cell
      /\ Len(buffers[c]) \in Nat
  <2>1. buffers[c] \in Seq(Cell)
    BY <1>3
  <2>2. QED
    BY <1>8, <2>1
<1>10. /\ bufs2 \in Seq(Seq(Cell)) /\ Len(bufs2) = b /\ bufs2 # <<>>
       /\ \A a \in 1..Len(buffers) : a # c => bufs2[a] = buffers[a]
       /\ bufs2[c] = Append(buffers[c], cell)
       /\ bufs2[b] = chars
  <2>1. filled[c] = buffers[c] /\ Append(filled[c], cell) \in Seq(Cell)
    BY <1>3, <1>7, <1>9
  <2>2. /\ bufs2 \in Seq(Seq(Cell)) /\ Len(bufs2) = b
        /\ \A a \in 1..b : bufs2[a] = IF a = c THEN Append(filled[c], cell) ELSE filled[a]
    BY <1>4, <1>7, <2>1, ExceptSeq
  <2>3. \A a \in 1..Len(buffers) : a \in 1..b
    BY <1>4 DEF b
  <2>4. bufs2 # <<>>
    BY <1>4, <2>2
  <2>5. QED
    BY <1>3, <1>4, <1>7, <2>1, <2>2, <2>3, <2>4
<1> HIDE DEF bufs2
<1>11. todo' = Tail(todo) /\ todo' = <<>> \o Tail(todo)
  <2>1. Tail(todo) \in Seq(Item)
    BY <1>1, <1>3, HeadFacts
  <2>2. <<>> \o Tail(todo) = Tail(todo)
    BY <2>1, ConcatEmptySeq
  <2>3. QED
    BY <2>2 DEF Replaced, inputString
<1>12. Len(buffers) <= Len(bufs2) /\ <<>> \in Seq(Item) /\ 1..Len(<<>>) = {}
  BY <1>4, <1>10
<1>13. Ordered(<<>> \o Tail(todo), bufs2)
  <2>1. Ordered(<<>>, bufs2)
    BY <1>10, <1>12 DEF Ordered
  <2>2. QED
    BY <1>1, <1>3, <1>12, <2>1, OrderedKeeps, Zenon
<1>14. Final(cell.block, <<>> \o Tail(todo), bufs2)
  <2>1. ASSUME NEW k \in 1..Len(Tail(todo)) PROVE Tail(todo)[k].into # b
    <3>1. /\ Len(todo) \in Nat \ {0} /\ Len(Tail(todo)) = Len(todo) - 1
          /\ \A j \in 1..Len(todo) - 1 : Tail(todo)[j] = todo[j + 1]
      BY <1>1, <1>3, HeadFacts
    <3>2. k + 1 \in 1..Len(todo) /\ Tail(todo)[k] = todo[k + 1]
      BY <3>1
    <3>3. todo[k + 1].into \in 1..Len(buffers)
      BY <1>3, <3>2 DEF Ordered
    <3>4. QED
      BY <1>4, <3>2, <3>3
  <2>2. cell.block = Block(bufs2, b) /\ cell.block.buffer = b
    BY <1>7, <1>8, <1>10 DEF Block
  <2>3. QED
    BY <1>4, <1>6, <1>10, <1>11, <2>1, <2>2 DEF Final
<1>15. Published(<<>> \o Tail(todo), bufs2)
  <2>1. ASSUME NEW a \in 1..Len(bufs2), NEW k \in 1..Len(bufs2[a])
        PROVE  \/ bufs2[a][k].kind # "address"
               \/ a \in 1..Len(buffers) /\ k \in 1..Len(buffers[a]) /\ bufs2[a][k] = buffers[a][k]
               \/ Final(bufs2[a][k].block, <<>> \o Tail(todo), bufs2)
    <3>1. CASE a \in 1..Len(buffers) /\ a # c
      BY <1>10, <3>1
    <3>2. CASE a = c /\ k \in 1..Len(buffers[c])
      BY <1>3, <1>9, <1>10, <3>2
    <3>3. CASE a = c /\ k = Len(buffers[c]) + 1
      BY <1>9, <1>10, <1>14, <3>3
    <3>4. CASE a = b
      BY <1>6, <1>10, <3>4
    <3>5. a \in 1..Len(buffers) \/ a = b
      BY <1>4, <1>10 DEF b
    <3>6. a = c => k \in 1..Len(buffers[c]) \/ k = Len(buffers[c]) + 1
      <4>1. Len(bufs2[c]) = Len(buffers[c]) + 1 /\ Len(buffers[c]) \in Nat
        BY <1>9, <1>10
      <4> PICK n \in Nat : n = Len(buffers[c])
        BY <4>1
      <4>2. \A j \in 1..(n + 1) : j \in 1..n \/ j = n + 1
        OBVIOUS
      <4>3. QED
        BY <4>1, <4>2
    <3>7. QED
      BY <3>1, <3>2, <3>3, <3>4, <3>5, <3>6
  <2>2. \A a \in 1..Len(buffers) : a # Head(todo).into => bufs2[a] = buffers[a]
    BY <1>10 DEF Current
  <2>3. QED
    BY <1>1, <1>3, <1>10, <1>12, <2>1, <2>2, PublishedKeeps, Zenon
<1>16. heap' = Blocks(bufs2, 1..Len(bufs2))
  <2>1. 1..Len(bufs2) = (1..Len(buffers)) \cup {b, c}
    BY <1>3, <1>4, <1>10 DEF b
  <2>2. \A a \in (1..Len(buffers)) \ {b, c} : bufs2[a] = buffers[a]
    BY <1>10
  <2>3. (Blocks(buffers, 1..Len(buffers)) \ Blocks(buffers, {b, c} \cap DOMAIN buffers))
          \cup Blocks(bufs2, {b, c}) = Blocks(bufs2, 1..Len(bufs2))
    BY <1>3, <1>10, <2>1, <2>2, PushKeepsExact, Zenon
  <2>4. QED
    BY <1>3, <1>5, <2>3
<1>17. QED
  BY <1>5, <1>10, <1>11, <1>13, <1>15, <1>16 DEF Filled

\* What is pushed is no address.
LEMMA PlainPushKeeps ==
  ASSUME IInv, phase = "enter", todo # <<>>, Pushed(<<Value>>), Replaced(<<>>)
  PROVE  Filled'
<1>1. Value \in Cell /\ Value.kind # "address"
  BY DEF Value, Cell
<1>2. QED
  BY <1>1, PushedKeeps

LEMMA pushPointerKeeps ==
  ASSUME IInv, pushPointer
  PROVE  Filled'
<1> DEFINE f == Current.from
           c == Current.into
           cell == Address(buffers, f)
           bufs2 == [buffers EXCEPT ![c] = @ \o <<cell>>]
<1>1. /\ phase = "enter" /\ todo # <<>> /\ Current.do = "publish"
      /\ Pushed(<<cell>>) /\ Replaced(<<>>)
  BY DEF pushPointer, Turn
<1>2. /\ Ordered(todo, buffers) /\ buffers \in Seq(Seq(Cell))
      /\ Current = todo[1] /\ 1 \in 1..Len(todo) /\ c \in 1..Len(buffers)
  BY <1>1, CurrentFacts
<1>3. /\ f \in 2..Len(buffers) /\ f # c
      /\ \A j \in 1+1..Len(todo) : todo[j].into # f
  BY <1>1, <1>2 DEF Ordered
<1>4. f \in 1..Len(buffers) /\ f \in Nat /\ buffers[f] \in Seq(Cell)
  BY <1>2, <1>3
<1>5. Block(buffers, f) \in [buffer : Nat, size : Nat] /\ Block(buffers, f).buffer = f
  BY <1>4 DEF Block
<1>6. cell \in Cell
  BY <1>5 DEF Cell, Address, Null
<1>7. ASSUME cell.kind = "address"
      PROVE  Final(cell.block, Tail(todo), bufs2)
  <2>1. buffers[f] # <<>> /\ cell.block = Block(buffers, f)
    BY <1>7 DEF Address, Null
  <2>2. bufs2[f] = buffers[f] /\ Len(bufs2) = Len(buffers)
    BY <1>2, <1>3, <1>4
  <2>3. ASSUME NEW k \in 1..Len(Tail(todo)) PROVE Tail(todo)[k].into # f
    <3>1. /\ Len(todo) \in Nat \ {0} /\ Len(Tail(todo)) = Len(todo) - 1
          /\ \A j \in 1..Len(todo) - 1 : Tail(todo)[j] = todo[j + 1]
      BY <1>1, <1>2, HeadFacts
    <3>2. k + 1 \in 1+1..Len(todo) /\ Tail(todo)[k] = todo[k + 1]
      BY <3>1
    <3>3. QED
      BY <1>3, <3>2
  <2>4. Block(bufs2, f) = Block(buffers, f)
    BY <2>2 DEF Block
  <2>5. QED
    BY <1>4, <1>5, <2>1, <2>2, <2>3, <2>4 DEF Final
<1>8. QED
  BY <1>1, <1>6, <1>7, PushedKeeps

\* The fields of a struct are entered one by one, ...
LEMMA EnterAllFacts ==
  ASSUME NEW types \in Seq(Types), NEW b \in Nat, NEW depth \in Nat
  PROVE  /\ EnterAll(types, b, depth) \in Seq(Item)
         /\ \A k \in 1..Len(EnterAll(types, b, depth)) :
              /\ EnterAll(types, b, depth)[k].do = "enter"
              /\ EnterAll(types, b, depth)[k].into = b
<1> DEFINE e == EnterAll(types, b, depth)
<1>1. DOMAIN types = 1..Len(types) /\ \A k \in 1..Len(types) : types[k] \in Types
  OBVIOUS
<1>2. e = [k \in 1..Len(types) |-> Enter(types[k], b, depth)]
  BY <1>1 DEF EnterAll
<1>3. ASSUME NEW T \in Types
      PROVE  /\ Enter(T, b, depth) \in Item
             /\ Enter(T, b, depth).do = "enter" /\ Enter(T, b, depth).into = b
  BY MakeItems
<1>4. e \in Seq(Item) /\ Len(e) = Len(types)
  BY <1>1, <1>2, <1>3
<1>5. \A k \in 1..Len(types) : e[k] = Enter(types[k], b, depth)
  BY <1>2
<1>6. QED
  BY <1>1, <1>3, <1>4, <1>5

\* ... and so are the elements of an array.
LEMMA CopiesFacts ==
  ASSUME NEW n \in Nat, NEW T \in Types, NEW b \in Nat, NEW depth \in Nat
  PROVE  /\ Copies(n, T, b, depth) \in Seq(Item) /\ Len(Copies(n, T, b, depth)) = n
         /\ \A k \in 1..n :
              Copies(n, T, b, depth)[k].do = "enter" /\ Copies(n, T, b, depth)[k].into = b
<1>1. /\ Enter(T, b, depth) \in Item
      /\ Enter(T, b, depth).do = "enter" /\ Enter(T, b, depth).into = b
  BY MakeItems
<1>2. Copies(n, T, b, depth) \in Seq(Item) /\ Len(Copies(n, T, b, depth)) = n
  BY <1>1 DEF Copies
<1>3. \A k \in 1..n : Copies(n, T, b, depth)[k] = Enter(T, b, depth)
  BY DEF Copies
<1>4. QED
  BY <1>1, <1>2, <1>3

LEMMA SeriesKeeps ==
  ASSUME IInv, phase = "enter", todo # <<>>, Current.do = "enter",
         NEW front,
         \/ \E types \in Seq(Types) : front = EnterAll(types, Current.into, Current.depth)
         \/ \E n \in Nat, T \in Types : front = Copies(n, T, Current.into, Current.depth),
         Replaced(front), UNCHANGED <<buffers, heap>>
  PROVE  Filled'
<1>1. Current.into \in Nat /\ Current.depth \in Nat
  BY CurrentFacts
<1>2. /\ front \in Seq(Item)
      /\ \A k \in 1..Len(front) : front[k].do = "enter" /\ front[k].into = Current.into
  <2>1. CASE \E types \in Seq(Types) : front = EnterAll(types, Current.into, Current.depth)
    <3>1. PICK types \in Seq(Types) : front = EnterAll(types, Current.into, Current.depth)
      BY <2>1
    <3>2. types \in Seq(Types)
      OBVIOUS
    <3>3. QED
      BY <1>1, <3>1, <3>2, EnterAllFacts
  <2>2. CASE \E n \in Nat, T \in Types : front = Copies(n, T, Current.into, Current.depth)
    <3>1. PICK n \in Nat, T \in Types : front = Copies(n, T, Current.into, Current.depth)
      BY <2>2
    <3>2. ASSUME NEW b \in Nat, NEW d \in Nat, front = Copies(n, T, b, d)
          PROVE  /\ front \in Seq(Item)
                 /\ \A k \in 1..Len(front) : front[k].do = "enter" /\ front[k].into = b
      <4>1. /\ Copies(n, T, b, d) \in Seq(Item) /\ Len(Copies(n, T, b, d)) = n
            /\ \A k \in 1..n : Copies(n, T, b, d)[k].do = "enter" /\ Copies(n, T, b, d)[k].into = b
        BY CopiesFacts
      <4>2. QED
        BY <3>2, <4>1
    <3>3. QED
      BY <1>1, <3>1, <3>2
  <2>3. QED
    BY <2>1, <2>2
<1>3. \A k \in 1..Len(front) : front[k].do # "publish" /\ front[k].into = Current.into
  BY <1>2
<1>4. QED
  BY <1>2, <1>3, ReplacedKeeps

\* The types that a type is made of.
LEMMA ComponentTypes ==
  ASSUME NEW T \in Types
  PROVE  /\ T.kind \in {"pointer", "array"} => T.of \in Types
         /\ T.kind = "array" => T.count \in Nat
         /\ IsPointerToArray(T) => T.of.of \in Types /\ T.of.count \in Nat
         /\ program \in Programs /\ T.kind \in {"struct", "union"} =>
              FieldsOf(program, T) \in Seq(Types)
BY TypesAssumption, ProgramsAssumption DEF IsPointerToArray

LEMMA EntersKeeps ==
  ASSUME IInv, Enters
  PROVE  IInv'
<1>1. UNCHANGED <<program, isFunctionValid, phase, i>>
  BY DEF Enters
<1>2. phase = "enter" /\ todo # <<>>
  BY DEF Enters, inputScalar, inputBool, inputString, inputPointerToArray, inputPointer,
         inputArray, inputStruct, inputEnum, inputUnion, pushZeroBytes, pushPointer,
         inputNothing, Entering, Turn
<1>3. /\ Current.into \in Nat
      /\ Current.do = "enter" => Current.type \in Types /\ Current.depth \in Nat
  BY <1>2, CurrentFacts
<1>4. program \in Programs
  BY DEF IInv, TypeOK
<1>5. option' \in -IntMax-1..IntMax /\ cin' \in {"good", "failed"}
  <2>1. option \in -IntMax-1..IntMax /\ cin \in {"good", "failed"} /\ -1 \in -IntMax-1..IntMax
    BY BoundsAssumption DEF IInv, TypeOK
  <2>2. QED
    BY <2>1 DEF Enters, inputScalar, inputBool, inputString, inputPointerToArray, inputPointer,
         inputArray, inputStruct, inputEnum, inputUnion, pushZeroBytes, pushPointer,
         inputNothing, ReadAny, ReadOption, ReadNumber
<1>6. CASE inputScalar
  BY <1>2, <1>6, PlainPushKeeps, <1>1, <1>5, FilledKeeps DEF inputScalar
<1>7. CASE inputBool
  BY <1>2, <1>7, PlainPushKeeps, <1>1, <1>5, FilledKeeps DEF inputBool
<1>8. CASE inputString
  BY <1>2, <1>8, inputStringKeeps, <1>1, <1>5, FilledKeeps
<1>9. CASE inputPointerToArray
  <2>1. Current.do = "enter" /\ IsPointerToArray(Current.type)
    BY <1>9 DEF inputPointerToArray, Entering, Turn
  <2>2. Current.type.of.count \in Nat /\ Current.type.of.of \in Types
    BY <1>3, <2>1, ComponentTypes
  <2>3. Behind(Current.type.of.count, Current.type.of.of)
    BY <1>9 DEF inputPointerToArray
  <2>4. Filled'
    BY <1>2, <2>1, <2>2, <2>3, BehindKeeps
  <2>5. QED
    BY <1>1, <1>2, <1>5, <2>4, FilledKeeps
<1>10. CASE inputPointer
  <2>1. Current.do = "enter" /\ Current.type.kind = "pointer"
    BY <1>10 DEF inputPointer, Entering, Turn
  <2>2. Current.type.of \in Types
    BY <1>3, <2>1, ComponentTypes
  <2>3. PICK count \in 0..MaxInput : Behind(count, Current.type.of)
    BY <1>10 DEF inputPointer
  <2>4. count \in Nat
    BY BoundsAssumption
  <2>5. Filled'
    BY <1>2, <2>1, <2>2, <2>3, <2>4, BehindKeeps
  <2>6. QED
    BY <1>1, <1>2, <1>5, <2>5, FilledKeeps
<1>11. CASE inputArray
  <2>1. Current.do = "enter" /\ Current.type.kind = "array"
    BY <1>11 DEF inputArray, Entering, Turn
  <2>2. Current.type.of \in Types /\ Current.type.count \in Nat
    BY <1>3, <2>1, ComponentTypes
  <2>3. Filled'
    BY <1>2, <1>11, <2>1, <2>2, SeriesKeeps DEF inputArray
  <2>4. QED
    BY <1>1, <1>2, <1>5, <2>3, FilledKeeps
<1>12. CASE inputStruct
  <2>1. Current.do = "enter" /\ Current.type.kind = "struct"
    BY <1>12 DEF inputStruct, Entering, Turn
  <2>2. FieldsOf(program, Current.type) \in Seq(Types)
    BY <1>3, <1>4, <2>1, ComponentTypes
  <2>3. Filled'
    BY <1>2, <1>12, <2>1, <2>2, SeriesKeeps DEF inputStruct
  <2>4. QED
    BY <1>1, <1>2, <1>5, <2>3, FilledKeeps
<1>13. CASE inputEnum
  BY <1>2, <1>13, PlainPushKeeps, <1>1, <1>5, FilledKeeps DEF inputEnum
<1>14. CASE inputUnion
  <2>1. Current.do = "enter" /\ Current.type.kind = "union"
    BY <1>14 DEF inputUnion, Entering, Turn
  <2> DEFINE fields == FieldsOf(program, Current.type)
  <2>2. fields \in Seq(Types)
    BY <1>3, <1>4, <2>1, ComponentTypes
  <2>3. PICK x \in 0..IntMax :
          /\ x < Len(fields)
          /\ Replaced(<<Enter(fields[x + 1], Current.into, Current.depth), Fill(Current.into)>>)
    BY <1>14 DEF inputUnion
  <2>4. fields[x + 1] \in Types
    BY <2>2, <2>3, BoundsAssumption
  <2> HIDE DEF fields
  <2> DEFINE front == <<Enter(fields[x + 1], Current.into, Current.depth), Fill(Current.into)>>
  <2>5. /\ front \in Seq(Item)
        /\ \A k \in 1..Len(front) : front[k].do # "publish" /\ front[k].into = Current.into
    <3>1. /\ front[1] \in Item /\ front[1].do = "enter" /\ front[1].into = Current.into
          /\ front[2] \in Item /\ front[2].do = "fill" /\ front[2].into = Current.into
      BY <1>3, <2>1, <2>4, MakeItems
    <3>2. Len(front) = 2
      OBVIOUS
    <3>3. QED
      BY <3>1, <3>2
  <2> HIDE DEF front
  <2>6. Replaced(front) /\ UNCHANGED <<buffers, heap>>
    BY <1>14, <2>3 DEF inputUnion, front
  <2>7. Filled'
    BY <1>2, <2>5, <2>6, ReplacedKeeps
  <2>8. QED
    BY <1>1, <1>2, <1>5, <2>7, FilledKeeps
<1>15. CASE pushZeroBytes
  <2>1. Filled'
    <3>1. CASE UNCHANGED <<buffers, heap>>
      <4>1. <<>> \in Seq(Item) /\ Len(<<>>) = 0 /\ 1..Len(<<>>) = {}
        OBVIOUS
      <4>2. Replaced(<<>>)
        BY <1>15 DEF pushZeroBytes
      <4>3. QED
        BY <1>2, <3>1, <4>1, <4>2, ReplacedKeeps
    <3>2. CASE Pushed(<<Value>>)
      BY <1>2, <1>15, <3>2, PlainPushKeeps DEF pushZeroBytes
    <3>3. QED
      BY <1>15, <3>1, <3>2 DEF pushZeroBytes
  <2>2. QED
    BY <1>1, <1>2, <1>5, <2>1, FilledKeeps
<1>16. CASE pushPointer
  BY <1>2, <1>16, pushPointerKeeps, <1>1, <1>5, FilledKeeps
<1>17. CASE inputNothing
  <2>1. <<>> \in Seq(Item) /\ 1..Len(<<>>) = {}
    OBVIOUS
  <2>2. Replaced(<<>>) /\ UNCHANGED <<buffers, heap>>
    BY <1>17 DEF inputNothing
  <2>3. Filled'
    BY <1>2, <2>1, <2>2, ReplacedKeeps
  <2>4. QED
    BY <1>1, <1>2, <1>5, <2>3, FilledKeeps
<1>18. QED
  BY <1>6, <1>7, <1>8, <1>9, <1>10, <1>11, <1>12, <1>13, <1>14, <1>15, <1>16, <1>17
  DEF Enters

LEMMA AsksAgainKeeps ==
  ASSUME IInv, AsksAgain
  PROVE  IInv'
<1>1. /\ UNCHANGED <<program, isFunctionValid, phase, i, todo, buffers, heap>>
      /\ phase = "enter"
  BY DEF AsksAgain, BoolRefused, OptionRefused, Entering, Turn
<1>2. option' \in -IntMax-1..IntMax /\ cin' \in {"good", "failed"}
  <2>1. option \in -IntMax-1..IntMax /\ cin \in {"good", "failed"}
    BY DEF IInv, TypeOK
  <2>2. CASE BoolRefused
    BY <2>1, <2>2 DEF BoolRefused, ReadAny
  <2>3. CASE OptionRefused
    <3>1. PICK x \in -IntMax-1..IntMax : ReadOption(x) /\ option' = x
      BY <2>3 DEF OptionRefused
    <3>2. QED
      BY <2>1, <3>1 DEF ReadOption, ReadNumber
  <2>4. QED
    BY <2>2, <2>3 DEF AsksAgain
<1>3. Filled'
  BY <1>1 DEF IInv, FilledInv, Filled
<1>4. QED
  BY <1>1, <1>2, <1>3, FilledKeeps

-----------------------------------------------------------------------------
(* The steps of main. *)

\* As long as no function is chosen, only a number that std::cin gives can be one.
LEMMA ChoiceIsRead ==
  ASSUME IInv, phase = "choose", NEW f, ReadNumber(i, f), IsChoice(f)
  PROVE  cin = "good" /\ cin' = "good"
<1>1. ~IsChoice(i)
  BY DEF IInv, ChoiceInv
<1>2. ~IsChoice(0)
  <2>1. /\ isFunctionValid \in [DOMAIN program.functions -> BOOLEAN]
        /\ program.functions \in Seq([params : Seq(Types), isVariadic : BOOLEAN])
    BY ProgramsAssumption DEF IInv, TypeOK
  <2>2. DOMAIN isFunctionValid = 1..Len(program.functions)
    BY <2>1
  <2>3. QED
    BY <2>2 DEF IsChoice
<1>3. QED
  BY <1>1, <1>2 DEF ReadNumber

LEMMA ChooseKeeps ==
  ASSUME IInv, Choose
  PROVE  IInv'
<1> DEFINE params == program.functions[i'].params
<1>1. /\ UNCHANGED <<program, isFunctionValid, option, heap>>
      /\ phase = "choose" /\ phase' = "enter" /\ i' \in 0..IntMax /\ IsChoice(i')
      /\ todo' = EnterAll(params, 1, 0) /\ buffers' = << <<>> >> /\ heap = {}
  BY DEF Choose, IInv, FreedInv
<1>2. cin' \in {"good", "failed"}
  BY DEF Choose, ReadNumber, IInv, TypeOK
<1>3. /\ isFunctionValid \in [DOMAIN program.functions -> BOOLEAN]
      /\ program.functions \in Seq([params : Seq(Types), isVariadic : BOOLEAN])
  BY ProgramsAssumption DEF IInv, TypeOK
<1>4. params \in Seq(Types)
  <2>1. i' \in 1..Len(program.functions)
    <3>1. DOMAIN isFunctionValid = 1..Len(program.functions)
      BY <1>3
    <3>2. i' \in DOMAIN isFunctionValid
      BY <1>1 DEF IsChoice
    <3>3. QED
      BY <3>1, <3>2
  <2>2. program.functions[i'] \in [params : Seq(Types), isVariadic : BOOLEAN]
    BY <1>3, <2>1, ElementOfSeq
  <2>3. QED
    BY <2>2
<1> HIDE DEF params
<1>5. /\ todo' \in Seq(Item)
      /\ \A k \in 1..Len(todo') : todo'[k].do = "enter" /\ todo'[k].into = 1
  <2>1. 1 \in Nat /\ 0 \in Nat
    OBVIOUS
  <2>2. /\ EnterAll(params, 1, 0) \in Seq(Item)
        /\ \A k \in 1..Len(EnterAll(params, 1, 0)) :
             EnterAll(params, 1, 0)[k].do = "enter" /\ EnterAll(params, 1, 0)[k].into = 1
    BY <1>4, <2>1, EnterAllFacts
  <2>3. QED
    BY <1>1, <2>2
<1>6. /\ << <<>> >> \in Seq(Seq(Cell)) /\ Len(<< <<>> >>) = 1
      /\ << <<>> >>[1] = <<>> /\ Len(<<>>) = 0 /\ << <<>> >> # <<>>
  OBVIOUS
<1>7. Ordered(todo', buffers')
  <2>1. \A k \in 1..Len(todo') : todo'[k].into \in 1..Len(buffers') /\ todo'[k].do # "publish"
    BY <1>1, <1>5, <1>6
  <2>2. buffers' \in Seq(Seq(Cell))
    BY <1>1, <1>6
  <2>3. QED
    BY <1>5, <2>1, <2>2 DEF Ordered
<1>8. Published(todo', buffers')
  <2>1. \A b \in 1..Len(buffers') : buffers'[b] = <<>>
    BY <1>1, <1>6
  <2>2. QED
    BY <1>6, <2>1 DEF Published
<1>9. heap' = Blocks(buffers', 1..Len(buffers'))
  <2>1. \A b \in 1..Len(buffers') : buffers'[b] = <<>>
    BY <1>1, <1>6
  <2>2. QED
    BY <1>1, <2>1 DEF Blocks
<1>10. Filled'
  BY <1>1, <1>6, <1>7, <1>8, <1>9 DEF Filled
<1>11. TypeOK'
  <2>1. ASSUME NEW k \in 1..Len(todo')
        PROVE  /\ todo'[k].do = "enter" => todo'[k].type \in Types /\ todo'[k].depth \in Nat
               /\ todo'[k].do # "publish" /\ todo'[k].into \in DOMAIN buffers'
    <3>1. todo'[k] \in Item /\ todo'[k].do = "enter" /\ todo'[k].into = 1
      BY <1>5
    <3>2. DOMAIN buffers' = 1..1
      BY <1>1, <1>6
    <3>3. QED
      BY <3>1, <3>2, ItemFacts
  <2>2. DOMAIN todo' = 1..Len(todo')
    BY <1>5
  <2>3. IsChoice(i)'
    BY <1>1 DEF IsChoice
  <2>4. QED
    BY <1>1, <1>2, <2>1, <2>2, <2>3 DEF IInv, TypeOK, Phases
<1>12. FilledInv' /\ FreedInv' /\ ChoiceInv'
  BY <1>1, <1>10 DEF FilledInv, FreedInv, ChoiceInv
<1>13. QED
  BY <1>11, <1>12 DEF IInv

LEMMA ChoiceRefusedKeeps ==
  ASSUME IInv, ChoiceRefused
  PROVE  IInv'
<1>1. /\ UNCHANGED <<program, isFunctionValid, phase, todo, option, buffers, heap>>
      /\ phase = "choose" /\ todo = <<>> /\ heap = {} /\ buffers = <<>>
  BY DEF ChoiceRefused, IInv, FreedInv
<1>2. i' \in 0..IntMax /\ ~IsChoice(i') /\ cin' \in {"good", "failed"}
  BY DEF ChoiceRefused, ReadNumber, IInv, TypeOK
<1>3. TypeOK'
  BY <1>1, <1>2 DEF IInv, TypeOK
<1>4. ~IsChoice(i)'
  BY <1>1, <1>2 DEF IsChoice
<1>5. QED
  BY <1>1, <1>3, <1>4 DEF IInv, FilledInv, FreedInv, ChoiceInv

\* Buffers and blocks stay, and entering is over.
LEMMA EntryEndsKeeps ==
  ASSUME IInv, phase = "enter", phase' \in {"called", "undefined"},
         phase' = "called" => todo = <<>>,
         option' \in -IntMax-1..IntMax, cin' \in {"good", "failed"},
         UNCHANGED <<program, isFunctionValid, i, todo, buffers, heap>>
  PROVE  IInv'
<1>1. IsChoice(i)'
  BY DEF IInv, TypeOK, IsChoice
<1>2. TypeOK'
  BY <1>1 DEF IInv, TypeOK, Phases
<1>3. Filled'
  BY DEF IInv, FilledInv, Filled
<1>4. QED
  BY <1>2, <1>3 DEF IInv, FilledInv, FreedInv, ChoiceInv

LEMMA DeleteStorageKeeps ==
  ASSUME IInv, DeleteStorage
  PROVE  IInv'
<1>1. /\ phase = "called" /\ phase' = "another" /\ todo = <<>>
      /\ UNCHANGED <<program, isFunctionValid, i, todo, option, buffers, cin>>
      /\ heap' = heap \ Blocks(buffers, 2..Len(buffers))
  BY DEF DeleteStorage, IInv, FreedInv
<1>2. heap' = Blocks(buffers', {1})
  <2>1. /\ buffers \in Seq(Seq(Cell)) /\ buffers # <<>>
        /\ heap = Blocks(buffers, 1..Len(buffers))
    BY <1>1 DEF IInv, FilledInv, Filled, Ordered
  <2>2. QED
    BY <1>1, <2>1, StorageFreed
<1>3. TypeOK'
  BY <1>1 DEF IInv, TypeOK, Phases
<1>4. QED
  BY <1>1, <1>2, <1>3 DEF IInv, FilledInv, FreedInv, ChoiceInv

LEMMA AnotherKeeps ==
  ASSUME IInv, Another
  PROVE  IInv'
<1>1. /\ phase = "another" /\ phase' \in {"choose", "ended"} /\ todo = <<>> /\ i' = 0
      /\ buffers' = <<>> /\ heap' = heap \ Blocks(buffers, {1})
      /\ UNCHANGED <<program, isFunctionValid, todo, option>>
  BY DEF Another, IInv, FreedInv
<1>2. heap' = {}
  BY <1>1 DEF IInv, FreedInv
<1>3. /\ isFunctionValid \in [DOMAIN program.functions -> BOOLEAN]
      /\ program.functions \in Seq([params : Seq(Types), isVariadic : BOOLEAN])
  BY ProgramsAssumption DEF IInv, TypeOK
<1>4. ~IsChoice(i)'
  <2>1. DOMAIN isFunctionValid' = 1..Len(program.functions)
    BY <1>1, <1>3
  <2>2. QED
    BY <1>1, <2>1 DEF IsChoice
<1>5. TypeOK'
  <2>1. cin' \in {"good", "failed"}
    BY DEF Another, ReadAny, IInv, TypeOK
  <2>2. i' \in 0..IntMax
    BY <1>1, BoundsAssumption
  <2>3. QED
    BY <1>1, <2>1, <2>2 DEF IInv, TypeOK, Phases
<1>6. QED
  BY <1>1, <1>2, <1>4, <1>5 DEF IInv, FilledInv, FreedInv, ChoiceInv

LEMMA NextPreserves == IInv /\ [Next]_vars => IInv'
<1> SUFFICES ASSUME IInv, [Next]_vars PROVE IInv'
  OBVIOUS
<1>1. CASE Enters
  BY <1>1, EntersKeeps
<1>2. CASE AsksAgain
  BY <1>2, AsksAgainKeeps
<1>3. CASE ChoiceRefused
  BY <1>3, ChoiceRefusedKeeps
<1>4. CASE Choose
  BY <1>4, ChooseKeeps
<1>5. CASE Call
  <2>1. /\ phase = "enter" /\ todo = <<>> /\ phase' \in {"called", "undefined"}
        /\ UNCHANGED <<program, isFunctionValid, i, todo, option, buffers, heap, cin>>
    BY <1>5 DEF Call
  <2>2. option' \in -IntMax-1..IntMax /\ cin' \in {"good", "failed"}
    BY <2>1 DEF IInv, TypeOK
  <2>3. QED
    BY <2>1, <2>2, EntryEndsKeeps
<1>6. CASE NoSuchField
  <2>1. /\ phase = "enter" /\ phase' = "undefined"
        /\ UNCHANGED <<program, isFunctionValid, i, todo, option, buffers, heap>>
    BY <1>6 DEF NoSuchField, Entering, Turn
  <2>2. option' \in -IntMax-1..IntMax /\ cin' \in {"good", "failed"}
    BY <1>6, <2>1 DEF IInv, TypeOK, NoSuchField, ReadOption, ReadNumber
  <2>3. QED
    BY <2>1, <2>2, EntryEndsKeeps
<1>7. CASE NegativeFill
  <2>1. /\ phase = "enter" /\ phase' = "undefined"
        /\ UNCHANGED <<program, isFunctionValid, i, todo, option, buffers, heap, cin>>
    BY <1>7 DEF NegativeFill, Turn
  <2>2. option' \in -IntMax-1..IntMax /\ cin' \in {"good", "failed"}
    BY <2>1 DEF IInv, TypeOK
  <2>3. QED
    BY <2>1, <2>2, EntryEndsKeeps
<1>8. CASE DeleteStorage
  BY <1>8, DeleteStorageKeeps
<1>9. CASE Another
  BY <1>9, AnotherKeeps
<1>10. CASE UNCHANGED vars
  <2>1. TypeOK' /\ ChoiceInv'
    BY <1>10 DEF vars, IInv, TypeOK, ChoiceInv, IsChoice
  <2>2. FilledInv' /\ FreedInv'
    BY <1>10 DEF vars, IInv, FilledInv, Filled, FreedInv
  <2>3. QED
    BY <2>1, <2>2 DEF IInv
<1>11. CASE Stopped
  BY <1>10, <1>11 DEF Stopped
<1>12. QED
  BY <1>1, <1>2, <1>3, <1>4, <1>5, <1>6, <1>7, <1>8, <1>9, <1>10, <1>11 DEF Next

-----------------------------------------------------------------------------
(* Theorems. *)

\* The inductive invariant holds, whatever is typed and wherever the input ends.
LEMMA Invariance == Spec => []IInv
BY InitEstablishes, NextPreserves, PTL DEF Spec

\* Type correctness: what is left to do goes to buffers that are there.
THEOREM TypeCorrect == Spec => []TypeOK
<1>1. IInv => TypeOK
  BY DEF IInv
<1>2. QED
  BY <1>1, Invariance, PTL

\* Every address that inputType has pushed is that of a block that is allocated,
\* however types point to each other and however often blocks were allocated anew.
THEOREM AddressesValid == Spec => []PublishedIsLive
<1>1. IInv => PublishedIsLive
  <2> SUFFICES ASSUME IInv, phase \in {"enter", "called"},
                      NEW b \in DOMAIN buffers, NEW k \in DOMAIN buffers[b],
                      buffers[b][k].kind = "address"
               PROVE  buffers[b][k].block \in heap
    BY DEF PublishedIsLive
  <2>1. /\ Published(todo, buffers) /\ heap = Blocks(buffers, 1..Len(buffers))
        /\ buffers \in Seq(Seq(Cell))
    BY DEF IInv, FilledInv, Filled, Ordered
  <2>2. b \in 1..Len(buffers) /\ buffers[b] \in Seq(Cell)
    BY <2>1
  <2>3. k \in 1..Len(buffers[b])
    BY <2>2
  <2>4. Final(buffers[b][k].block, todo, buffers)
    BY <2>1, <2>2, <2>3 DEF Published
  <2>5. QED
    BY <2>1, <2>4 DEF Final, Blocks
<1>2. QED
  BY <1>1, Invariance, PTL

\* When the next function is chosen, all that was entered for the last is freed.
THEOREM AllFreed == Spec => []NothingLeaks
<1>1. IInv => NothingLeaks
  BY DEF IInv, FreedInv, NothingLeaks
<1>2. QED
  BY <1>1, Invariance, PTL

\* A function is called only for a number that was just typed: never for an earlier
\* choice, or for none, because std::cin has failed.
THEOREM NoStaleChoice == Spec => ChosenByUser
<1>1. IInv /\ [Next]_vars =>
        [phase = "choose" /\ phase' = "enter" => cin = "good" /\ cin' = "good"]_vars
  <2> SUFFICES ASSUME IInv, [Next]_vars, phase = "choose", phase' = "enter"
               PROVE  cin = "good" /\ cin' = "good"
    OBVIOUS
  <2>1. Choose
    BY DEF Next, vars, Enters, inputScalar, inputBool, inputString, inputPointerToArray,
           inputPointer, inputArray, inputStruct, inputEnum, inputUnion, pushZeroBytes,
           pushPointer, inputNothing, Entering, Turn, AsksAgain, ChoiceRefused, Call,
           NoSuchField, NegativeFill, DeleteStorage, Another, Stopped
  <2>2. PICK f \in 0..IntMax : ReadNumber(i, f) /\ IsChoice(f)
    BY <2>1 DEF Choose
  <2>3. QED
    BY <2>2, ChoiceIsRead
<1>2. QED
  BY <1>1, Invariance, PTL DEF Spec, ChosenByUser

-----------------------------------------------------------------------------
(* What isInputableType says of a type.  It calls itself along the types   *)
(* that inputType can be led to, and it stops at a type it is visiting: so *)
(* what it says of a type deep inside depends on how it got there, and     *)
(* only what it says of the outermost type is to be relied on.             *)

\* inputType has a branch for it.
HasBranch(T) ==
  T.kind \in {"scalar", "bool", "string", "enum", "pointer", "array", "struct", "union"}

Inside(p, T) ==
  IF T.kind \in {"pointer", "array"} THEN {T.of}
  ELSE IF T.kind \in {"struct", "union"} THEN Range(FieldsOf(p, T)) ELSE {}

LEMMA InsideTypes ==
  ASSUME NEW p \in Programs, NEW T \in Types
  PROVE  Inside(p, T) \subseteq Types
<1>1. CASE T.kind \in {"pointer", "array"}
  BY <1>1, TypesAssumption DEF Inside
<1>2. CASE T.kind \in {"struct", "union"}
  <2>1. FieldsOf(p, T) \in Seq(Types)
    BY <1>2, ProgramsAssumption
  <2> DEFINE fields == FieldsOf(p, T)
  <2> HIDE DEF fields
  <2>2. fields \in Seq(Types) => Range(fields) \subseteq Types
    BY DEF Range
  <2>3. QED
    BY <1>2, <2>1, <2>2 DEF Inside, fields
<1>3. QED
  BY <1>1, <1>2 DEF Inside

\* Everything in these types, to any depth, has a branch.
Closed(p, S) == \A T \in S : HasBranch(T) /\ Inside(p, T) \subseteq S
Enterable(p) == UNION {S \in SUBSET Types : Closed(p, S)}

LEMMA EnterableFacts ==
  ASSUME NEW p, NEW T \in Enterable(p)
  PROVE  HasBranch(T) /\ Inside(p, T) \subseteq Enterable(p)
<1>1. PICK S \in SUBSET Types : Closed(p, S) /\ T \in S
  BY DEF Enterable
<1>2. S \subseteq Enterable(p)
  BY <1>1 DEF Enterable
<1>3. QED
  BY <1>1, <1>2 DEF Closed

\* The answers for a type and the types being visited, as the code finds them.
Visits == Types \X SUBSET Types
Answers(p, inputable) ==
  \A x \in Visits :
    inputable[x] = (\/ x[1] \in x[2]
                    \/ /\ HasBranch(x[1])
                       /\ \A U \in Inside(p, x[1]) : inputable[<<U, x[2] \cup {x[1]}>>])

Inputables(p) ==
  CHOOSE inputable : inputable = [x \in Types \X SUBSET Types |->
        LET T == x[1]
            visitedTypes == x[2]
        IN  \/ T \in visitedTypes
            \/ T.kind \in {"scalar", "bool", "string", "enum"}
            \/ /\ T.kind \in {"pointer", "array"}
               /\ inputable[<<T.of, visitedTypes \cup {T}>>]
            \/ /\ T.kind \in {"struct", "union"}
               /\ \A F \in Range(FieldsOf(p, T)) : inputable[<<F, visitedTypes \cup {T}>>]]

LEMMA InputableIs ==
  ASSUME NEW p, NEW T
  PROVE  isInputableType(p, T) = Inputables(p)[<<T, {}>>]
BY DEF isInputableType, Inputables

\* Types need not be finite, so it is not by counting that there is such a function: the union
\* of all sets of questions whose yes rests on a yes to questions in the set is what has one.
AskedBy(p, X) ==
  {x \in Visits : \/ x[1] \in x[2]
                  \/ /\ HasBranch(x[1])
                     /\ \A U \in Inside(p, x[1]) : <<U, x[2] \cup {x[1]}>> \in X}
LargestYes(p) == UNION {X \in SUBSET Visits : X \subseteq AskedBy(p, X)}

LEMMA AskedByMore ==
  ASSUME NEW p, NEW X, NEW Y, X \subseteq Y
  PROVE  AskedBy(p, X) \subseteq AskedBy(p, Y)
BY DEF AskedBy

LEMMA LargestYesIsFixed ==
  ASSUME NEW p
  PROVE  LargestYes(p) = AskedBy(p, LargestYes(p)) /\ LargestYes(p) \subseteq Visits
<1> PICK W : W = LargestYes(p)
  OBVIOUS
<1>1. W \subseteq AskedBy(p, W)
  <2> SUFFICES ASSUME NEW x \in W PROVE x \in AskedBy(p, W)
    OBVIOUS
  <2>1. PICK X \in SUBSET Visits : X \subseteq AskedBy(p, X) /\ x \in X
    BY DEF LargestYes
  <2>2. X \subseteq W
    BY <2>1 DEF LargestYes
  <2>3. QED
    BY <2>1, <2>2, AskedByMore
<1>2. AskedBy(p, W) \subseteq Visits
  BY DEF AskedBy
<1>3. AskedBy(p, W) \subseteq AskedBy(p, AskedBy(p, W))
  BY <1>1, AskedByMore
<1>4. AskedBy(p, W) \subseteq W
  BY <1>2, <1>3 DEF LargestYes
<1>5. QED
  BY <1>1, <1>2, <1>4

LEMMA AnswersExist ==
  ASSUME NEW p \in Programs
  PROVE  Answers(p, Inputables(p))
<1> DEFINE W == LargestYes(p)
           f == [x \in Visits |-> x \in W]
           body(g, x) ==
             LET T == x[1]
                 visitedTypes == x[2]
             IN  \/ T \in visitedTypes
                 \/ T.kind \in {"scalar", "bool", "string", "enum"}
                 \/ /\ T.kind \in {"pointer", "array"}
                    /\ g[<<T.of, visitedTypes \cup {T}>>]
                 \/ /\ T.kind \in {"struct", "union"}
                    /\ \A F \in Range(FieldsOf(p, T)) : g[<<F, visitedTypes \cup {T}>>]
           asked(g, x) ==
             \/ x[1] \in x[2]
             \/ /\ HasBranch(x[1])
                /\ \A U \in Inside(p, x[1]) : g[<<U, x[2] \cup {x[1]}>>]
<1>1. ASSUME NEW g, NEW x PROVE body(g, x) <=> asked(g, x)
  <2>1. CASE x[1].kind \in {"pointer", "array"}
    BY <2>1, Zenon DEF HasBranch, Inside
  <2>2. CASE x[1].kind \in {"struct", "union"}
    BY <2>2, Zenon DEF HasBranch, Inside
  <2>3. CASE x[1].kind \notin {"pointer", "array", "struct", "union"}
    BY <2>3, Zenon DEF HasBranch, Inside
  <2>4. QED
    BY <2>1, <2>2, <2>3, Zenon
<1>2. ASSUME NEW x \in Visits PROVE asked(f, x) <=> x \in W
  <2>1. ASSUME NEW U \in Inside(p, x[1]) PROVE <<U, x[2] \cup {x[1]}>> \in Visits
    <3>1. x[1] \in Types /\ x[2] \in SUBSET Types
      BY DEF Visits
    <3>2. U \in Types /\ x[2] \cup {x[1]} \in SUBSET Types
      BY <3>1, InsideTypes
    <3>3. QED
      BY <3>2 DEF Visits
  <2>2. ASSUME NEW U \in Inside(p, x[1])
        PROVE  f[<<U, x[2] \cup {x[1]}>>] <=> <<U, x[2] \cup {x[1]}>> \in W
    BY <2>1, Zenon
  <2>3. x \in W <=> \/ x[1] \in x[2]
                    \/ /\ HasBranch(x[1])
                       /\ \A U \in Inside(p, x[1]) : <<U, x[2] \cup {x[1]}>> \in W
    <3> PICK V : V = W
      OBVIOUS
    <3>1. x \in V <=> x \in AskedBy(p, V)
      BY LargestYesIsFixed
    <3>2. QED
      BY <3>1 DEF AskedBy
  <2> HIDE DEF f, W
  <2>4. QED
    BY <2>2, <2>3, Zenon
<1>3. f = [x \in Visits |-> body(f, x)]
  <2>1. ASSUME NEW x \in Visits PROVE (x \in W) = body(f, x)
    <3> HIDE DEF body, asked
    <3>1. body(f, x) <=> x \in W
      BY <1>1, <1>2, Zenon
    <3>2. body(f, x) \in BOOLEAN
      BY Zenon DEF body
    <3>3. QED
      BY <3>1, <3>2
  <2> HIDE DEF body, W
  <2>2. QED
    BY <2>1, Zenon
<1> HIDE DEF f
<1>4. Inputables(p) = [x \in Visits |-> body(Inputables(p), x)]
  <2>1. \E g : g = [x \in Visits |-> body(g, x)]
    BY <1>3
  <2>2. QED
    BY <2>1, Zenon DEF Inputables, Visits
<1>5. ASSUME NEW x \in Visits PROVE Inputables(p)[x] = asked(Inputables(p), x)
  <2> PICK g : g = Inputables(p)
    OBVIOUS
  <2> HIDE DEF body, asked
  <2>1. g = [y \in Visits |-> body(g, y)]
    BY <1>4, Zenon
  <2>2. g[x] = body(g, x)
    BY <2>1, Zenon
  <2>3. body(g, x) \in BOOLEAN /\ asked(g, x) \in BOOLEAN
    BY Zenon DEF body, asked
  <2>4. QED
    BY <2>2, <2>3, <1>1, Zenon
<1>6. QED
  BY <1>5, Zenon DEF Answers

\* Induction, on a set: its members are those of which something is to be shown.
LEMMA LeastNatural ==
  ASSUME NEW T, T \subseteq Nat, T # {}
  PROVE  \E x \in T : \A y \in T : x <= y
<1>1. PICK R : R = OpToRel(<, Nat)
  OBVIOUS
<1>2. \E x \in T : \A y \in T : <<y, x>> \notin R
  BY <1>1, NatLessThanWellFounded, WFMin
<1>3. \A x \in Nat, y \in Nat : y < x => <<y, x>> \in R
  BY <1>1 DEF OpToRel
<1>4. \A x \in Nat, y \in Nat : ~(y < x) => x <= y
  OBVIOUS
<1>5. PICK x \in T : \A y \in T : <<y, x>> \notin R
  BY <1>2
<1>6. ASSUME NEW y \in T PROVE x <= y
  BY <1>3, <1>4, <1>5
<1>7. QED
  BY <1>5, <1>6

LEMMA Induct ==
  ASSUME NEW S, 0 \in S, \A n \in Nat : n \in S => n + 1 \in S
  PROVE  Nat \subseteq S
<1> PICK T : T = Nat \ S
  OBVIOUS
<1>1. CASE T = {}
  BY <1>1
<1>2. CASE T # {}
  <2>1. PICK x \in T : \A y \in T : x <= y
    BY <1>2, LeastNatural
  <2>2. x \in Nat /\ x # 0 /\ x - 1 \in Nat /\ ~(x <= x - 1) /\ (x - 1) + 1 = x
    BY <2>1
  <2>3. x - 1 \in S
    BY <2>1, <2>2
  <2>4. QED
    BY <2>1, <2>2, <2>3
<1>3. QED
  BY <1>1, <1>2

\* At most n steps lead from the type to one there is no branch for.
LeadsOut(p, n) ==
  {T \in Types : \E m \in 0..n : \E path \in [0..m -> Types] :
     /\ path[0] = T
     /\ \A k \in 1..m : path[k] \in Inside(p, path[k - 1])
     /\ ~HasBranch(path[m])}

LEMMA LeadsOutSteps ==
  ASSUME NEW p, NEW n \in Nat
  PROVE  /\ \A T \in Types : ~HasBranch(T) => T \in LeadsOut(p, 0)
         /\ LeadsOut(p, n) \subseteq LeadsOut(p, n + 1)
         /\ \A T \in Types, U \in LeadsOut(p, n) : U \in Inside(p, T) => T \in LeadsOut(p, n + 1)
<1>1. ASSUME NEW T \in Types, ~HasBranch(T) PROVE T \in LeadsOut(p, 0)
  <2> PICK path \in [0..0 -> Types] : path = [k \in 0..0 |-> T]
    OBVIOUS
  <2>1. path[0] = T /\ (\A k \in 1..0 : path[k] \in Inside(p, path[k - 1])) /\ 0 \in 0..0
    OBVIOUS
  <2>2. QED
    BY <1>1, <2>1 DEF LeadsOut
<1>2. LeadsOut(p, n) \subseteq LeadsOut(p, n + 1)
  <2>1. 0..n \subseteq 0..(n + 1)
    OBVIOUS
  <2>2. QED
    BY <2>1 DEF LeadsOut
<1>3. ASSUME NEW T \in Types, NEW U \in LeadsOut(p, n), U \in Inside(p, T)
      PROVE  T \in LeadsOut(p, n + 1)
  <2>1. PICK m \in 0..n : \E path \in [0..m -> Types] :
               /\ path[0] = U
               /\ \A k \in 1..m : path[k] \in Inside(p, path[k - 1])
               /\ ~HasBranch(path[m])
    BY <1>3 DEF LeadsOut
  <2>2. PICK path \in [0..m -> Types] :
               /\ path[0] = U
               /\ \A k \in 1..m : path[k] \in Inside(p, path[k - 1])
               /\ ~HasBranch(path[m])
    BY <2>1
  <2> DEFINE longer == [k \in 0..(m + 1) |-> IF k = 0 THEN T ELSE path[k - 1]]
  <2>3. longer \in [0..(m + 1) -> Types] /\ m + 1 \in 0..(n + 1)
    OBVIOUS
  <2>4. longer[0] = T /\ longer[m + 1] = path[m]
    OBVIOUS
  <2>5. ASSUME NEW k \in 1..(m + 1) PROVE longer[k] \in Inside(p, longer[k - 1])
    <3>1. CASE k = 1
      <4>1. longer[1] = U /\ longer[0] = T
        BY <2>2
      <4> HIDE DEF longer
      <4>2. QED
        BY <1>3, <3>1, <4>1
    <3>2. CASE k \in 2..(m + 1)
      <4>1. /\ longer[k] = path[k - 1] /\ longer[k - 1] = path[(k - 1) - 1]
            /\ k - 1 \in 1..m
        BY <3>2
      <4> HIDE DEF longer
      <4>2. QED
        BY <2>2, <4>1
    <3>3. QED
      BY <3>1, <3>2
  <2> HIDE DEF longer
  <2>6. QED
    BY <2>2, <2>3, <2>4, <2>5 DEF LeadsOut
<1>4. QED
  BY <1>1, <1>2, <1>3

LEMMA LeadsOutFirst ==
  ASSUME NEW p
  PROVE  /\ \A T \in LeadsOut(p, 0) : ~HasBranch(T)
         /\ \A n \in Nat : \A T \in LeadsOut(p, n + 1) :
              ~HasBranch(T) \/ \E U \in Inside(p, T) : U \in LeadsOut(p, n)
<1>1. ASSUME NEW T \in LeadsOut(p, 0) PROVE ~HasBranch(T)
  BY DEF LeadsOut
<1>2. ASSUME NEW n \in Nat, NEW T \in LeadsOut(p, n + 1), HasBranch(T)
      PROVE  \E U \in Inside(p, T) : U \in LeadsOut(p, n)
  <2>1. PICK m \in 0..(n + 1) : \E path \in [0..m -> Types] :
               /\ path[0] = T
               /\ \A k \in 1..m : path[k] \in Inside(p, path[k - 1])
               /\ ~HasBranch(path[m])
    BY <1>2 DEF LeadsOut
  <2>2. PICK path \in [0..m -> Types] :
               /\ path[0] = T
               /\ \A k \in 1..m : path[k] \in Inside(p, path[k - 1])
               /\ ~HasBranch(path[m])
    BY <2>1
  <2>3. m \in 1..(n + 1) /\ m - 1 \in 0..n
    BY <1>2, <2>2
  <2> DEFINE rest == [k \in 0..(m - 1) |-> path[k + 1]]
  <2>4. rest \in [0..(m - 1) -> Types] /\ rest[0] = path[1] /\ rest[m - 1] = path[m]
    BY <2>3
  <2>5. ASSUME NEW k \in 1..(m - 1) PROVE rest[k] \in Inside(p, rest[k - 1])
    <3>1. /\ rest[k] = path[k + 1] /\ rest[k - 1] = path[(k + 1) - 1] /\ k + 1 \in 1..m
      BY <2>3
    <3> HIDE DEF rest
    <3>2. QED
      BY <2>2, <3>1
  <2> HIDE DEF rest
  <2>6. path[1] \in Inside(p, path[0]) /\ path[1] \in Types
    <3>1. 1 \in 1..m /\ 1 \in 0..m /\ 1 - 1 = 0
      BY <2>3
    <3>2. path[1] \in Inside(p, path[1 - 1])
      BY <2>2, <3>1
    <3>3. QED
      BY <3>1, <3>2
  <2>7. path[1] \in LeadsOut(p, n)
    BY <2>2, <2>3, <2>4, <2>5, <2>6 DEF LeadsOut
  <2>8. QED
    BY <2>2, <2>6, <2>7
<1>3. QED
  BY <1>1, <1>2

\* A type that leads out in n steps is refused, if none of those visited does in as many.
Refused(p, n) ==
  \A T \in LeadsOut(p, n) : \A V \in SUBSET Types :
    V \cap LeadsOut(p, n) = {} => ~Inputables(p)[<<T, V>>]

LEMMA NeverLeadsOut ==
  ASSUME NEW p \in Programs
  PROVE  \A n \in Nat : Refused(p, n)
<1> DEFINE S == {n \in Nat : Refused(p, n)}
<1>1. ASSUME NEW T \in Types, NEW V \in SUBSET Types
      PROVE  Inputables(p)[<<T, V>>] =
               (T \in V \/ /\ HasBranch(T)
                           /\ \A U \in Inside(p, T) : Inputables(p)[<<U, V \cup {T}>>])
  <2> PICK x : x = <<T, V>>
    OBVIOUS
  <2>1. x \in Visits /\ x[1] = T /\ x[2] = V
    BY DEF Visits
  <2> PICK yes : yes = Inputables(p)
    OBVIOUS
  <2>2. Answers(p, yes)
    BY AnswersExist
  <2>3. yes[x] = (\/ x[1] \in x[2]
                  \/ /\ HasBranch(x[1])
                     /\ \A U \in Inside(p, x[1]) : yes[<<U, x[2] \cup {x[1]}>>])
    BY <2>1, <2>2, Zenon DEF Answers
  <2>4. QED
    BY <2>1, <2>3, Zenon
<1>2. 0 \in S
  <2> SUFFICES ASSUME NEW T \in LeadsOut(p, 0), NEW V \in SUBSET Types,
                      V \cap LeadsOut(p, 0) = {}
               PROVE  ~Inputables(p)[<<T, V>>]
    BY DEF Refused
  <2>1. T \in Types /\ T \notin V /\ ~HasBranch(T)
    BY LeadsOutFirst DEF LeadsOut
  <2>2. QED
    BY <1>1, <2>1
<1>3. ASSUME NEW n \in Nat, n \in S PROVE n + 1 \in S
  <2> SUFFICES ASSUME NEW T \in LeadsOut(p, n + 1), NEW V \in SUBSET Types,
                      V \cap LeadsOut(p, n + 1) = {}
               PROVE  ~Inputables(p)[<<T, V>>]
    BY DEF Refused
  <2>1. T \in Types /\ T \notin V /\ V \cap LeadsOut(p, n) = {}
    BY LeadsOutSteps DEF LeadsOut
  <2>2. CASE ~HasBranch(T)
    BY <1>1, <2>1, <2>2
  <2>3. CASE T \in LeadsOut(p, n)
    BY <1>3, <2>1, <2>3 DEF Refused
  <2>4. CASE HasBranch(T) /\ T \notin LeadsOut(p, n)
    <3>1. PICK U \in Inside(p, T) : U \in LeadsOut(p, n)
      BY <2>4, LeadsOutFirst
    <3> PICK X : X = V \cup {T}
      OBVIOUS
    <3>2. X \in SUBSET Types /\ X \cap LeadsOut(p, n) = {}
      BY <2>1, <2>4
    <3>3. ~Inputables(p)[<<U, X>>]
      BY <1>3, <3>1, <3>2 DEF Refused
    <3>4. QED
      BY <1>1, <2>1, <3>1, <3>2, <3>3
  <2>5. QED
    BY <2>2, <2>3, <2>4
<1> HIDE DEF S
<1>4. Nat \subseteq S
  BY <1>2, <1>3, Induct
<1>5. QED
  BY <1>4 DEF S

\* What it says of the outermost type is true.
LEMMA InputableIsEnterable ==
  ASSUME NEW p \in Programs, NEW T \in Types, isInputableType(p, T)
  PROVE  T \in Enterable(p)
<1> PICK S \in SUBSET Types : S = {U \in Types : \A n \in Nat : U \notin LeadsOut(p, n)}
  OBVIOUS
<1>1. Closed(p, S)
  <2> SUFFICES ASSUME NEW U \in S PROVE HasBranch(U) /\ Inside(p, U) \subseteq S
    BY DEF Closed
  <2>1. HasBranch(U)
    <3>1. 0 \in Nat
      OBVIOUS
    <3>2. QED
      BY <3>1, LeadsOutSteps
  <2>2. ASSUME NEW F \in Inside(p, U), NEW n \in Nat PROVE F \notin LeadsOut(p, n)
    <3>1. n + 1 \in Nat
      OBVIOUS
    <3>2. QED
      BY <3>1, LeadsOutSteps
  <2>3. QED
    BY <2>1, <2>2, InsideTypes
<1>2. ASSUME NEW n \in Nat PROVE T \notin LeadsOut(p, n)
  <2>1. Inputables(p)[<<T, {}>>]
    BY InputableIs
  <2>2. Refused(p, n)
    BY NeverLeadsOut
  <2>3. {} \in SUBSET Types /\ {} \cap LeadsOut(p, n) = {}
    OBVIOUS
  <2>4. QED
    BY <2>1, <2>2, <2>3 DEF Refused
<1>3. QED
  BY <1>1, <1>2 DEF Enterable

\* The functions that can be chosen are those whose parameters can be entered, and nothing
\* else is left to be entered.
AllEnterable(p, items) ==
  \A k \in 1..Len(items) : items[k].do = "enter" => items[k].type \in Enterable(p)
EntryInv ==
  /\ isFunctionValid = [f \in DOMAIN program.functions |-> IsValid(program, f)]
  /\ AllEnterable(program, todo)

\* What takes the place of one thing to do.
LEMMA ReplacedEnterable ==
  ASSUME IInv, EntryInv, phase = "enter", todo # <<>>,
         NEW front \in Seq(Item), AllEnterable(program, front), Replaced(front),
         UNCHANGED <<program, isFunctionValid>>
  PROVE  EntryInv'
<1> DEFINE t == front \o Tail(todo)
<1>1. Ordered(todo, buffers)
  BY CurrentFacts
<1>2. /\ t \in Seq(Item) /\ Len(t) = Len(front) + Len(todo) - 1
      /\ \A k \in 1..Len(front) : t[k] = front[k]
      /\ \A k \in Len(front) + 1..Len(t) :
           k - Len(front) + 1 \in 2..Len(todo) /\ t[k] = todo[k - Len(front) + 1]
  BY <1>1, FrontFacts
<1> HIDE DEF t
<1>3. Len(front) \in Nat /\ Len(todo) \in Nat /\ Len(t) \in Nat
  BY <1>1, <1>2 DEF Ordered
<1>4. ASSUME NEW k \in 1..Len(t), t[k].do = "enter" PROVE t[k].type \in Enterable(program)
  <2>1. CASE k \in 1..Len(front)
    BY <1>2, <1>4, <2>1 DEF AllEnterable
  <2>2. CASE k \in Len(front) + 1..Len(t)
    <3>1. PICK j \in 1..Len(todo) : t[k] = todo[j]
      <4>1. k - Len(front) + 1 \in 2..Len(todo) /\ t[k] = todo[k - Len(front) + 1]
        BY <1>2, <2>2
      <4>2. 2..Len(todo) \subseteq 1..Len(todo)
        BY <1>3
      <4>3. QED
        BY <4>1, <4>2
    <3>2. QED
      BY <1>4, <3>1 DEF EntryInv, AllEnterable
  <2>3. QED
    BY <1>3, <2>1, <2>2
<1>5. todo' = t
  BY DEF Replaced, t
<1>6. QED
  BY <1>4, <1>5 DEF EntryInv, AllEnterable

LEMMA NothingEnterable ==
  ASSUME NEW p
  PROVE  <<>> \in Seq(Item) /\ AllEnterable(p, <<>>)
<1>1. <<>> \in Seq(Item) /\ 1..Len(<<>>) = {}
  OBVIOUS
<1>2. QED
  BY <1>1 DEF AllEnterable

LEMMA CopiesEnterable ==
  ASSUME NEW p, NEW n \in Nat, NEW T \in Types, T \in Enterable(p), NEW b \in Nat, NEW depth \in Nat
  PROVE  Copies(n, T, b, depth) \in Seq(Item) /\ AllEnterable(p, Copies(n, T, b, depth))
<1> PICK c : c = Copies(n, T, b, depth)
  OBVIOUS
<1>1. c \in Seq(Item) /\ Len(c) = n
  BY CopiesFacts
<1>2. \A k \in 1..n : c[k] = Enter(T, b, depth)
  BY DEF Copies
<1>3. Enter(T, b, depth).type = T
  BY DEF Enter
<1>4. QED
  BY <1>1, <1>2, <1>3 DEF AllEnterable

LEMMA EnterAllEnterable ==
  ASSUME NEW p, NEW types \in Seq(Types), Range(types) \subseteq Enterable(p),
         NEW b \in Nat, NEW depth \in Nat
  PROVE  EnterAll(types, b, depth) \in Seq(Item) /\ AllEnterable(p, EnterAll(types, b, depth))
<1> PICK e : e = EnterAll(types, b, depth)
  OBVIOUS
<1>1. e \in Seq(Item)
  BY EnterAllFacts
<1>2. DOMAIN types = 1..Len(types) /\ DOMAIN e = 1..Len(types) /\ DOMAIN e = 1..Len(e)
  <2>1. e = [k \in DOMAIN types |-> Enter(types[k], b, depth)]
    BY DEF EnterAll
  <2>2. QED
    BY <1>1, <2>1
<1>3. ASSUME NEW k \in 1..Len(e) PROVE e[k].type \in Enterable(p)
  <2>1. k \in DOMAIN types /\ types[k] \in Enterable(p)
    BY <1>2 DEF Range
  <2>2. e[k] = Enter(types[k], b, depth)
    BY <2>1 DEF EnterAll
  <2>3. QED
    BY <2>1, <2>2 DEF Enter
<1>4. QED
  BY <1>1, <1>3 DEF AllEnterable

LEMMA AppendEnterable ==
  ASSUME NEW p, NEW items \in Seq(Item), AllEnterable(p, items), NEW x \in Item, x.do # "enter"
  PROVE  Append(items, x) \in Seq(Item) /\ AllEnterable(p, Append(items, x))
<1> PICK t : t = Append(items, x)
  OBVIOUS
<1>1. /\ t \in Seq(Item) /\ Len(t) = Len(items) + 1 /\ t[Len(items) + 1] = x
      /\ Len(items) \in Nat /\ \A k \in 1..Len(items) : t[k] = items[k]
  OBVIOUS
<1>2. ASSUME NEW k \in 1..Len(t), t[k].do = "enter" PROVE t[k].type \in Enterable(p)
  <2>1. k = Len(items) + 1 \/ k \in 1..Len(items)
    BY <1>1
  <2>2. k # Len(items) + 1
    BY <1>1, <1>2
  <2>3. QED
    BY <1>1, <1>2, <2>1, <2>2 DEF AllEnterable
<1>3. QED
  BY <1>1, <1>2 DEF AllEnterable

LEMMA BehindEnterable ==
  ASSUME IInv, EntryInv, phase = "enter", todo # <<>>, Current.do = "enter",
         NEW n \in Nat, NEW T \in Types, T \in Enterable(program), Behind(n, T),
         UNCHANGED <<program, isFunctionValid>>
  PROVE  EntryInv'
<1> PICK b, c, d : b = Len(buffers) + 1 /\ c = Current.into /\ d = Current.depth + 1
  OBVIOUS
<1>1. b \in Nat /\ c \in Nat /\ d \in Nat
  BY CurrentFacts
<1> PICK copies : copies = Copies(n, T, b, d)
  OBVIOUS
<1>2. copies \in Seq(Item) /\ AllEnterable(program, copies)
  BY <1>1, CopiesEnterable
<1>3. PICK x \in Item : x = Publish(b, c) /\ x.do # "enter"
  BY <1>1, MakeItems
<1>4. PICK front \in Seq(Item) : front = Append(copies, x) /\ AllEnterable(program, front)
  BY <1>2, <1>3, AppendEnterable
<1>5. Replaced(front)
  BY <1>3, <1>4 DEF Behind
<1>6. QED
  BY <1>4, <1>5, ReplacedEnterable

\* Each step of inputType goes inside of the type it is at.
LEMMA EntersEnterable ==
  ASSUME IInv, EntryInv, Enters
  PROVE  EntryInv'
<1>1. UNCHANGED <<program, isFunctionValid>> /\ program \in Programs
  BY DEF Enters, IInv, TypeOK
<1>2. phase = "enter" /\ todo # <<>>
  BY DEF Enters, inputScalar, inputBool, inputString, inputPointerToArray, inputPointer,
         inputArray, inputStruct, inputEnum, inputUnion, pushZeroBytes, pushPointer,
         inputNothing, Entering, Turn
<1>3. /\ Current.into \in Nat /\ Current = todo[1] /\ 1 \in 1..Len(todo)
      /\ Current.do = "enter" => Current.type \in Types /\ Current.depth \in Nat
  BY <1>2, CurrentFacts
<1>4. Current.do = "enter" =>
        /\ Current.type \in Enterable(program)
        /\ Inside(program, Current.type) \subseteq Enterable(program)
  BY <1>3, EnterableFacts DEF EntryInv, AllEnterable
<1>5. CASE inputPointerToArray
  <2>1. /\ Current.do = "enter" /\ Current.type.kind = "pointer" /\ IsPointerToArray(Current.type)
        /\ Behind(Current.type.of.count, Current.type.of.of)
    BY <1>5 DEF inputPointerToArray, Entering, Turn
  <2>2. Current.type.of.count \in Nat /\ Current.type.of.of \in Types
    BY <1>3, <2>1, ComponentTypes
  <2>3. Current.type.of \in Enterable(program)
    BY <1>4, <2>1 DEF Inside
  <2>4. Current.type.of.of \in Inside(program, Current.type.of)
    BY <2>1 DEF IsPointerToArray, Inside
  <2>5. Current.type.of.of \in Enterable(program)
    BY <2>3, <2>4, EnterableFacts
  <2>6. QED
    BY <1>1, <1>2, <2>1, <2>2, <2>5, BehindEnterable
<1>6. CASE inputPointer
  <2>1. Current.do = "enter" /\ Current.type.kind = "pointer"
    BY <1>6 DEF inputPointer, Entering, Turn
  <2>2. Current.type.of \in Types
    BY <1>3, <2>1, ComponentTypes
  <2>3. Current.type.of \in Enterable(program)
    BY <1>4, <2>1 DEF Inside
  <2>4. PICK count \in 0..MaxInput : Behind(count, Current.type.of)
    BY <1>6 DEF inputPointer
  <2>5. count \in Nat
    BY BoundsAssumption
  <2>6. QED
    BY <1>1, <1>2, <2>1, <2>2, <2>3, <2>4, <2>5, BehindEnterable
<1>7. CASE inputArray
  <2>1. Current.do = "enter" /\ Current.type.kind = "array"
    BY <1>7 DEF inputArray, Entering, Turn
  <2>2. Current.type.of \in Types /\ Current.type.count \in Nat
    BY <1>3, <2>1, ComponentTypes
  <2>3. Current.type.of \in Enterable(program)
    BY <1>4, <2>1 DEF Inside
  <2>4. PICK b \in Nat, d \in Nat, n \in Nat, T \in Types :
          b = Current.into /\ d = Current.depth /\ n = Current.type.count /\ T = Current.type.of
    BY <1>3, <2>1, <2>2
  <2>5. Copies(n, T, b, d) \in Seq(Item) /\ AllEnterable(program, Copies(n, T, b, d))
    BY <2>3, <2>4, CopiesEnterable
  <2>6. PICK front \in Seq(Item) : front = Copies(n, T, b, d) /\ AllEnterable(program, front)
    BY <2>5
  <2>7. Replaced(front)
    BY <1>7, <2>4, <2>6 DEF inputArray
  <2>8. QED
    BY <1>1, <1>2, <2>6, <2>7, ReplacedEnterable
<1>8. CASE inputStruct
  <2>1. Current.do = "enter" /\ Current.type.kind = "struct"
    BY <1>8 DEF inputStruct, Entering, Turn
  <2>2. PICK fields \in Seq(Types) : fields = FieldsOf(program, Current.type)
    BY <1>1, <1>3, <2>1, ComponentTypes
  <2>3. Range(fields) \subseteq Enterable(program)
    BY <1>4, <2>1, <2>2 DEF Inside
  <2>4. PICK b \in Nat, d \in Nat : b = Current.into /\ d = Current.depth
    BY <1>3, <2>1
  <2>5. EnterAll(fields, b, d) \in Seq(Item) /\ AllEnterable(program, EnterAll(fields, b, d))
    BY <2>3, EnterAllEnterable
  <2>6. PICK front \in Seq(Item) : front = EnterAll(fields, b, d) /\ AllEnterable(program, front)
    BY <2>5
  <2>7. Replaced(front)
    BY <1>8, <2>2, <2>4, <2>6 DEF inputStruct
  <2>8. QED
    BY <1>1, <1>2, <2>6, <2>7, ReplacedEnterable
<1>9. CASE inputUnion
  <2>1. Current.do = "enter" /\ Current.type.kind = "union"
    BY <1>9 DEF inputUnion, Entering, Turn
  <2>2. PICK fields \in Seq(Types) : fields = FieldsOf(program, Current.type)
    BY <1>1, <1>3, <2>1, ComponentTypes
  <2>3. Range(fields) \subseteq Enterable(program)
    BY <1>4, <2>1, <2>2 DEF Inside
  <2>4. PICK x \in 0..IntMax :
          /\ x < Len(fields)
          /\ Replaced(<<Enter(fields[x + 1], Current.into, Current.depth), Fill(Current.into)>>)
    BY <1>9, <2>2 DEF inputUnion
  <2>5. fields[x + 1] \in Types /\ fields[x + 1] \in Enterable(program)
    <3>1. x + 1 \in DOMAIN fields
      BY <2>4, BoundsAssumption
    <3>2. QED
      BY <2>3, <3>1 DEF Range
  <2> PICK e, f : e = Enter(fields[x + 1], Current.into, Current.depth) /\ f = Fill(Current.into)
    OBVIOUS
  <2>6. e \in Item /\ f \in Item /\ e.type \in Enterable(program) /\ f.do # "enter"
    <3>1. e \in Item /\ f \in Item /\ f.do = "fill"
      BY <1>3, <2>1, <2>5, MakeItems
    <3>2. e.type = fields[x + 1]
      BY DEF Enter
    <3>3. QED
      BY <2>5, <3>1, <3>2
  <2>7. <<e, f>> \in Seq(Item) /\ AllEnterable(program, <<e, f>>)
    BY <2>6 DEF AllEnterable
  <2>8. Replaced(<<e, f>>)
    BY <2>4
  <2>9. QED
    BY <1>1, <1>2, <2>7, <2>8, ReplacedEnterable
<1>10. CASE inputScalar \/ inputBool \/ inputString \/ inputEnum \/ pushZeroBytes
              \/ pushPointer \/ inputNothing
  <2>1. Replaced(<<>>)
    BY <1>10 DEF inputScalar, inputBool, inputString, inputEnum, pushZeroBytes, pushPointer,
                 inputNothing
  <2>2. QED
    BY <1>1, <1>2, <2>1, NothingEnterable, ReplacedEnterable
<1>11. QED
  BY <1>5, <1>6, <1>7, <1>8, <1>9, <1>10 DEF Enters

LEMMA ChooseEnterable ==
  ASSUME IInv, EntryInv, Choose
  PROVE  EntryInv'
<1>1. /\ UNCHANGED <<program, isFunctionValid>> /\ IsChoice(i')
      /\ todo' = EnterAll(program.functions[i'].params, 1, 0)
  BY DEF Choose
<1>2. /\ program \in Programs
      /\ program.functions \in Seq([params : Seq(Types), isVariadic : BOOLEAN])
  BY ProgramsAssumption DEF IInv, TypeOK
<1>3. i' \in DOMAIN program.functions /\ IsValid(program, i')
  BY <1>1 DEF IsChoice, EntryInv
<1>4. program.functions[i'] \in [params : Seq(Types), isVariadic : BOOLEAN]
  <2>1. DOMAIN program.functions = 1..Len(program.functions)
    BY <1>2
  <2>2. QED
    BY <1>2, <1>3, <2>1, ElementOfSeq
<1>5. PICK params \in Seq(Types) : params = program.functions[i'].params
  BY <1>4
<1>6. ASSUME NEW T \in Range(params) PROVE T \in Enterable(program)
  <2>1. T \in Types
    BY DEF Range
  <2>2. isInputableType(program, T)
    BY <1>3, <1>5 DEF IsValid
  <2>3. QED
    BY <1>2, <2>1, <2>2, InputableIsEnterable
<1>7. AllEnterable(program, EnterAll(params, 1, 0))
  <2>1. 1 \in Nat /\ 0 \in Nat
    OBVIOUS
  <2>2. QED
    BY <1>6, <2>1, EnterAllEnterable
<1>8. QED
  BY <1>1, <1>5, <1>7 DEF EntryInv, AllEnterable

LEMMA EntryInvariance == Spec => []EntryInv
<1>1. Init => EntryInv
  BY DEF Init, EntryInv, AllEnterable
<1>2. IInv /\ EntryInv /\ [Next]_vars => EntryInv'
  <2> SUFFICES ASSUME IInv, EntryInv, [Next]_vars PROVE EntryInv'
    OBVIOUS
  <2>1. CASE Enters
    BY <2>1, EntersEnterable
  <2>2. CASE Choose
    BY <2>2, ChooseEnterable
  <2>3. CASE UNCHANGED <<program, isFunctionValid, todo>>
    BY <2>3 DEF EntryInv, AllEnterable
  <2>4. QED
    BY <2>1, <2>2, <2>3 DEF Next, vars, AsksAgain, BoolRefused, OptionRefused, ChoiceRefused,
       Call, NoSuchField, NegativeFill, DeleteStorage, Another, Stopped
<1>3. QED
  BY <1>1, <1>2, Invariance, PTL DEF Spec

\* Whatever types point to each other and to themselves: inputType never comes to a type it
\* has no branch for, so each parameter of a function that is called has all its values.
THEOREM NothingSkipped == Spec => []SkipsNothing
<1>1. IInv /\ EntryInv => SkipsNothing
  <2> SUFFICES ASSUME IInv, EntryInv, Entering("unknown") PROVE FALSE
    BY DEF SkipsNothing
  <2>1. /\ phase = "enter" /\ todo # <<>> /\ Current.do = "enter"
        /\ Current.type.kind = "unknown"
    BY DEF Entering, Turn
  <2>2. Current = todo[1] /\ 1 \in 1..Len(todo)
    BY <2>1, CurrentFacts
  <2>3. HasBranch(Current.type)
    BY <2>1, <2>2, EnterableFacts DEF EntryInv, AllEnterable
  <2>4. QED
    BY <2>1, <2>3 DEF HasBranch
<1>2. QED
  BY <1>1, Invariance, EntryInvariance, PTL
=============================================================================
