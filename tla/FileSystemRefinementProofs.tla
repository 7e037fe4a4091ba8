--------------------- MODULE FileSystemRefinementProofs ---------------------
(***************************************************************************)
(* The disk emulator implements the store of FileStore, for every number   *)
(* of entries, blocks and characters per block.                            *)
(***************************************************************************)
EXTENDS FileSystemRefinement, FileSystemProofs

(***************************************************************************)
(* The texts of chains, for any disk.  Content is defined by following the *)
(* links, so it means something only because no chain has a cycle: the     *)
(* next lemmas build it, and say when two disks have the same texts.       *)
(***************************************************************************)
Places == 0 .. AMOUNT_OF_BLOCKS_

NoCycle(blks) ==
    \A S \in (SUBSET Blocks) \ {{}} : \E b \in S : blks[b].next_offset \notin S

\* f holds the texts of a set of places that no link leaves.
Reads(blks, D, f) ==
    /\ D \in SUBSET Places /\ 0 \in D
    /\ f \in [D -> Seq(Chars)]
    /\ f[0] = <<>>
    /\ \A b \in D \ {0} : /\ blks[b].next_offset \in D
                          /\ f[b] = blks[b].data \o f[blks[b].next_offset]

TextOf(blks) ==
    LET text[b \in Places] ==
            IF b = 0 THEN <<>> ELSE blks[b].data \o text[blks[b].next_offset]
    IN  text

\* A block is a place, and so is what it links to.
LEMMA PlacesOfBlocks ==
    /\ Places = Blocks \cup {0} /\ 0 \notin Blocks
    /\ \A blks \in [Blocks -> Block], b \in Blocks :
          blks[b].next_offset \in Places /\ blks[b].data \in Seq(Chars)
<1>1. Places = Blocks \cup {0} /\ 0 \notin Blocks
    BY SizesAssumption DEF Places, Blocks
<1>2. ASSUME NEW blks \in [Blocks -> Block], NEW b \in Blocks
      PROVE  blks[b].next_offset \in Places /\ blks[b].data \in Seq(Chars)
    <2>1. blks[b] \in Block
        OBVIOUS
    <2> QED
        BY <2>1 DEF Block, Places
<1> QED
    BY <1>1, <1>2

\* A place has one text.
LEMMA ReadsOnce ==
    ASSUME NEW blks, NoCycle(blks), NEW D, NEW E, NEW f, NEW g,
           Reads(blks, D, f), Reads(blks, E, g)
    PROVE  \A b \in D \cap E : f[b] = g[b]
<1> DEFINE S == {b \in D \cap E : f[b] # g[b]}
<1> SUFFICES ASSUME S # {} PROVE FALSE
    OBVIOUS
<1>1. S \in (SUBSET Blocks) \ {{}}
    BY PlacesOfBlocks DEF Reads
<1>2. PICK b \in S : blks[b].next_offset \notin S
    BY <1>1 DEF NoCycle
<1>3. b \in D \ {0} /\ b \in E \ {0}
    BY <1>1, <1>2, PlacesOfBlocks
<1>4. f[blks[b].next_offset] = g[blks[b].next_offset]
    BY <1>2, <1>3 DEF Reads
<1> QED
    BY <1>2, <1>3, <1>4 DEF Reads

\* Every place has one.
LEMMA ReadsExist ==
    ASSUME NEW blks \in [Blocks -> Block], NoCycle(blks)
    PROVE  \E g : Reads(blks, Places, g)
<1> DEFINE Shows(b, t) == \E D, f : Reads(blks, D, f) /\ b \in D /\ t = f[b]
           W == {b \in Places : \E t : Shows(b, t)}
           g == [b \in W |-> CHOOSE t : Shows(b, t)]
<1>1. ASSUME NEW D, NEW f, Reads(blks, D, f), NEW b \in D
      PROVE  b \in W /\ g[b] = f[b]
    <2>1. Shows(b, f[b]) /\ b \in Places
        BY <1>1 DEF Reads
    <2>2. b \in W
        BY <2>1
    <2>3. Shows(b, g[b])
        BY <2>1, <2>2
    <2>4. PICK E, h : Reads(blks, E, h) /\ b \in E /\ g[b] = h[b]
        BY <2>3
    <2> QED
        BY <1>1, <2>2, <2>4, ReadsOnce
<1>2. ASSUME NEW b \in W PROVE \E D, f : Reads(blks, D, f) /\ b \in D
    OBVIOUS
<1> HIDE DEF g, Shows
<1>3. Reads(blks, W, g)
    <2>1. Reads(blks, {0}, [b \in {0} |-> <<>>])
        BY PlacesOfBlocks, EmptySeq DEF Reads
    <2>2. 0 \in W /\ g[0] = <<>>
        BY <1>1, <2>1
    <2>3. ASSUME NEW b \in W
          PROVE  /\ g[b] \in Seq(Chars)
                 /\ b # 0 => /\ blks[b].next_offset \in W
                             /\ g[b] = blks[b].data \o g[blks[b].next_offset]
        <3>1. PICK D, f : Reads(blks, D, f) /\ b \in D
            BY <1>2
        <3>2. g[b] = f[b] /\ f[b] \in Seq(Chars)
            <4>1. g[b] = f[b]
                BY <1>1, <3>1
            <4> QED
                BY <3>1, <4>1 DEF Reads
        <3>3. ASSUME b # 0
              PROVE  /\ blks[b].next_offset \in D
                     /\ f[b] = blks[b].data \o f[blks[b].next_offset]
            BY <3>1, <3>3 DEF Reads
        <3>4. b # 0 => blks[b].next_offset \in W
                       /\ g[blks[b].next_offset] = f[blks[b].next_offset]
            BY <1>1, <3>1, <3>3
        <3> QED
            BY <3>2, <3>3, <3>4
    <2>4. g \in [W -> Seq(Chars)]
        BY <2>3 DEF g
    <2> QED
        BY <2>2, <2>3, <2>4 DEF Reads
<1>4. ASSUME W # Places PROVE FALSE
    <2> DEFINE S == Places \ W
    <2>1. S \in (SUBSET Blocks) \ {{}}
        BY <1>3, <1>4, PlacesOfBlocks DEF Reads
    <2>2. PICK b \in S : blks[b].next_offset \notin S
        BY <2>1 DEF NoCycle
    <2>3. b \in Blocks /\ blks[b].next_offset \in W /\ b \notin W /\ b # 0
        BY <2>1, <2>2, PlacesOfBlocks
    <2> DEFINE E == W \cup {b}
               h == [x \in E |-> IF x = b THEN blks[b].data \o g[blks[b].next_offset]
                                           ELSE g[x]]
    <2>4. Reads(blks, E, h)
        <3>1. blks[b].data \o g[blks[b].next_offset] \in Seq(Chars)
            BY <1>3, <2>3, PlacesOfBlocks, ConcatProperties DEF Reads
        <3>2. h \in [E -> Seq(Chars)] /\ \A x \in W : h[x] = g[x]
            BY <1>3, <2>3, <3>1 DEF Reads
        <3>3. h[b] = blks[b].data \o h[blks[b].next_offset]
            BY <2>3, <3>2
        <3>4. E \in SUBSET Places /\ 0 \in W
            BY <1>3, <2>3, PlacesOfBlocks DEF Reads
        <3> HIDE DEF h, W
        <3> QED
            BY <1>3, <2>3, <3>2, <3>3, <3>4 DEF Reads
    <2> HIDE DEF h, W
    <2> QED
        BY <1>1, <2>3, <2>4
<1> QED
    BY <1>3, <1>4

\* TextOf is the function its definition asks for.
LEMMA TextOfReads ==
    ASSUME NEW blks \in [Blocks -> Block], NoCycle(blks)
    PROVE  Reads(blks, Places, TextOf(blks))
<1> DEFINE Step(f) == [x \in Places |-> IF x = 0 THEN <<>>
                                        ELSE blks[x].data \o f[blks[x].next_offset]]
<1>1. PICK g : Reads(blks, Places, g)
    BY ReadsExist
<1>2. g = Step(g)
    <2>1. g \in [Places -> Seq(Chars)] /\ DOMAIN g = Places
        BY <1>1 DEF Reads
    <2>2. \A x \in Places : g[x] = Step(g)[x]
        BY <1>1 DEF Reads
    <2>3. DOMAIN Step(g) = Places /\ Step(g) = [x \in Places |-> Step(g)[x]]
        OBVIOUS
    <2>4. g = [x \in Places |-> g[x]]
        BY <2>1
    <2> HIDE DEF Step
    <2> QED
        BY <2>2, <2>3, <2>4
<1>3. TextOf(blks) = Step(TextOf(blks))
    BY <1>2 DEF TextOf
<1> DEFINE t == TextOf(blks)
<1>4. t = Step(t)
    BY <1>3
<1> HIDE DEF t
<1>5. /\ DOMAIN t = Places /\ t[0] = <<>>
      /\ \A x \in Places \ {0} : t[x] = blks[x].data \o t[blks[x].next_offset]
    <2>1. DOMAIN Step(t) = Places
        OBVIOUS
    <2>2. \A x \in Places : Step(t)[x] = IF x = 0 THEN <<>>
                                         ELSE blks[x].data \o t[blks[x].next_offset]
        OBVIOUS
    <2> HIDE DEF Step
    <2> QED
        BY <1>4, <2>1, <2>2, PlacesOfBlocks
<1>6. ASSUME NEW x \in Places, t[x] # g[x] PROVE FALSE
    <2> DEFINE S == {b \in Places : t[b] # g[b]}
    <2>1. S \in (SUBSET Blocks) \ {{}}
        BY <1>1, <1>5, <1>6, PlacesOfBlocks DEF Reads
    <2>2. PICK b \in S : blks[b].next_offset \notin S
        BY <2>1 DEF NoCycle
    <2>3. b \in Places \ {0} /\ blks[b].next_offset \in Places
        BY <2>1, <2>2, PlacesOfBlocks
    <2>4. t[blks[b].next_offset] = g[blks[b].next_offset]
        BY <2>2, <2>3
    <2> QED
        BY <1>1, <1>5, <2>2, <2>3, <2>4 DEF Reads
<1>7. t = [x \in Places |-> t[x]]
    <2>1. Step(t) = [x \in Places |-> Step(t)[x]]
        OBVIOUS
    <2> HIDE DEF Step
    <2> QED
        BY <1>4, <2>1
<1>8. t = g
    BY <1>1, <1>6, <1>7 DEF Reads
<1> QED
    BY <1>1, <1>8 DEF t

\* Any way of reading some of the places agrees with it.
LEMMA ReadsTextOf ==
    ASSUME NEW blks \in [Blocks -> Block], NoCycle(blks), NEW D, NEW f,
           Reads(blks, D, f)
    PROVE  \A b \in D : f[b] = TextOf(blks)[b]
<1>1. Reads(blks, Places, TextOf(blks))
    BY TextOfReads
<1>2. D \cap Places = D
    BY DEF Reads
<1> QED
    BY <1>1, <1>2, ReadsOnce

\* Two disks that agree on blocks no link leaves agree on their texts.
LEMMA SameTexts ==
    ASSUME NEW A \in [Blocks -> Block], NoCycle(A),
           NEW B \in [Blocks -> Block], NoCycle(B),
           NEW C \in SUBSET Blocks,
           \A b \in C : A[b] = B[b] /\ A[b].next_offset \in C \cup {0}
    PROVE  \A b \in C : TextOf(A)[b] = TextOf(B)[b]
<1> DEFINE D == C \cup {0}
           f == [b \in D |-> TextOf(A)[b]]
<1>1. Reads(A, Places, TextOf(A))
    BY TextOfReads
<1>2. D \in SUBSET Places /\ 0 \in D
    BY PlacesOfBlocks
<1>3. f \in [D -> Seq(Chars)] /\ f[0] = <<>>
    BY <1>1, <1>2 DEF Reads
<1>4. \A b \in D \ {0} : /\ B[b].next_offset \in D
                         /\ f[b] = B[b].data \o f[B[b].next_offset]
    BY <1>1, <1>2 DEF Reads
<1>5. Reads(B, D, f)
    <2> HIDE DEF D, f
    <2> QED
        BY <1>2, <1>3, <1>4 DEF Reads
<1>6. \A b \in D : f[b] = TextOf(B)[b]
    BY <1>5, ReadsTextOf
<1> QED
    BY <1>6

---------------------------------------------------------------------------
(***************************************************************************)
(* A walk along a chain: from its head h the links lead through the blocks *)
(* of P to o, which is 0 at the end of the chain, and the blocks of P hold *)
(* the text t.                                                             *)
(***************************************************************************)
WalkText(blks, h, o, P, t, f) ==
    /\ f \in [P \cup {o} -> Seq(Chars)]
    /\ f[o] = <<>>
    /\ f[h] = t
    /\ \A b \in P : f[b] = blks[b].data \o f[blks[b].next_offset]

Walk(blks, h, o, P, t) ==
    /\ P \in SUBSET Blocks
    /\ o \notin P /\ h \in P \cup {o}
    /\ \A b \in P : blks[b].next_offset \in P \cup {o}
    /\ \A b \in P \cup {o} : b = h \/ \E c \in P : blks[c].next_offset = b
    /\ \E f : WalkText(blks, h, o, P, t, f)

\* No link leads to h, and no two lead to the same block.
LinksApart(blks, h) ==
    /\ \A b \in Blocks : blks[b].next_offset # h
    /\ \A b, c \in Blocks :
          blks[b].next_offset = blks[c].next_offset
          => b = c \/ blks[b].next_offset = 0

\* Before the first block is read nothing has been read.
LEMMA WalkBegins ==
    ASSUME NEW blks, NEW h
    PROVE  Walk(blks, h, h, {}, <<>>)
<1> DEFINE f == [b \in {h} |-> <<>>]
<1>1. WalkText(blks, h, h, {}, <<>>, f)
    BY EmptySeq DEF WalkText
<1> HIDE DEF f
<1> QED
    BY <1>1 DEF Walk

\* What a walk has read is a text.
LEMMA WalkType ==
    ASSUME NEW blks, NEW h, NEW o, NEW P, NEW t, Walk(blks, h, o, P, t)
    PROVE  t \in Seq(Chars)
    BY DEF Walk, WalkText

\* A write to a block that has not been read does not change what has.
LEMMA WalkKept ==
    ASSUME NEW A, NEW B, NEW h, NEW o, NEW P, NEW t, Walk(A, h, o, P, t),
           \A b \in P : A[b] = B[b]
    PROVE  Walk(B, h, o, P, t)
<1>1. PICK f : WalkText(A, h, o, P, t, f)
    BY DEF Walk
<1>2. WalkText(B, h, o, P, t, f)
    BY <1>1 DEF WalkText
<1> QED
    BY <1>2 DEF Walk

\* The walk never comes back to a block it has been at.
LEMMA WalkNew ==
    ASSUME NEW blks \in [Blocks -> Block], NoCycle(blks),
           NEW h, NEW o \in Blocks, NEW P, NEW t, Walk(blks, h, o, P, t),
           LinksApart(blks, h)
    PROVE  blks[o].next_offset \notin P \cup {o}
<1> DEFINE n == blks[o].next_offset
<1>1. n # o
    <2>1. {o} \in (SUBSET Blocks) \ {{}}
        OBVIOUS
    <2> QED
        BY <2>1 DEF NoCycle
<1>2. ASSUME n \in P PROVE FALSE
    <2>1. n # h /\ n # 0 /\ P \in SUBSET Blocks /\ o \notin P
        BY <1>2, PlacesOfBlocks DEF LinksApart, Walk
    <2>2. PICK c \in P : blks[c].next_offset = n
        BY <1>2, <2>1 DEF Walk
    <2>3. c = o
        BY <2>1, <2>2 DEF LinksApart
    <2> QED
        BY <2>1, <2>2, <2>3
<1> QED
    BY <1>1, <1>2

\* Reading the block the walk is at, and going on to the next.
LEMMA WalkGoesOn ==
    ASSUME NEW blks \in [Blocks -> Block], NoCycle(blks),
           NEW h, NEW o \in Blocks, NEW P, NEW t, Walk(blks, h, o, P, t),
           LinksApart(blks, h)
    PROVE  Walk(blks, h, blks[o].next_offset, P \cup {o}, t \o blks[o].data)
<1> DEFINE n == blks[o].next_offset
           d == blks[o].data
           Q == P \cup {o}
<1>1. PICK f : WalkText(blks, h, o, P, t, f)
    BY DEF Walk
<1> DEFINE g == [b \in Q \cup {n} |-> IF b = n THEN <<>> ELSE f[b] \o d]
<1>2. d \in Seq(Chars) /\ n \notin Q
    BY PlacesOfBlocks, WalkNew
<1>3. P \in SUBSET Blocks /\ Q \in SUBSET Blocks /\ h \in Q /\ o \notin P
    BY DEF Walk
<1>4. \A b \in Q : f[b] \in Seq(Chars)
    BY <1>1 DEF WalkText
<1>5. g \in [Q \cup {n} -> Seq(Chars)]
    <2>1. \A b \in Q : f[b] \o d \in Seq(Chars)
        BY <1>2, <1>4, ConcatProperties
    <2>2. <<>> \in Seq(Chars)
        BY EmptySeq
    <2> QED
        BY <2>1, <2>2
<1>6. g[n] = <<>> /\ \A b \in Q : g[b] = f[b] \o d
    BY <1>2
<1>7. g[h] = t \o d
    BY <1>1, <1>3, <1>6 DEF WalkText
<1>8. \A b \in Q : blks[b].next_offset \in Q \cup {n}
    BY DEF Walk
<1> HIDE DEF g
<1>9. ASSUME NEW b \in Q PROVE g[b] = blks[b].data \o g[blks[b].next_offset]
    <2>1. CASE b = o
        <3>1. f[o] = <<>> /\ <<>> \o d = d /\ d \o <<>> = d
            BY <1>1, <1>2, ConcatEmptySeq DEF WalkText
        <3> QED
            BY <1>6, <2>1, <3>1
    <2>2. CASE b \in P
        <3> DEFINE m == blks[b].next_offset
        <3>1. m \in Q /\ f[b] = blks[b].data \o f[m]
            BY <1>1, <2>2 DEF Walk, WalkText
        <3>2. blks[b].data \in Seq(Chars)
            BY <1>3, <2>2, PlacesOfBlocks
        <3>3. (blks[b].data \o f[m]) \o d = blks[b].data \o (f[m] \o d)
            <4>1. f[m] \in Seq(Chars) /\ d \in Seq(Chars)
                BY <1>2, <1>4, <3>1
            <4>2. \A x, y, z \in Seq(Chars) : (x \o y) \o z = x \o (y \o z)
                BY ConcatAssociative
            <4> HIDE DEF m, d
            <4> QED
                BY <3>2, <4>1, <4>2, Zenon
        <3> QED
            BY <1>6, <2>2, <3>1, <3>3
    <2> QED
        BY <2>1, <2>2
<1>10. WalkText(blks, h, n, Q, t \o d, g)
    <2> HIDE DEF Q, n, d
    <2> QED
        BY <1>5, <1>6, <1>7, <1>9 DEF WalkText, Q, n
<1>11. \A b \in Q \cup {n} : b = h \/ \E c \in Q : blks[c].next_offset = b
    BY DEF Walk
<1> QED
    <2> HIDE DEF Q, n, d
    <2>1. Walk(blks, h, n, Q, t \o d)
        BY <1>2, <1>3, <1>8, <1>10, <1>11 DEF Walk
    <2> QED
        BY <2>1 DEF Q, n, d

\* A walk to the end of a chain has read its text.
LEMMA WalkEnds ==
    ASSUME NEW blks \in [Blocks -> Block], NoCycle(blks),
           NEW h, NEW P, NEW t, Walk(blks, h, 0, P, t)
    PROVE  TextOf(blks)[h] = t
<1>1. PICK f : WalkText(blks, h, 0, P, t, f)
    BY DEF Walk
<1>2. P \in SUBSET Blocks /\ h \in P \cup {0}
    BY DEF Walk
<1>3. P \cup {0} \in SUBSET Places /\ (P \cup {0}) \ {0} = P
    BY <1>2, PlacesOfBlocks
<1>4. Reads(blks, P \cup {0}, f)
    <2>1. \A b \in P : blks[b].next_offset \in P \cup {0}
        BY DEF Walk
    <2> QED
        BY <1>1, <1>3, <2>1 DEF WalkText, Reads
<1>5. f[h] = TextOf(blks)[h]
    BY <1>2, <1>4, ReadsTextOf
<1> QED
    BY <1>1, <1>5 DEF WalkText

---------------------------------------------------------------------------
(***************************************************************************)
(* The invariant of the refinement.  No walk says anything about the other *)
(* files, so every block gets an owner, an entry of the table, which the   *)
(* links respect: what is written to a block of one owner cannot be read   *)
(* through another entry.                                                  *)
(***************************************************************************)
Owners(owner) ==
    /\ \A i \in Slots :
          fmdt[i].begining_offset # 0 => owner[fmdt[i].begining_offset] = i
    /\ \A b \in Blocks :
          blocks[b].next_offset # 0 => owner[blocks[b].next_offset] = owner[b]
    /\ offset # 0 => owner[offset] = slot

OwnerInv == \E owner \in [Blocks -> Slots] : Owners(owner)

\* The edited text is what the chain holds up to the block the loop is at,
\* then what this block holds or is about to, then what is still to be written.
WalkInv ==
    /\ pc \in Headless \cup {"save_entry", "create", "remove", "drop_entry", "wipe",
                           "restore"}
          => processed = <<>>
    /\ pc = "load" => \E P : Walk(blocks, Root, offset, P, processed)
    /\ pc = "save" => /\ rest # <<>>
                      /\ \E P, t : /\ Walk(blocks, Root, offset, P, t)
                                   /\ processed = t \o rest
    /\ pc = "unlink" => \E P, t : /\ Walk(blocks, Root, offset, P, t)
                                  /\ processed = t \o blocks[offset].data
    /\ pc = "extend" =>
          /\ rest # <<>> /\ blocks[offset].data # <<>>
          /\ \E P, t : /\ Walk(blocks, Root, offset, P, t)
                       /\ processed = (t \o blocks[offset].data) \o rest
    /\ pc = "trim" => \E P : /\ Walk(blocks, Root, 0, P, processed)
                             /\ offset \notin P

RefBase == StructInv /\ ChainsAcyclic /\ UniqueNames /\ DiskNamesUnique
RefInv  == RefBase /\ OwnerInv /\ WalkInv

\* What the earlier invariants say of the disk and of the first blocks.
DiskOK ==
    /\ blocks \in [Blocks -> Block]
    /\ NoCycle(blocks)
    /\ \A i \in Slots :
          fmdt[i].begining_offset # 0 =>
          /\ fmdt[i].begining_offset \in Blocks
          /\ LinksApart(blocks, fmdt[i].begining_offset)

\* The structure of the disk gives each of them.
LEMMA DiskFacts == RefBase => DiskOK
<1> SUFFICES ASSUME RefBase PROVE DiskOK
    OBVIOUS
<1>1. LocalInv /\ NoSharing /\ blocks \in [Blocks -> Block]
    BY DEF RefBase, StructInv, LocalInv, TypeOK
<1>2. NoCycle(blocks)
    BY DEF RefBase, ChainsAcyclic, NoCycle
<1>3. ASSUME NEW i \in Slots, fmdt[i].begining_offset # 0
      PROVE  /\ fmdt[i].begining_offset \in Blocks
             /\ LinksApart(blocks, fmdt[i].begining_offset)
    <2>1. fmdt[i].begining_offset \in Blocks
        BY <1>1, <1>3, SizesAssumption
        DEF LocalInv, TypeOK, FileMetaDataTableField, Blocks
    <2>2. fmdt[i].begining_offset \in Heads
        BY <1>3, OwnedMembers
    <2>3. \A b \in Blocks : blocks[b].next_offset # fmdt[i].begining_offset
        BY <1>1, <1>3, <2>2, OwnedMembers DEF NoSharing
    <2> QED
        BY <1>1, <2>1, <2>3 DEF NoSharing, LinksApart
<1> QED
    BY <1>1, <1>2, <1>3 DEF DiskOK

\* So they say of the disk after a step.
LEMMA DiskFactsNext == RefBase' => DiskOK'
    BY DiskFacts, PTL

\* Names are unique because none of them fills its field.
LEMMA BaseStep ==
    ASSUME LongNames = {}
    PROVE  RefBase /\ [Next]_vars => RefBase'
<1>1. RefBase => LocalInv
    BY DEF RefBase, StructInv
<1>2. [Next]_vars => [Next \/ Crash]_vars
    OBVIOUS
<1>3. UniqueNames <=> ShortNamesUnique
    BY DEF UniqueNames, ShortNamesUnique
<1>4. UniqueNames' <=> ShortNamesUnique'
    BY DEF UniqueNames, ShortNamesUnique
<1> QED
    BY <1>1, <1>2, <1>3, <1>4, StructStep, AcyclicStep, NamesStep
    DEF RefBase, NamesInv

\* Where the loops are.
LEMMA LoopFacts ==
    ASSUME RefBase, pc \notin Headless
    PROVE  /\ slot \in Slots /\ Root \in Blocks /\ Root # 0
           /\ LinksApart(blocks, Root)
           /\ pc \in {"load", "save", "unlink", "extend"} \cup ClearLoops
                 => offset \in Blocks
<1>1. slot \in Slots /\ Root \in Blocks
    BY HeadIsBlock DEF RefBase, StructInv, Root
<1>2. Root # 0
    BY <1>1, PlacesOfBlocks
<1>3. LinksApart(blocks, Root)
    BY <1>1, <1>2, DiskFacts DEF DiskOK, Root
<1>4. pc \in {"load", "save", "unlink", "extend"} \cup ClearLoops
         => offset \in Blocks
    BY DEF RefBase, StructInv, LocalInv, TypeOK
<1> QED
    BY <1>1, <1>2, <1>3, <1>4

---------------------------------------------------------------------------
\* A step that drops links or entries, and stays at the block of its loop, goes
\* on to the next one, ends the loop or begins one.
LEMMA OwnersKept ==
    ASSUME RefBase, OwnerInv,
           \A i \in Slots : fmdt'[i].begining_offset \in {0, fmdt[i].begining_offset},
           \A b \in Blocks : blocks'[b].next_offset \in {0, blocks[b].next_offset},
           \/ offset' = 0
           \/ /\ slot' = slot /\ offset \in Blocks
              /\ offset' \in {offset, blocks[offset].next_offset}
           \/ slot' \in Slots /\ offset' = fmdt[slot'].begining_offset
    PROVE  OwnerInv'
<1>1. PICK owner \in [Blocks -> Slots] : Owners(owner)
    BY DEF OwnerInv
<1>2. \A i \in Slots :
          fmdt'[i].begining_offset # 0 => owner[fmdt'[i].begining_offset] = i
    BY <1>1 DEF Owners
<1>3. \A b \in Blocks :
          blocks'[b].next_offset # 0 => owner[blocks'[b].next_offset] = owner[b]
    BY <1>1 DEF Owners
<1>4. offset' # 0 => owner[offset'] = slot'
    <2>1. offset \in Blocks => offset # 0
        BY PlacesOfBlocks
    <2> QED
        BY <1>1, <2>1 DEF Owners
<1> QED
    BY <1>2, <1>3, <1>4 DEF OwnerInv, Owners

\* A free block gets the owner of the entry or of the block that will lead to it.
LEMMA OwnerGiven ==
    ASSUME RefBase, OwnerInv, NEW f \in Blocks, blocks[f].busy_flag = 0,
           f \notin Owned, NEW i \in Slots, slot' = i, offset' \in {0, f},
           \A j \in Slots : \/ fmdt'[j].begining_offset = fmdt[j].begining_offset
                            \/ j = i /\ fmdt'[j].begining_offset = f,
           \A b \in Blocks :
              \/ blocks'[b].next_offset = blocks[b].next_offset
              \/ /\ blocks'[b].next_offset = f /\ b = offset /\ slot = i
                 /\ b # f
    PROVE  OwnerInv'
<1>1. PICK owner \in [Blocks -> Slots] : Owners(owner)
    BY DEF OwnerInv
<1> DEFINE given == [owner EXCEPT ![f] = i]
<1>2. given \in [Blocks -> Slots] /\ given[f] = i
      /\ \A b \in Blocks : b # f => given[b] = owner[b]
    BY <1>1
<1>3. /\ \A j \in Slots : fmdt[j].begining_offset # f
      /\ \A b \in Blocks : blocks[b].next_offset # f
    BY OwnedMembers, PlacesOfBlocks
<1>4. blocks[f].next_offset = 0
    BY SizesAssumption
    DEF RefBase, StructInv, LocalInv, FreeBlocksBlank, Busy, EmptyBlock, Blocks
<1>5. \A j \in Slots : fmdt[j].begining_offset # 0 => fmdt[j].begining_offset \in Blocks
    BY DiskFacts DEF DiskOK
<1>6. \A b \in Blocks : blocks[b].next_offset # 0 => blocks[b].next_offset \in Blocks
    BY DiskFacts, PlacesOfBlocks DEF DiskOK
<1> HIDE DEF given
<1>7. ASSUME NEW j \in Slots, fmdt'[j].begining_offset # 0
      PROVE  given[fmdt'[j].begining_offset] = j
    BY <1>1, <1>2, <1>3, <1>5, <1>7 DEF Owners
<1>8. ASSUME NEW b \in Blocks, blocks'[b].next_offset # 0
      PROVE  given[blocks'[b].next_offset] = given[b]
    <2>1. CASE blocks'[b].next_offset = blocks[b].next_offset
        <3>1. b # f
            BY <1>4, <1>8, <2>1
        <3> QED
            BY <1>1, <1>2, <1>3, <1>6, <1>8, <2>1, <3>1 DEF Owners
    <2>2. CASE blocks'[b].next_offset = f /\ b = offset /\ slot = i /\ b # f
        <3>1. owner[b] = i
            BY <1>1, <2>2, PlacesOfBlocks DEF Owners
        <3> QED
            BY <1>2, <2>2, <3>1
    <2> QED
        BY <2>1, <2>2
<1>9. offset' # 0 => given[offset'] = slot'
    BY <1>2
<1> QED
    BY <1>2, <1>7, <1>8, <1>9 DEF OwnerInv, Owners

\* A write of one block, as a fact about all of them.
LEMMA OneBlock ==
    ASSUME RefBase, NEW at \in Blocks, NEW x \in Block, SaveBlock(x, at)
    PROVE  \A b \in Blocks : blocks'[b] = IF b = at THEN x ELSE blocks[b]
    BY Written DEF RefBase, StructInv

\* A loop that clears a chain only drops a link.
LEMMA ClearedOnly ==
    ASSUME RefBase, NEW loop \in ClearLoops, ClearTurn(loop)
    PROVE  /\ offset \in Blocks /\ pc = loop
           /\ fmdt' = fmdt
           /\ \A b \in Blocks : blocks'[b] = IF b = offset THEN EmptyBlock
                                                           ELSE blocks[b]
<1>1. offset \in Blocks /\ blocks[offset] \in Block /\ pc = loop /\ fmdt' = fmdt
    BY DEF RefBase, StructInv, LocalInv, TypeOK, ClearTurn, ClearLoops
<1>2. SaveBlock(EmptyBlock, offset) /\ EmptyBlock \in Block
    BY <1>1, BlockShapes DEF ClearTurn
<1> QED
    BY <1>1, <1>2, OneBlock

\* Every step keeps the owners or gives a free block one.
LEMMA OwnerStep == RefBase /\ OwnerInv /\ [Next]_vars => OwnerInv'
<1> SUFFICES ASSUME RefBase, OwnerInv, [Next]_vars PROVE OwnerInv'
    OBVIOUS
<1>t. LocalInv /\ AllocInv /\ fmdt \in [Slots -> FileMetaDataTableField]
      /\ (pc \notin Unwritten => fmdt = disk_fmdt) /\ blocks \in [Blocks -> Block]
    BY TablesAgree DEF RefBase, StructInv, LocalInv, TypeOK
<1>1. CASE UNCHANGED <<fmdt, blocks, slot, offset>>
    BY <1>1 DEF OwnerInv, Owners
<1>2. ASSUME UNCHANGED <<fmdt, blocks>>,
             \/ offset' = 0
             \/ slot' \in Slots /\ offset' = fmdt[slot'].begining_offset
             \/ /\ slot' = slot /\ offset \in Blocks
                /\ offset' = blocks[offset].next_offset
      PROVE  OwnerInv'
    BY <1>2, OwnersKept
<1>3. ASSUME Reload, pc \in {"menu", "edit"} PROVE OwnerInv'
    BY <1>2, <1>3, <1>t DEF Reload, Return, disk, Unwritten
<1>4. ASSUME NEW r, Refuse(r) PROVE OwnerInv'
    BY <1>2, <1>4 DEF Refuse, Return, disk
<1>5. CASE ResetDisk
    <2>1. /\ \A i \in Slots : fmdt'[i].begining_offset = 0
          /\ blocks' = blocks /\ pc = "menu" /\ offset' = offset
        BY <1>5 DEF ResetDisk, EmptyEntry, disk
    <2>2. offset = 0
        BY <1>t, <2>1 DEF LocalInv, TypeOK, Internal, ClearLoops
    <2> QED
        BY <2>1, <2>2, OwnersKept
<1>17. CASE WriteEmptyDisk
    <2>1. /\ fmdt' = fmdt /\ offset' = 0
          /\ \A b \in Blocks : blocks'[b].next_offset = 0
        BY <1>17 DEF WriteEmptyDisk, EmptyBlock, Return
    <2> QED
        BY <2>1, OwnersKept
<1>18. CASE NextProbe
    BY <1>1, <1>18 DEF NextProbe, disk
<1>19. CASE NoBlockLeft
    <2>1. /\ \A i \in Slots :
                fmdt'[i].begining_offset \in {0, fmdt[i].begining_offset}
          /\ blocks' = blocks /\ offset' = 0
        BY <1>19, <1>t DEF NoBlockLeft, FileMetaDataTableField, Return, disk
    <2> QED
        BY <2>1, OwnersKept
<1>20. CASE SaveEntry \/ SaveDrop
    BY <1>1, <1>2, <1>20 DEF SaveEntry, SaveDrop, SaveFMDT, Return
<1>21. ASSUME NEW name \in Names, CreateNewFile(name) PROVE OwnerInv'
    <2>1. UNCHANGED <<fmdt, blocks>> /\ pc = "menu" /\ offset' = offset
        BY <1>21 DEF CreateNewFile, disk
    <2>2. offset = 0
        BY <1>t, <2>1 DEF LocalInv, TypeOK, Internal, ClearLoops
    <2> QED
        BY <1>2, <2>1, <2>2
<1>6. ASSUME NEW name \in Names, RemoveFile(name) \/ OpenFile(name) PROVE OwnerInv'
    BY <1>2, <1>6 DEF RemoveFile, OpenFile, disk
<1>7. CASE FillEntry
    <2>1. PICK f \in Blocks :
              /\ FindFreeBlock(f)
              /\ fmdt' = [fmdt EXCEPT ![slot] =
                              [name |-> new_file_name, begining_offset |-> f]]
        BY <1>7 DEF FillEntry
    <2>2. \A j \in Slots : \/ fmdt'[j].begining_offset = fmdt[j].begining_offset
                           \/ j = slot /\ fmdt'[j].begining_offset = f
        BY <1>t, <2>1
    <2>3. /\ blocks' = blocks /\ pc = "find" /\ offset' = 0 /\ slot' = slot
          /\ slot \in Slots
        BY <1>7, <1>t DEF FillEntry, LocalInv, TypeOK, ClearLoops, disk
    <2>4. blocks[f].busy_flag = 0
        BY <1>t, <2>1, <2>3, SearchEnds, PlacesOfBlocks DEF Searches
    <2>5. f \notin Owned
        BY <1>t, <2>3, <2>4 DEF AllocInv, HeadBlank, Busy
    <2> QED
        BY <2>2, <2>3, <2>4, <2>5, OwnerGiven
<1>8. CASE CloseText
    <2>1. slot \in Slots
        BY <1>8, LoopFacts DEF CloseText, Headless
    <2> QED
        BY <1>2, <1>8, <2>1 DEF CloseText, disk
<1>9. CASE CreateBlock \/ RestoreFirst
    <2>1. Root \in Blocks /\ SaveBlock(FirstBlock, Root) /\ fmdt' = fmdt /\ offset' = 0
        BY <1>9, LoopFacts DEF CreateBlock, RestoreFirst, Return, Root, Headless
    <2>2. \A b \in Blocks : blocks'[b].next_offset \in {0, blocks[b].next_offset}
        BY <2>1, BlockShapes, OneBlock DEF FirstBlock
    <2> QED
        BY <2>1, <2>2, OwnersKept
<1>10. CASE DropEntry
    <2>1. /\ \A i \in Slots :
                fmdt'[i].begining_offset \in {0, fmdt[i].begining_offset}
          /\ blocks' = blocks /\ pc = "drop_entry" /\ offset' = offset
        BY <1>10, <1>t DEF DropEntry, EmptyEntry, disk
    <2>2. offset = 0
        BY <1>t, <2>1 DEF LocalInv, TypeOK, ClearLoops
    <2> QED
        BY <2>1, <2>2, OwnersKept
<1>11. ASSUME NEW loop \in ClearLoops, ClearTurn(loop),
              \/ GoOn
              \/ \E step \in {"drop_entry", "restore"} : Goto(step)
              \/ Return("ok")
       PROVE  OwnerInv'
    <2>1. /\ offset \in Blocks /\ fmdt' = fmdt
          /\ \A b \in Blocks : blocks'[b].next_offset \in {0, blocks[b].next_offset}
        BY <1>11, ClearedOnly DEF EmptyBlock
    <2>2. \/ offset' = 0
          \/ slot' = slot /\ offset' = blocks[offset].next_offset
        BY <1>11 DEF GoOn, Goto, Return
    <2> QED
        BY <2>1, <2>2, OwnersKept
<1>12. CASE RemoveBlock \/ WipeBlock \/ TrimBlock
    <2>1. {"remove", "wipe", "trim"} = ClearLoops
        BY DEF ClearLoops
    <2> QED
        BY <1>11, <1>12, <2>1 DEF RemoveBlock, WipeBlock, TrimBlock
<1>13. CASE FileToBuffer
    <2>1. offset \in Blocks
        BY <1>13, LoopFacts DEF FileToBuffer, Headless
    <2> QED
        BY <1>2, <1>13, <2>1 DEF FileToBuffer, disk
<1>14. CASE SaveData
    <2>1. offset \in Blocks /\ SaveBlock(Filled(blocks[offset]), offset) /\ fmdt' = fmdt
        BY <1>14, LoopFacts DEF SaveData, Headless
    <2>2. /\ Filled(blocks[offset]) \in Block
          /\ Filled(blocks[offset]).next_offset = blocks[offset].next_offset
        BY <1>t, <2>1, FilledShape DEF LocalInv, TypeOK
    <2>3. \A b \in Blocks : blocks'[b].next_offset \in {0, blocks[b].next_offset}
        BY <2>1, <2>2, OneBlock
    <2>4. \/ offset' = 0
          \/ slot' = slot /\ offset' \in {offset, blocks[offset].next_offset}
        BY <1>14 DEF SaveData, Return
    <2> QED
        BY <2>1, <2>3, <2>4, OwnersKept
<1>15. CASE UnlinkTail
    <2> DEFINE x == [blocks[offset] EXCEPT !.next_offset = 0]
    <2>1. /\ offset \in Blocks /\ blocks[offset] \in Block /\ SaveBlock(x, offset)
          /\ fmdt' = fmdt /\ slot' = slot /\ offset' = blocks[offset].next_offset
        BY <1>15, LoopFacts, <1>t DEF UnlinkTail, Headless
    <2>2. x \in Block /\ x.next_offset = 0
        <3>1. 0 \in 0 .. AMOUNT_OF_BLOCKS_
            BY SizesAssumption
        <3> QED
            BY <2>1, <3>1, BlockShapes DEF Block
    <2> HIDE DEF x
    <2>3. \A b \in Blocks : blocks'[b].next_offset \in {0, blocks[b].next_offset}
        BY <2>1, <2>2, OneBlock
    <2> QED
        BY <2>1, <2>3, OwnersKept
<1>16. CASE LinkBlock
    <2>1. PICK f \in Blocks :
              /\ FindFreeBlock(f)
              /\ SaveBlock([blocks[offset] EXCEPT !.next_offset = f], offset)
              /\ offset' = f
        BY <1>16 DEF LinkBlock
    <2> DEFINE x == [blocks[offset] EXCEPT !.next_offset = f]
    <2>2. /\ offset \in Blocks /\ blocks[offset] \in Block /\ SaveBlock(x, offset)
          /\ fmdt' = fmdt /\ slot' = slot /\ slot \in Slots /\ pc = "extend"
        BY <1>16, <2>1, LoopFacts, <1>t DEF LinkBlock, Headless
    <2>3. x \in Block /\ x.next_offset = f
        BY <2>2, BlockShapes DEF Block, Blocks
    <2> HIDE DEF x
    <2>4. \A b \in Blocks : blocks'[b] = IF b = offset THEN x ELSE blocks[b]
        BY <2>2, <2>3, OneBlock
    <2>5. f # offset /\ f \notin Owned /\ blocks[f].busy_flag = 0
        <3>1. blocks[f].busy_flag = 0
            BY <1>t, <2>1, <2>2, SearchEnds, PlacesOfBlocks DEF Searches
        <3>2. blocks[offset].busy_flag = 1
            BY <1>t, <2>2 DEF LocalInv, StepInv
        <3> QED
            BY <1>t, <2>2, <3>1, <3>2 DEF AllocInv, HeadBlank, Busy
    <2> QED
        BY <2>1, <2>2, <2>3, <2>4, <2>5, OwnerGiven
<1> QED
    BY <1>1, <1>3, <1>4, <1>5, <1>6, <1>7, <1>8, <1>9, <1>10, <1>12, <1>13, <1>14,
       <1>15, <1>16, <1>17, <1>18, <1>19, <1>20, <1>21
    DEF Next, Command, Edit, Proceed, Restart, NameInUse, NoEntryLeft, NoSuchFile,
        ClearText, EraseText, AppendText, InsertText, Edited, EditThrows, DiskFull,
        vars, disk

---------------------------------------------------------------------------
\* What Filled takes and Remainder leaves make up the text; it takes something.
LEMMA Shares ==
    ASSUME rest \in Seq(Chars), NEW x \in Block
    PROVE  /\ Filled(x).data \in Seq(Chars) /\ Remainder \in Seq(Chars)
           /\ Filled(x).data \o Remainder = rest
           /\ rest # <<>> => Filled(x).data # <<>>
<1> DEFINE k == Least(Len(rest), BLOCK_DATA_SIZE)
<1>1. Filled(x).data = SubSeq(rest, 1, k)
    BY DEF Filled, Block
<1>2. Len(rest) \in Nat /\ k \in 0 .. Len(rest) /\ (Len(rest) # 0 => k # 0)
    BY LenProperties, SizesAssumption DEF Least
<1>3. SubSeq(rest, 1, k) \in Seq(Chars) /\ Remainder \in Seq(Chars)
    BY SplitType
<1>4. SubSeq(rest, 1, k) \o SubSeq(rest, k + 1, Len(rest)) = SubSeq(rest, 1, Len(rest))
    <2>1. 1 \in 1 .. Len(rest) + 1 /\ k \in 1 - 1 .. Len(rest)
          /\ Len(rest) \in k .. Len(rest)
        BY <1>2
    <2> HIDE DEF k
    <2> QED
        BY <2>1, ConcatAdjacentSubSeq
<1>5. SubSeq(rest, 1, Len(rest)) = rest
    BY SubSeqFull
<1>6. Remainder = SubSeq(rest, k + 1, Len(rest))
    BY <1>2 DEF Remainder
<1>7. ASSUME rest # <<>> PROVE SubSeq(rest, 1, k) # <<>>
    <2>1. Len(rest) # 0 /\ k >= 1
        BY <1>2, <1>7, EmptySeq
    <2>2. \A i \in 1 .. k : rest[i] \in Chars
        BY <1>2, ElementOfSeq
    <2>3. Len(SubSeq(rest, 1, k)) = k
        <3>1. 1 \in Int /\ k \in Int
            BY <1>2
        <3> HIDE DEF k
        <3> QED
            BY <2>1, <2>2, <3>1, SubSeqProperties
    <2>4. Len(<<>>) = 0 /\ k # 0
        BY <2>1
    <2> HIDE DEF k
    <2> QED
        BY <2>3, <2>4
<1> QED
    BY <1>1, <1>3, <1>4, <1>5, <1>6, <1>7

\* SaveFile writes its share of the text to the block the walk is at.
LEMMA SaveWalk ==
    ASSUME RefInv, RefBase', SaveData
    PROVE  /\ pc = "save" /\ offset \in Blocks /\ fmdt' = fmdt
           /\ \A b \in Blocks : blocks'[b].next_offset = blocks[b].next_offset
           /\ \A b \in Blocks : b # offset => blocks'[b] = blocks[b]
           /\ blocks'[offset].data # <<>>
           /\ blocks'[offset].data \in Seq(Chars) /\ Remainder \in Seq(Chars)
           /\ \E P, t :
                 /\ Walk(blocks', Root, offset, P, t)
                 /\ Walk(blocks', Root, blocks[offset].next_offset, P \cup {offset},
                         t \o blocks'[offset].data)
                 /\ processed = (t \o blocks'[offset].data) \o Remainder
<1> DEFINE x == Filled(blocks[offset])
<1>1. /\ pc = "save" /\ offset \in Blocks /\ SaveBlock(x, offset) /\ fmdt' = fmdt
      /\ slot \in Slots /\ Root \in Blocks /\ Root # 0
    BY LoopFacts DEF SaveData, RefInv, Headless
<1>2. /\ rest \in Seq(Chars) /\ blocks \in [Blocks -> Block] /\ rest # <<>>
    BY <1>1 DEF RefInv, RefBase, StructInv, LocalInv, TypeOK, WalkInv
<1>3. x \in Block /\ x.next_offset = blocks[offset].next_offset
    BY <1>1, <1>2, FilledShape
<1>4. /\ x.data \in Seq(Chars) /\ Remainder \in Seq(Chars)
      /\ x.data \o Remainder = rest /\ x.data # <<>>
    BY <1>1, <1>2, Shares
<1> HIDE DEF x
<1>5. \A b \in Blocks : blocks'[b] = IF b = offset THEN x ELSE blocks[b]
    BY <1>1, <1>3, OneBlock DEF RefInv
<1>6. blocks' \in [Blocks -> Block] /\ NoCycle(blocks') /\ LinksApart(blocks', Root)
    BY <1>1, DiskFactsNext DEF DiskOK, Root
<1>7. PICK P, t : Walk(blocks, Root, offset, P, t) /\ processed = t \o rest
    BY <1>1 DEF RefInv, WalkInv
<1>8. P \in SUBSET Blocks /\ offset \notin P /\ t \in Seq(Chars)
    <2>1. t \in Seq(Chars)
        BY <1>7, WalkType
    <2> QED
        BY <1>7, <2>1 DEF Walk
<1>9. Walk(blocks', Root, offset, P, t)
    BY <1>5, <1>7, <1>8, WalkKept
<1>10. Walk(blocks', Root, blocks'[offset].next_offset, P \cup {offset},
            t \o blocks'[offset].data)
    BY <1>1, <1>6, <1>9, WalkGoesOn
<1>11. blocks'[offset].next_offset = blocks[offset].next_offset
       /\ blocks'[offset].data = x.data
    BY <1>1, <1>3, <1>5
<1>12. processed = (t \o x.data) \o Remainder
    <2>1. \A u, v, w \in Seq(Chars) : (u \o v) \o w = u \o (v \o w)
        BY ConcatAssociative
    <2>2. (t \o x.data) \o Remainder = t \o (x.data \o Remainder)
        BY <1>4, <1>8, <2>1, Zenon
    <2> QED
        BY <1>4, <1>7, <2>2
<1> QED
    BY <1>1, <1>3, <1>4, <1>5, <1>9, <1>10, <1>11, <1>12

\* Every step keeps track of the text.
LEMMA WalkStep == RefInv /\ RefBase' /\ [Next]_vars => WalkInv'
<1> SUFFICES ASSUME RefInv, RefBase', [Next]_vars PROVE WalkInv'
    OBVIOUS
<1>t. /\ RefBase /\ WalkInv
      /\ blocks \in [Blocks -> Block] /\ NoCycle(blocks)
      /\ processed \in Seq(Chars) /\ rest \in Seq(Chars)
    BY DiskFacts DEF DiskOK, RefInv, RefBase, StructInv, LocalInv, TypeOK
<1>n. /\ blocks' \in [Blocks -> Block] /\ NoCycle(blocks')
      /\ \A i \in Slots : fmdt'[i].begining_offset # 0 =>
                             LinksApart(blocks', fmdt'[i].begining_offset)
    BY DiskFactsNext DEF DiskOK
<1>1. CASE UNCHANGED <<fmdt, blocks, pc, slot, offset, processed, rest>>
    BY <1>1, <1>t DEF WalkInv, Root, Headless
<1>2. ASSUME NEW r, Return(r) PROVE WalkInv'
    BY <1>2 DEF Return, WalkInv, Headless
<1>3. CASE pc' = "edit"
    BY <1>3 DEF WalkInv, Headless
<1>4. CASE /\ pc \in {"menu", "find", "save_entry", "remove", "wipe", "drop_entry"}
           /\ pc' \in {"reset", "find", "save_entry", "create", "remove", "wipe",
                      "drop_entry", "save_drop", "restore"}
           /\ processed' = processed
    BY <1>4, <1>t DEF WalkInv, Headless
<1>5. ASSUME NEW name \in Names, OpenFile(name) PROVE WalkInv'
    <2>1. pc' = "load" /\ processed' = <<>> /\ offset' = Root'
        BY <1>5, <1>t DEF OpenFile, WalkInv, Root, disk, Headless
    <2>2. Walk(blocks', Root', offset', {}, processed')
        BY <2>1, WalkBegins
    <2> QED
        BY <2>1, <2>2 DEF WalkInv, Headless
<1>6. CASE FileToBuffer
    <2>1. /\ pc = "load" /\ offset \in Blocks /\ LinksApart(blocks, Root)
          /\ Root' = Root /\ blocks' = blocks
          /\ offset' = blocks[offset].next_offset
          /\ processed' = processed \o blocks[offset].data
          /\ pc' \in {"load", "edit"}
        BY <1>6, <1>t, LoopFacts DEF FileToBuffer, disk, Root, Headless
    <2>2. PICK P : Walk(blocks, Root, offset, P, processed)
        BY <1>t, <2>1 DEF WalkInv
    <2>3. Walk(blocks', Root', offset', P \cup {offset}, processed')
        BY <1>t, <2>1, <2>2, WalkGoesOn
    <2> QED
        BY <2>1, <2>3 DEF WalkInv, Headless
<1>7. CASE CloseText
    <2>1. /\ pc' = IF processed = <<>> THEN "wipe" ELSE "save"
          /\ rest' = processed /\ processed' = processed
          /\ offset' = Root'
        BY <1>7 DEF CloseText, disk, Root
    <2>2. CASE processed = <<>>
        BY <2>1, <2>2 DEF WalkInv, Headless
    <2>3. CASE processed # <<>>
        <3>1. Walk(blocks', Root', offset', {}, <<>>)
            BY <2>1, WalkBegins
        <3>2. processed' = <<>> \o rest'
            BY <1>t, <2>1, ConcatEmptySeq
        <3> QED
            BY <2>1, <2>3, <3>1, <3>2 DEF WalkInv, Headless
    <2> QED
        BY <2>2, <2>3
<1>8. CASE SaveData
    <2>1. PICK P, t :
              /\ Walk(blocks', Root, offset, P, t)
              /\ Walk(blocks', Root, blocks[offset].next_offset, P \cup {offset},
                      t \o blocks'[offset].data)
              /\ processed = (t \o blocks'[offset].data) \o Remainder
        BY <1>8, SaveWalk
    <2>2. /\ pc = "save" /\ fmdt' = fmdt /\ blocks'[offset].data # <<>>
          /\ blocks'[offset].data \in Seq(Chars) /\ t \in Seq(Chars)
          /\ t \o blocks'[offset].data \in Seq(Chars)
        BY <1>8, <2>1, SaveWalk, WalkType
    <2>3. CASE Return("ok")
        BY <1>2, <2>3
    <2>4. CASE /\ Remainder = <<>> /\ pc' = "unlink"
               /\ UNCHANGED <<slot, offset, processed, reply>>
        <3>1. processed' = t \o blocks'[offset'].data /\ Root' = Root
            BY <2>1, <2>2, <2>4, ConcatEmptySeq DEF Root
        <3> QED
            BY <2>1, <2>4, <3>1 DEF WalkInv, Headless
    <2>5. CASE /\ Remainder # <<>> /\ pc' = "extend" /\ rest' = Remainder
               /\ UNCHANGED <<slot, offset, processed, reply>>
        <3>1. Root' = Root
            BY <2>2, <2>5 DEF Root
        <3> QED
            BY <2>1, <2>2, <2>5, <3>1 DEF WalkInv, Headless
    <2>6. CASE /\ Remainder # <<>> /\ rest' = Remainder
               /\ offset' = blocks[offset].next_offset
               /\ UNCHANGED <<pc, slot, processed, reply>>
        <3>1. Root' = Root
            BY <2>2, <2>6 DEF Root
        <3> QED
            BY <2>1, <2>2, <2>6, <3>1 DEF WalkInv, Headless
    <2> QED
        BY <1>8, <2>3, <2>4, <2>5, <2>6 DEF SaveData
<1>9. CASE UnlinkTail
    <2> DEFINE x == [blocks[offset] EXCEPT !.next_offset = 0]
    <2>1. /\ pc = "unlink" /\ offset \in Blocks /\ blocks[offset] \in Block
          /\ SaveBlock(x, offset) /\ LinksApart(blocks, Root)
          /\ Root' = Root /\ slot \in Slots /\ Root # 0
          /\ fmdt' = fmdt /\ slot' = slot /\ pc' = "trim" /\ processed' = processed
          /\ offset' = blocks[offset].next_offset
        BY <1>9, <1>t, LoopFacts DEF UnlinkTail, Root, Headless
    <2>2. x \in Block /\ x.next_offset = 0 /\ x.data = blocks[offset].data
        <3>1. 0 \in 0 .. AMOUNT_OF_BLOCKS_
            BY SizesAssumption
        <3> QED
            BY <2>1, <3>1, BlockShapes DEF Block
    <2> HIDE DEF x
    <2>3. \A b \in Blocks : blocks'[b] = IF b = offset THEN x ELSE blocks[b]
        BY <1>t, <2>1, <2>2, OneBlock
    <2>4. PICK P, t : /\ Walk(blocks, Root, offset, P, t)
                      /\ processed = t \o blocks[offset].data
        BY <1>t, <2>1 DEF WalkInv
    <2>5. P \in SUBSET Blocks /\ offset \notin P
        BY <2>4 DEF Walk
    <2>6. offset' \notin P \cup {offset}
        BY <1>t, <2>1, <2>4, WalkNew
    <2>7. Walk(blocks', Root, offset, P, t)
        BY <2>3, <2>4, <2>5, WalkKept
    <2>8. LinksApart(blocks', Root)
        BY <1>n, <2>1 DEF Root
    <2>9. Walk(blocks', Root, 0, P \cup {offset}, processed)
        <3>1. blocks'[offset].next_offset = 0
              /\ blocks'[offset].data = blocks[offset].data
            BY <2>1, <2>2, <2>3
        <3>2. Walk(blocks', Root, blocks'[offset].next_offset, P \cup {offset},
                   t \o blocks'[offset].data)
            BY <1>n, <2>1, <2>7, <2>8, WalkGoesOn
        <3> QED
            BY <2>4, <3>1, <3>2
    <2> QED
        BY <2>1, <2>6, <2>9 DEF WalkInv, Headless
<1>10. CASE TrimBlock /\ GoOn
    <2>1. "trim" \in ClearLoops /\ ClearTurn("trim")
        BY <1>10 DEF TrimBlock, ClearLoops
    <2>2. /\ pc = "trim" /\ offset \in Blocks /\ fmdt' = fmdt
          /\ \A b \in Blocks : b # offset => blocks'[b] = blocks[b]
        BY <1>t, <2>1, ClearedOnly
    <2>3. /\ slot' = slot /\ pc' = pc /\ processed' = processed
          /\ offset' = blocks[offset].next_offset /\ offset' # 0
          /\ Root' = Root /\ LinksApart(blocks, Root)
        BY <1>10, <1>t, <2>2, LoopFacts DEF GoOn, Root, Headless
    <2>4. PICK P : Walk(blocks, Root, 0, P, processed) /\ offset \notin P
        BY <1>t, <2>2 DEF WalkInv
    <2>5. Walk(blocks', Root, 0, P, processed)
        <3>1. P \in SUBSET Blocks
            BY <2>4 DEF Walk
        <3> QED
            BY <2>2, <2>4, <3>1, WalkKept
    <2>6. offset' \notin P
        <3>1. ASSUME offset' \in P PROVE FALSE
            <4>1. offset' # Root
                BY <2>2, <2>3 DEF LinksApart
            <4>2. PICK c \in P : blocks[c].next_offset = offset'
                BY <2>4, <3>1, <4>1 DEF Walk
            <4>3. c \in Blocks
                BY <2>4 DEF Walk
            <4>4. c = offset
                BY <2>2, <2>3, <4>2, <4>3 DEF LinksApart
            <4> QED
                BY <2>4, <4>2, <4>4
        <3> QED
            BY <3>1
    <2> QED
        BY <2>2, <2>3, <2>5, <2>6 DEF WalkInv, Headless
<1>11. CASE LinkBlock
    <2>1. PICK f \in Blocks :
              /\ SaveBlock([blocks[offset] EXCEPT !.next_offset = f], offset)
              /\ offset' = f
        BY <1>11 DEF LinkBlock
    <2> DEFINE x == [blocks[offset] EXCEPT !.next_offset = f]
    <2>2. /\ pc = "extend" /\ offset \in Blocks /\ blocks[offset] \in Block
          /\ SaveBlock(x, offset)
          /\ Root' = Root /\ slot \in Slots /\ Root # 0
          /\ fmdt' = fmdt /\ slot' = slot /\ pc' = "save"
          /\ processed' = processed /\ rest' = rest
        BY <1>11, <1>t, <2>1, LoopFacts DEF LinkBlock, Root, Headless
    <2>3. x \in Block /\ x.next_offset = f /\ x.data = blocks[offset].data
        BY <2>2, BlockShapes DEF Block, Blocks
    <2> HIDE DEF x
    <2>4. \A b \in Blocks : blocks'[b] = IF b = offset THEN x ELSE blocks[b]
        BY <1>t, <2>2, <2>3, OneBlock
    <2>5. PICK P, t : /\ Walk(blocks, Root, offset, P, t)
                      /\ processed = (t \o blocks[offset].data) \o rest
        BY <1>t, <2>2 DEF WalkInv
    <2>6. P \in SUBSET Blocks /\ offset \notin P
        BY <2>5 DEF Walk
    <2>7. Walk(blocks', Root, offset, P, t)
        BY <2>4, <2>5, <2>6, WalkKept
    <2>8. LinksApart(blocks', Root)
        BY <1>n, <2>2 DEF Root
    <2>9. blocks'[offset].next_offset = offset'
          /\ blocks'[offset].data = blocks[offset].data
        BY <2>1, <2>2, <2>3, <2>4
    <2>10. Walk(blocks', Root, blocks'[offset].next_offset, P \cup {offset},
                t \o blocks'[offset].data)
        BY <1>n, <2>2, <2>7, <2>8, WalkGoesOn
    <2>11. Walk(blocks', Root', offset', P \cup {offset}, t \o blocks[offset].data)
        BY <2>2, <2>9, <2>10
    <2>12. rest' # <<>> /\ processed' = (t \o blocks[offset].data) \o rest'
        BY <1>t, <2>2, <2>5 DEF WalkInv
    <2> QED
        BY <2>2, <2>11, <2>12 DEF WalkInv, Headless
<1>12. CASE Command
    BY <1>2, <1>4, <1>5, <1>12
    DEF Command, ResetDisk, Restart, Reload, NameInUse, NoEntryLeft, NoSuchFile, Refuse,
        CreateNewFile, RemoveFile
<1>13. CASE Edit
    BY <1>2, <1>3, <1>7, <1>13
    DEF Edit, ClearText, EraseText, AppendText, InsertText, Edited, EditThrows, Reload
<1>14. CASE Proceed
    <2>1. RemoveBlock \/ WipeBlock => WalkInv'
        BY <1>4 DEF RemoveBlock, WipeBlock, ClearTurn, GoOn, Goto
    <2>2. \/ CreateBlock \/ RestoreFirst \/ WriteEmptyDisk \/ NoBlockLeft
          \/ SaveDrop \/ DiskFull
          => WalkInv'
        BY <1>2
        DEF CreateBlock, RestoreFirst, WriteEmptyDisk, NoBlockLeft, SaveDrop, DiskFull,
            Refuse
    <2>4. FillEntry \/ SaveEntry \/ DropEntry => WalkInv'
        BY <1>4 DEF FillEntry, SaveEntry, DropEntry
    <2>5. NextProbe => WalkInv'
        BY <1>1 DEF NextProbe, disk
    <2>3. TrimBlock => WalkInv'
        BY <1>2, <1>10 DEF TrimBlock
    <2> QED
        BY <1>6, <1>8, <1>9, <1>11, <1>14, <2>1, <2>2, <2>3, <2>4, <2>5 DEF Proceed
<1> QED
    BY <1>1, <1>12, <1>13, <1>14 DEF Next, vars

\* The invariant holds at first and is kept.
LEMMA RefInit == Init => RefInv
<1> SUFFICES ASSUME Init PROVE RefInv
    OBVIOUS
<1>1. RefBase
    BY StructInit, AcyclicInit DEF Init, RefBase, UniqueNames, DiskNamesUnique, EmptyEntry
<1>2. OwnerInv
    <2> DEFINE owner == [b \in Blocks |-> 1]
    <2>1. owner \in [Blocks -> Slots]
        BY SizesAssumption DEF Slots
    <2>2. Owners(owner)
        BY DEF Init, Owners, EmptyEntry, EmptyBlock
    <2> HIDE DEF owner
    <2> QED
        BY <2>1, <2>2 DEF OwnerInv
<1>3. WalkInv
    BY DEF Init, WalkInv, Headless
<1> QED
    BY <1>1, <1>2, <1>3 DEF RefInv

\* Every step keeps all of it.
LEMMA RefStep ==
    ASSUME LongNames = {}
    PROVE  RefInv /\ [Next]_vars => RefInv'
    BY BaseStep, OwnerStep, WalkStep DEF RefInv

---------------------------------------------------------------------------
(***************************************************************************)
(* The mapping.  A name without an entry is no file, the file an operation *)
(* works on is pending, and every other file has the text of its chain.    *)
(***************************************************************************)
StoreOK ==
    \A n \in Names :
        /\ (\A i \in Slots : fmdt[i].name # n) => storeBar[n] = NoFile
        /\ Kind # "none" /\ slot \in Slots /\ fmdt[slot].name = n
              => storeBar[n] = Pending
        /\ \A i \in Slots :
              fmdt[i].name = n /\ (Kind = "none" \/ i # slot)
              => storeBar[n] = TextOf(blocks)[fmdt[i].begining_offset]

\* The mapping says so, names being unique.
LEMMA StoreFacts == RefBase => StoreOK
<1> SUFFICES ASSUME RefBase, NEW n \in Names
             PROVE  /\ (\A i \in Slots : fmdt[i].name # n) => storeBar[n] = NoFile
                    /\ Kind # "none" /\ slot \in Slots /\ fmdt[slot].name = n
                          => storeBar[n] = Pending
                    /\ \A i \in Slots :
                          fmdt[i].name = n /\ (Kind = "none" \/ i # slot)
                          => storeBar[n] = TextOf(blocks)[fmdt[i].begining_offset]
    BY DEF StoreOK
<1>1. storeBar[n] =
          IF EntryOf(n) = {} THEN NoFile
          ELSE IF Kind # "none" /\ fmdt[slot].name = n THEN Pending
          ELSE Content[fmdt[CHOOSE i \in EntryOf(n) : TRUE].begining_offset]
    BY DEF storeBar
<1>2. Content = TextOf(blocks)
    BY DEF Content, TextOf, Places
<1>3. ASSUME \A i \in Slots : fmdt[i].name # n PROVE storeBar[n] = NoFile
    <2>1. EntryOf(n) = {}
        BY <1>3 DEF EntryOf
    <2> QED
        BY <1>1, <2>1
<1>4. ASSUME Kind # "none", slot \in Slots, fmdt[slot].name = n
      PROVE  storeBar[n] = Pending
    <2>1. EntryOf(n) # {}
        BY <1>4 DEF EntryOf
    <2> QED
        BY <1>1, <1>4, <2>1
<1>5. ASSUME NEW i \in Slots, fmdt[i].name = n, Kind = "none" \/ i # slot
      PROVE  storeBar[n] = TextOf(blocks)[fmdt[i].begining_offset]
    <2>1. \A j \in Slots : fmdt[j].name = n => j = i
        BY <1>5, NameNotEmpty DEF RefBase, UniqueNames
    <2>2. EntryOf(n) = {i}
        BY <1>5, <2>1 DEF EntryOf
    <2>3. (CHOOSE j \in EntryOf(n) : TRUE) = i
        BY <2>2
    <2>4. ASSUME Kind # "none" PROVE fmdt[slot].name # n
        <3>1. slot \in Slots
            BY <2>4 DEF RefBase, StructInv, LocalInv, TypeOK, Kind
        <3> QED
            BY <1>5, <2>1, <2>4, <3>1
    <2> QED
        BY <1>1, <1>2, <2>2, <2>3, <2>4
<1> QED
    BY <1>3, <1>4, <1>5

\* So it does after a step.
LEMMA StoreFactsNext == RefBase' => StoreOK'
    BY StoreFacts, PTL

\* Stores with the same files are the same.
LEMMA StoresEqual ==
    /\ storeBar = [n \in Names |-> storeBar[n]]
    /\ storeBar' = [n \in Names |-> storeBar'[n]]
    BY DEF storeBar

\* The kind of change, by the step.
LEMMA Kinds ==
    /\ pc \in Headless \cup {"load", "edit"} => Kind = "none"
    /\ pc \in {"save_entry", "create"} => Kind = "create"
    /\ pc \in {"remove", "drop_entry"} => Kind = "remove"
    /\ pc \in {"wipe", "restore", "save", "unlink", "trim", "extend"} => Kind = "save"
    BY DEF Kind, Headless

\* The kind of change after a step.
LEMMA KindsNext ==
    /\ pc' \in Headless \cup {"load", "edit"} => Kind' = "none"
    /\ pc' \in {"save_entry", "create"} => Kind' = "create"
    /\ pc' \in {"remove", "drop_entry"} => Kind' = "remove"
    /\ pc' \in {"wipe", "restore", "save", "unlink", "trim", "extend"} => Kind' = "save"
    BY DEF Kind, Headless

\* The files the running operation does not work on.
OthersKept ==
    \A i \in Slots :
        i # slot /\ fmdt[i].begining_offset # 0
        => TextOf(blocks')[fmdt[i].begining_offset]
           = TextOf(blocks)[fmdt[i].begining_offset]

\* A write to the block of the loop, or to the first block of its file, is read
\* by no other file.
LEMMA OthersKeep ==
    ASSUME RefInv, RefBase', NEW at \in Blocks, slot \in Slots,
           at = offset \/ at = Root,
           \A b \in Blocks : b # at => blocks'[b] = blocks[b]
    PROVE  OthersKept
<1> SUFFICES ASSUME NEW i \in Slots, i # slot, fmdt[i].begining_offset # 0
             PROVE  TextOf(blocks')[fmdt[i].begining_offset]
                    = TextOf(blocks)[fmdt[i].begining_offset]
    BY DEF OthersKept
<1>1. /\ blocks \in [Blocks -> Block] /\ NoCycle(blocks)
      /\ blocks' \in [Blocks -> Block] /\ NoCycle(blocks')
      /\ fmdt[i].begining_offset \in Blocks
    BY DiskFacts, DiskFactsNext DEF RefInv, DiskOK
<1>2. PICK owner \in [Blocks -> Slots] : Owners(owner)
    BY DEF RefInv, OwnerInv
<1> DEFINE C == {b \in Blocks : owner[b] = i}
<1>3. at \notin C
    BY <1>2, PlacesOfBlocks DEF Owners, Root
<1>4. fmdt[i].begining_offset \in C
    BY <1>1, <1>2 DEF Owners
<1>5. ASSUME NEW b \in C
      PROVE  blocks[b] = blocks'[b] /\ blocks[b].next_offset \in C \cup {0}
    <2>1. blocks[b].next_offset \in Blocks \cup {0}
        BY <1>1, PlacesOfBlocks
    <2> QED
        BY <1>2, <1>3, <2>1 DEF Owners
<1> HIDE DEF C
<1>6. C \in SUBSET Blocks
    BY DEF C
<1> QED
    BY <1>1, <1>4, <1>5, <1>6, SameTexts

---------------------------------------------------------------------------
(***************************************************************************)
(* What a step of the emulator is to the store, by what it does to the     *)
(* disk.                                                                   *)
(***************************************************************************)

\* An entry with a name leads to a block, and the one worked on has a name.
LEMMA NamedEntries ==
    ASSUME RefBase
    PROVE  /\ \A i \in Slots : /\ fmdt[i].name \in Names \cup {NoName}
                               /\ fmdt[i].name \in Names
                                     <=> fmdt[i].begining_offset # 0
           /\ pc \notin Headless => slot \in Slots /\ fmdt[slot].name \in Names
<1>1. LocalInv
    BY DEF RefBase, StructInv
<1>2. ASSUME NEW i \in Slots
      PROVE  /\ fmdt[i].name \in Names \cup {NoName}
             /\ fmdt[i].name \in Names <=> fmdt[i].begining_offset # 0
    <2>1. fmdt[i].name \in Names \cup {NoName}
        BY <1>1 DEF LocalInv, TypeOK, FileMetaDataTableField
    <2> QED
        BY <1>1, <2>1, NameNotEmpty DEF LocalInv, EntriesNamed
<1>3. pc \notin Headless => slot \in Slots /\ Root # 0
    BY LoopFacts
<1> QED
    BY <1>2, <1>3 DEF Root

\* Nothing is written and no change is being made: the store stays.
LEMMA StoreKept ==
    ASSUME RefBase, RefBase', UNCHANGED <<fmdt, blocks>>, Kind = "none", Kind' = "none"
    PROVE  storeBar' = storeBar /\ opBar = Store!NoOp /\ opBar' = Store!NoOp
<1>1. opBar = Store!NoOp /\ opBar' = Store!NoOp
    BY DEF opBar, Store!NoOp
<1>2. ASSUME NEW n \in Names PROVE storeBar'[n] = storeBar[n]
    <2>1. CASE \A i \in Slots : fmdt[i].name # n
        BY <2>1, StoreFacts, StoreFactsNext DEF StoreOK
    <2>2. ASSUME NEW i \in Slots, fmdt[i].name = n PROVE storeBar'[n] = storeBar[n]
        <3>1. storeBar[n] = TextOf(blocks)[fmdt[i].begining_offset]
            BY <2>2, StoreFacts DEF StoreOK
        <3>2. storeBar'[n] = TextOf(blocks')[fmdt'[i].begining_offset]
            BY <2>2, StoreFactsNext DEF StoreOK
        <3> QED
            BY <3>1, <3>2
    <2> QED
        BY <2>1, <2>2
<1>3. storeBar' = storeBar
    BY <1>2, StoresEqual
<1> QED
    BY <1>1, <1>3

\* In the middle of a change only its own file is touched: nothing to be seen.
LEMMA StoreStutters ==
    ASSUME RefBase, RefBase', Kind # "none", Kind' = Kind, slot \in Slots,
           UNCHANGED <<fmdt, slot, processed, reply>>, pc # "edit", pc' # "edit",
           OthersKept
    PROVE  UNCHANGED Store!vars
<1>1. opBar' = opBar /\ editorBar' = editorBar
    BY DEF opBar, editorBar
<1>2. ASSUME NEW n \in Names PROVE storeBar'[n] = storeBar[n]
    <2>1. CASE \A i \in Slots : fmdt[i].name # n
        BY <2>1, StoreFacts, StoreFactsNext DEF StoreOK
    <2>2. CASE fmdt[slot].name = n
        BY <2>2, StoreFacts, StoreFactsNext DEF StoreOK
    <2>3. ASSUME NEW i \in Slots, i # slot, fmdt[i].name = n
          PROVE  storeBar'[n] = storeBar[n]
        <3>1. storeBar[n] = TextOf(blocks)[fmdt[i].begining_offset]
            BY <2>3, StoreFacts DEF StoreOK
        <3>2. storeBar'[n] = TextOf(blocks')[fmdt'[i].begining_offset]
            BY <2>3, StoreFactsNext DEF StoreOK
        <3>3. fmdt[i].begining_offset # 0
            BY <2>3, NamedEntries
        <3> QED
            BY <2>3, <3>1, <3>2, <3>3 DEF OthersKept
    <2> QED
        BY <2>1, <2>2, <2>3
<1>3. storeBar' = storeBar
    BY <1>2, StoresEqual
<1> QED
    BY <1>1, <1>3 DEF Store!vars

\* The last write of a change: its file has the text of its chain again.
LEMMA StoreEnds ==
    ASSUME RefBase, RefBase', Kind # "none", slot \in Slots, pc \notin {"menu", "edit"},
           pc' = "menu", fmdt' = fmdt, OthersKept,
           NEW t, TextOf(blocks')[Root] = t
    PROVE  Store!End(t, reply')
<1>1. opBar.name = fmdt[slot].name /\ opBar.name \in Names
    <2>1. pc \notin Headless
        BY Kinds
    <2> QED
        BY <2>1, NamedEntries DEF opBar
<1>2. Kind' = "none" /\ opBar' = Store!NoOp
    BY KindsNext DEF opBar, Store!NoOp, Headless
<1>3. editorBar' = editorBar
    BY DEF editorBar
<1> DEFINE s == [storeBar EXCEPT ![opBar.name] = t]
<1>4. s = [n \in Names |-> IF n = opBar.name THEN t ELSE storeBar[n]]
    BY <1>1, StoresEqual
<1> HIDE DEF s
<1>5. ASSUME NEW n \in Names PROVE storeBar'[n] = s[n]
    <2>1. CASE \A i \in Slots : fmdt[i].name # n
        <3>1. n # opBar.name
            BY <1>1, <2>1
        <3> QED
            BY <1>4, <2>1, <3>1, StoreFacts, StoreFactsNext DEF StoreOK
    <2>2. ASSUME NEW i \in Slots, fmdt[i].name = n PROVE storeBar'[n] = s[n]
        <3>1. storeBar'[n] = TextOf(blocks')[fmdt'[i].begining_offset]
            BY <1>2, <2>2, StoreFactsNext DEF StoreOK
        <3>2. CASE i = slot
            BY <1>1, <1>4, <2>2, <3>1, <3>2 DEF Root
        <3>3. CASE i # slot
            <4>1. n # opBar.name
                BY <1>1, <2>2, <3>3, NameNotEmpty DEF RefBase, UniqueNames
            <4>2. storeBar[n] = TextOf(blocks)[fmdt[i].begining_offset]
                BY <2>2, <3>3, StoreFacts DEF StoreOK
            <4>3. fmdt[i].begining_offset # 0
                BY <2>2, NamedEntries
            <4> QED
                BY <1>4, <3>1, <3>3, <4>1, <4>2, <4>3 DEF OthersKept
        <3> QED
            BY <3>2, <3>3
    <2> QED
        BY <2>1, <2>2
<1>6. s = [n \in Names |-> s[n]]
    BY <1>4
<1>7. storeBar' = s
    BY <1>5, <1>6, StoresEqual
<1> QED
    BY <1>2, <1>3, <1>7 DEF Store!End, s

\* The first step of a change: the file becomes pending, the disk, but for the
\* entry, does not change.
LEMMA StoreBegins ==
    ASSUME RefBase, RefBase', Kind = "none", Kind' # "none", slot' \in Slots,
           pc' # "edit", blocks' = blocks, reply' = reply,
           \A i \in Slots : i # slot' => fmdt'[i] = fmdt[i],
           NEW n \in Names, fmdt'[slot'].name = n,
           fmdt[slot'].name \in {n, NoName}
    PROVE  Store!Begin(Kind', n, processed')
<1>1. opBar' = [kind |-> Kind', name |-> n, text |-> processed']
    BY DEF opBar
<1>2. editorBar' = Store!Closed
    BY DEF editorBar, Store!Closed
<1> DEFINE s == [storeBar EXCEPT ![n] = Pending]
<1>3. s = [m \in Names |-> IF m = n THEN Pending ELSE storeBar[m]]
    BY StoresEqual
<1> HIDE DEF s
<1>4. ASSUME NEW m \in Names PROVE storeBar'[m] = s[m]
    <2>1. CASE m = n
        BY <1>3, <2>1, StoreFactsNext DEF StoreOK
    <2>2. CASE m # n /\ \A i \in Slots : fmdt'[i].name # m
        <3>1. \A i \in Slots : fmdt[i].name # m
            BY <2>2, NameNotEmpty
        <3> QED
            BY <1>3, <2>2, <3>1, StoreFacts, StoreFactsNext DEF StoreOK
    <2>3. ASSUME m # n, NEW i \in Slots, fmdt'[i].name = m PROVE storeBar'[m] = s[m]
        <3>1. i # slot' /\ fmdt'[i] = fmdt[i]
            BY <2>3
        <3>2. storeBar'[m] = TextOf(blocks')[fmdt'[i].begining_offset]
            BY <2>3, <3>1, StoreFactsNext DEF StoreOK
        <3>3. storeBar[m] = TextOf(blocks)[fmdt[i].begining_offset]
            BY <2>3, <3>1, StoreFacts DEF StoreOK
        <3> QED
            BY <1>3, <2>3, <3>1, <3>2, <3>3
    <2> QED
        BY <2>1, <2>2, <2>3
<1>5. s = [m \in Names |-> s[m]]
    BY <1>3
<1>6. storeBar' = s
    BY <1>4, <1>5, StoresEqual
<1> QED
    BY <1>1, <1>2, <1>6 DEF Store!Begin, s

---------------------------------------------------------------------------
\* Between the changes, with no text in the editor.
LEMMA AtMenu ==
    pc \in Headless \cup {"load"} => Kind = "none" /\ Store!AtMenu
<1> SUFFICES ASSUME pc \in Headless \cup {"load"} PROVE Kind = "none" /\ Store!AtMenu
    OBVIOUS
<1>1. Kind = "none" /\ pc # "edit"
    BY Kinds DEF Headless
<1> QED
    BY <1>1 DEF Store!AtMenu, Store!NoOp, Store!Closed, opBar, editorBar

\* A file with an entry is in the store, and only such a file is.
LEMMA InStore ==
    ASSUME RefBase, Kind = "none", NoFile \notin Seq(Chars), NEW n \in Names
    PROVE  storeBar[n] # NoFile <=> \E i \in Slots : fmdt[i].name = n
<1>1. ASSUME NEW i \in Slots, fmdt[i].name = n PROVE storeBar[n] # NoFile
    <2>1. storeBar[n] = TextOf(blocks)[fmdt[i].begining_offset]
        BY <1>1, StoreFacts DEF StoreOK
    <2>2. fmdt[i].begining_offset \in Places
        BY <1>1, NamedEntries, DiskFacts, PlacesOfBlocks DEF DiskOK
    <2>3. TextOf(blocks)[fmdt[i].begining_offset] \in Seq(Chars)
        <3>1. Reads(blocks, Places, TextOf(blocks))
            BY DiskFacts, TextOfReads DEF DiskOK
        <3> QED
            BY <2>2, <3>1 DEF Reads
    <2> QED
        BY <2>1, <2>3
<1>2. (\A i \in Slots : fmdt[i].name # n) => storeBar[n] = NoFile
    BY StoreFacts DEF StoreOK
<1> QED
    BY <1>1, <1>2

\* A command is turned down, begins a change, or only starts to read a file.
LEMMA CommandImplements ==
    ASSUME LongNames = {}, NoFile \notin Seq(Chars), RefInv, RefInv', Command
    PROVE  Store!Next \/ UNCHANGED Store!vars
<1>1. /\ RefBase /\ RefBase' /\ processed \in Seq(Chars)
      /\ fmdt \in [Slots -> FileMetaDataTableField]
    BY DEF RefInv, RefBase, StructInv, LocalInv, TypeOK
<1>2. pc = "menu" /\ Kind = "none" /\ Store!AtMenu /\ processed = <<>>
    BY AtMenu
    DEF Command, ResetDisk, Restart, NameInUse, NoEntryLeft, CreateNewFile, NoSuchFile,
        RemoveFile, OpenFile, RefInv, WalkInv, Headless
<1>t. fmdt = disk_fmdt
    BY <1>1, <1>2, TablesAgree DEF RefBase, StructInv, Unwritten
<1>3. opBar = Store!NoOp /\ editorBar = Store!Closed
    BY <1>2 DEF Store!AtMenu
<1>4. ASSUME UNCHANGED <<fmdt, blocks>>, pc' \in {"menu", "find", "load"}
      PROVE  UNCHANGED <<storeBar, opBar, editorBar>>
    <2>1. Kind' = "none" /\ editorBar' = Store!Closed
        BY <1>4, KindsNext DEF editorBar, Store!Closed, Headless
    <2>2. storeBar' = storeBar /\ opBar' = Store!NoOp
        BY <1>1, <1>2, <1>4, <2>1, StoreKept
    <2> QED
        BY <1>3, <2>1, <2>2
<1>5. ASSUME NEW r, Refuse(r) PROVE Store!Refuse(r)
    BY <1>2, <1>4, <1>5 DEF Refuse, Return, disk, Store!Refuse
<1>6. CASE ResetDisk
    <2>1. /\ \A i \in Slots : fmdt'[i].name = NoName
          /\ pc' = "reset" /\ reply' = "ok"
        BY <1>6 DEF ResetDisk, EmptyEntry
    <2>2. \A n \in Names : storeBar'[n] = NoFile
        BY <1>1, <2>1, NameNotEmpty, StoreFactsNext DEF StoreOK
    <2>3. storeBar' = [n \in Names |-> NoFile]
        BY <2>2, StoresEqual
    <2>4. opBar' = Store!NoOp /\ editorBar' = Store!Closed
        <3>1. Kind' = "none"
            BY <2>1, KindsNext DEF Headless
        <3> QED
            BY <2>1, <3>1 DEF opBar, editorBar, Store!NoOp, Store!Closed
    <2>5. Store!Reset
        BY <1>2, <1>3, <2>1, <2>3, <2>4 DEF Store!Reset
    <2> QED
        BY <2>5 DEF Store!Next
<1>7. CASE Restart
    <2>1. UNCHANGED <<fmdt, blocks>> /\ pc' = "menu" /\ reply' = "ok"
        BY <1>t, <1>7 DEF Restart, Reload, Return, disk
    <2>2. Store!Refuse("ok")
        BY <1>2, <1>4, <2>1 DEF Store!Refuse
    <2> QED
        BY <2>2 DEF Store!Next
<1>8. ASSUME NEW name \in Names, NameInUse(name) PROVE Store!Next
    <2>1. storeBar[name] # NoFile
        BY <1>1, <1>2, <1>8, InStore DEF NameInUse, Matches
    <2>2. Store!Refuse("in_use")
        BY <1>5, <1>8 DEF NameInUse
    <2> QED
        BY <2>1, <2>2 DEF Store!Next, Store!RefuseName
<1>9. ASSUME NEW name \in Names, \A i \in Slots : ~ Matches(i, name)
      PROVE  storeBar[name] = NoFile
    BY <1>1, <1>2, <1>9, InStore DEF Matches
<1>10. ASSUME NEW name \in Names, NoEntryLeft(name) PROVE Store!Next
    <2>1. storeBar[name] = NoFile /\ Store!Refuse("max_files")
        BY <1>5, <1>9, <1>10 DEF NoEntryLeft
    <2> QED
        BY <2>1 DEF Store!Next, Store!RefuseName
<1>11. ASSUME NEW name \in Names, NoSuchFile(name) PROVE Store!Next
    <2>1. storeBar[name] = NoFile /\ Store!Refuse("incorrect_name")
        BY <1>5, <1>9, <1>11 DEF NoSuchFile
    <2> QED
        BY <2>1 DEF Store!Next, Store!RefuseName
<1>12. ASSUME NEW name \in Names, CreateNewFile(name) PROVE UNCHANGED Store!vars
    <2>1. UNCHANGED <<fmdt, blocks>> /\ reply' = reply /\ pc' = "find"
        BY <1>12 DEF CreateNewFile, disk
    <2> QED
        BY <1>4, <2>1 DEF Store!vars
<1>13. ASSUME NEW name \in Names, RemoveFile(name) PROVE Store!Next
    <2>1. PICK i \in Slots : fmdt[i].name = name /\ slot' = i
        BY <1>13 DEF RemoveFile, FirstMatch, Matches
    <2>2. /\ fmdt' = fmdt /\ blocks' = blocks /\ reply' = reply /\ pc' = "remove"
          /\ processed' = <<>> /\ Kind' = "remove"
        BY <1>2, <1>13, KindsNext DEF RemoveFile, disk
    <2>3. Store!Begin(Kind', name, processed')
        BY <1>1, <1>2, <2>1, <2>2, StoreBegins
    <2>4. storeBar[name] # NoFile
        BY <1>1, <1>2, <2>1, InStore
    <2>5. Store!Remove(name)
        BY <1>2, <2>2, <2>3, <2>4 DEF Store!Remove
    <2> QED
        BY <2>5 DEF Store!Next
<1>14. ASSUME NEW name \in Names, OpenFile(name) PROVE UNCHANGED Store!vars
    <2>1. UNCHANGED <<fmdt, blocks>> /\ reply' = reply /\ pc' = "load"
        BY <1>14 DEF OpenFile, disk
    <2> QED
        BY <1>4, <2>1 DEF Store!vars
<1> QED
    BY <1>6, <1>7, <1>8, <1>10, <1>11, <1>12, <1>13, <1>14 DEF Command

\* The editor changes its text, hands it over, or ends with the process.
LEMMA EditImplements ==
    ASSUME RefInv, RefInv', Edit
    PROVE  Store!Next
<1>1. /\ RefBase /\ RefBase' /\ processed' \in Seq(Chars)
    BY DEF RefInv, RefBase, StructInv, LocalInv, TypeOK
<1>2. pc = "edit" /\ Kind = "none" /\ slot \in Slots /\ fmdt[slot].name \in Names
    <2>1. pc = "edit"
        BY DEF Edit, ClearText, EraseText, AppendText, InsertText, Edited, EditThrows,
               CloseText
    <2> QED
        BY <1>1, <2>1, Kinds, NamedEntries DEF Headless
<1>t. fmdt = disk_fmdt
    BY <1>1, <1>2, TablesAgree DEF RefBase, StructInv, Unwritten
<1>3. editorBar = [name |-> fmdt[slot].name, text |-> processed]
      /\ editorBar # Store!Closed
    <2>1. fmdt[slot].name # ""
        BY <1>2, NamesAssumption
    <2> QED
        BY <1>2, <2>1 DEF editorBar, Store!Closed
<1>4. ASSUME NEW text, Edited(text) PROVE Store!Edit
    <2>1. UNCHANGED <<fmdt, blocks, slot, reply>> /\ pc' = "edit" /\ Kind' = "none"
        BY <1>2, <1>4, KindsNext DEF Edited, disk
    <2>2. storeBar' = storeBar /\ opBar' = opBar
        BY <1>1, <1>2, <2>1, StoreKept
    <2>3. editorBar' = [name |-> fmdt[slot].name, text |-> processed']
        BY <2>1 DEF editorBar
    <2>4. editorBar'.text = processed'
          /\ [editorBar EXCEPT !.text = processed'] = editorBar'
        BY <1>3, <2>3
    <2> QED
        BY <1>1, <1>3, <2>1, <2>2, <2>4 DEF Store!Edit
<1>5. CASE EditThrows
    <2>1. UNCHANGED <<fmdt, blocks>> /\ pc' = "menu" /\ reply' = "ok" /\ Kind' = "none"
        BY <1>t, <1>5, KindsNext DEF EditThrows, Reload, Return, disk, Headless
    <2>2. storeBar' = storeBar /\ opBar' = opBar
        BY <1>1, <1>2, <2>1, StoreKept
    <2>3. editorBar' = Store!Closed
        BY <2>1 DEF editorBar, Store!Closed
    <2> QED
        BY <1>3, <2>1, <2>2, <2>3 DEF Store!Abandon, Store!Next
<1>6. CASE CloseText
    <2>1. /\ UNCHANGED <<fmdt, blocks, slot, processed, reply>>
          /\ pc' \in {"wipe", "save"} /\ Kind' = "save"
        BY <1>6, KindsNext DEF CloseText, disk
    <2>2. Store!Begin(Kind', fmdt[slot].name, processed')
        BY <1>1, <1>2, <2>1, StoreBegins
    <2>3. Store!Begin("save", editorBar.name, editorBar.text)
        BY <1>3, <2>1, <2>2
    <2> QED
        BY <1>3, <2>3 DEF Store!Save, Store!Next
<1> QED
    BY <1>4, <1>5, <1>6
    DEF Edit, ClearText, EraseText, AppendText, InsertText, Store!Next

\* An entry whose first block CreateNewFile or OpenFile has just marked busy reads
\* empty.
LEMMA FirstBlockText ==
    ASSUME RefBase', Root \in Blocks, blocks'[Root] = FirstBlock
    PROVE  TextOf(blocks')[Root] = <<>>
<1>1. Reads(blocks', Places, TextOf(blocks'))
    BY DiskFactsNext, TextOfReads DEF DiskOK
<1>2. Root \in Places \ {0}
    BY PlacesOfBlocks
<1>3. blocks'[Root].next_offset = 0 /\ blocks'[Root].data = <<>>
    BY DEF FirstBlock
<1>4. TextOf(blocks')[Root] = <<>> \o TextOf(blocks')[0] /\ TextOf(blocks')[0] = <<>>
    BY <1>1, <1>2, <1>3 DEF Reads
<1>5. <<>> \o <<>> = <<>>
    BY EmptySeq, ConcatEmptySeq
<1> QED
    BY <1>4, <1>5

\* What was written before the disk was full is a prefix of the text.
LEMMA Prefix ==
    ASSUME NEW t \in Seq(Chars), NEW d \in Seq(Chars), NEW r \in Seq(Chars),
           d # <<>>, r # <<>>
    PROVE  \E k \in 1 .. (Len((t \o d) \o r) - 1) :
              t \o d = SubSeq((t \o d) \o r, 1, k)
<1> DEFINE u == t \o d
<1>1. u \in Seq(Chars) /\ Len(u) = Len(t) + Len(d)
    BY ConcatProperties
<1>2. Len(t) \in Nat /\ Len(d) \in Nat \ {0} /\ Len(r) \in Nat \ {0}
    BY LenProperties, EmptySeq
<1> HIDE DEF u
<1>3. Len(u) \in 1 .. Len(u) /\ 1 \in 1 .. Len(u)
    BY <1>1, <1>2
<1>4. u \o r \in Seq(Chars) /\ Len(u \o r) = Len(u) + Len(r)
    BY <1>1, ConcatProperties
<1>5. SubSeq(u \o r, 1, Len(u)) = SubSeq(u, 1, Len(u))
    BY <1>1, <1>3, SubSeqOfConcat1
<1>6. SubSeq(u, 1, Len(u)) = u
    BY <1>1, SubSeqFull
<1>7. Len(u) \in 1 .. (Len(u \o r) - 1)
    BY <1>1, <1>2, <1>4
<1> QED
    BY <1>5, <1>6, <1>7 DEF u

\* A write of the running operation stutters or is the last of its change, which
\* leaves what the change was to leave.
LEMMA ProceedImplements ==
    ASSUME LongNames = {}, NoFile \notin Seq(Chars), RefInv, RefInv', Proceed
    PROVE  Store!Next \/ UNCHANGED Store!vars
<1>1. RefBase /\ RefBase' /\ OwnerInv /\ WalkInv
    BY DEF RefInv
<1>2. /\ blocks \in [Blocks -> Block] /\ NoCycle(blocks)
      /\ blocks' \in [Blocks -> Block] /\ NoCycle(blocks')
      /\ fmdt \in [Slots -> FileMetaDataTableField]
    BY <1>1, DiskFacts, DiskFactsNext DEF DiskOK, RefBase, StructInv, LocalInv, TypeOK
<1>3. /\ pc # "edit"
      /\ pc \notin Headless => slot \in Slots /\ Root \in Blocks /\ Root # 0
    <2>1. pc # "edit"
        BY DEF Proceed, WriteEmptyDisk, NextProbe, Searches, NoBlockLeft, FillEntry,
               SaveEntry, CreateBlock, RemoveBlock, DropEntry, SaveDrop, FileToBuffer,
               WipeBlock, RestoreFirst, SaveData, UnlinkTail, TrimBlock, LinkBlock,
               DiskFull, ClearTurn
    <2> QED
        BY <1>1, <2>1, LoopFacts
<1>m. pc = "menu" => FALSE
    BY DEF Proceed, WriteEmptyDisk, NextProbe, Searches, NoBlockLeft, FillEntry,
           SaveEntry, CreateBlock, RemoveBlock, DropEntry, SaveDrop, FileToBuffer,
           WipeBlock, RestoreFirst, SaveData, UnlinkTail, TrimBlock, LinkBlock,
           DiskFull, ClearTurn
\* Steps at which nothing is to be seen of the files, and none is changed.
<1>q. ASSUME UNCHANGED <<fmdt, blocks, reply>>, Kind = "none", Kind' = "none",
             pc' # "edit"
      PROVE  UNCHANGED Store!vars
    <2>1. editorBar' = editorBar
        BY <1>3, <1>q DEF editorBar
    <2> QED
        BY <1>1, <1>q, <2>1, StoreKept DEF Store!vars
<1>14. ASSUME FillEntry PROVE Store!Next
    <2>1. PICK f \in Blocks :
              fmdt' = [fmdt EXCEPT ![slot] =
                          [name |-> new_file_name, begining_offset |-> f]]
        BY <1>14 DEF FillEntry
    <2> DEFINE name == new_file_name
    <2>2. /\ pc = "find" /\ pc' = "save_entry" /\ blocks' = blocks /\ reply' = reply
          /\ slot' = slot /\ processed' = processed
        BY <1>14 DEF FillEntry, disk
    <2>3. /\ slot \in Slots /\ name \in Names /\ fmdt[slot].begining_offset = 0
          /\ \A i \in Slots : ~ Matches(i, name)
        BY <1>1, <2>2 DEF RefBase, StructInv, LocalInv, TypeOK, StepInv
    <2>4. /\ fmdt'[slot].name = name /\ fmdt[slot].name = NoName
          /\ \A j \in Slots : j # slot => fmdt'[j] = fmdt[j]
        <3>1. fmdt[slot].name = NoName
            BY <1>1, <2>3, NamedEntries
        <3> QED
            BY <1>2, <2>1, <2>3, <3>1
    <2>5. Kind = "none" /\ Kind' = "create" /\ Store!AtMenu /\ processed' = <<>>
        BY <1>1, <2>2, KindsNext, AtMenu DEF WalkInv, Headless
    <2>6. Store!Begin(Kind', name, processed')
        BY <1>1, <2>2, <2>3, <2>4, <2>5, StoreBegins
    <2>7. storeBar[name] = NoFile
        BY <1>1, <2>3, <2>5, InStore DEF Matches
    <2> HIDE DEF name
    <2>8. Store!Create(name)
        BY <2>5, <2>6, <2>7 DEF Store!Create
    <2> QED
        BY <2>3, <2>8 DEF Store!Next
<1>15. ASSUME NoBlockLeft PROVE Store!Next
    <2>1. /\ pc = "find" /\ pc' = "menu" /\ blocks' = blocks /\ reply' = "max_files"
          /\ fmdt' = [fmdt EXCEPT ![slot].begining_offset = 0]
        BY <1>15 DEF NoBlockLeft, Return, disk
    <2>2. /\ slot \in Slots /\ new_file_name \in Names
          /\ fmdt[slot].begining_offset = 0
          /\ \A i \in Slots : ~ Matches(i, new_file_name)
        BY <1>1, <2>1 DEF RefBase, StructInv, LocalInv, TypeOK, StepInv
    <2>3. fmdt' = fmdt
        BY <1>2, <2>1, <2>2 DEF FileMetaDataTableField
    <2>4. Kind = "none" /\ Kind' = "none" /\ Store!AtMenu
        BY <2>1, KindsNext, AtMenu DEF Headless
    <2>5. storeBar[new_file_name] = NoFile
        BY <1>1, <2>2, <2>4, InStore DEF Matches
    <2>6. UNCHANGED <<storeBar, opBar, editorBar>>
        <3>1. editorBar' = editorBar
            BY <2>1 DEF editorBar
        <3> QED
            BY <1>1, <2>1, <2>3, <2>4, <3>1, StoreKept
    <2>7. Store!Refuse("max_files")
        BY <2>1, <2>4, <2>6 DEF Store!Refuse
    <2> QED
        BY <2>2, <2>5, <2>7 DEF Store!Next, Store!RefuseName
<1>16. ASSUME SaveDrop PROVE Store!Next
    <2>1. /\ pc = "save_drop" /\ pc' = "menu" /\ reply' = "ok"
          /\ UNCHANGED <<fmdt, blocks>>
        BY <1>16 DEF SaveDrop, SaveFMDT, Return
    <2>2. Kind = "none" /\ Kind' = "none" /\ Store!AtMenu
        BY <2>1, KindsNext, AtMenu DEF Headless
    <2>3. UNCHANGED <<storeBar, opBar, editorBar>>
        <3>1. editorBar' = editorBar
            BY <2>1 DEF editorBar
        <3> QED
            BY <1>1, <2>1, <2>2, <3>1, StoreKept
    <2>4. Store!Refuse("ok")
        BY <2>1, <2>2, <2>3 DEF Store!Refuse
    <2> QED
        BY <2>4 DEF Store!Next
<1>17. ASSUME WriteEmptyDisk PROVE Store!Next
    <2>1. /\ pc = "reset" /\ pc' = "menu" /\ reply' = "ok" /\ fmdt' = fmdt
          /\ \A i \in Slots : fmdt[i].name = NoName
        BY <1>1, <1>17
        DEF WriteEmptyDisk, Return, RefBase, StructInv, LocalInv, StepInv, EmptyEntry
    <2>2. Kind = "none" /\ Kind' = "none" /\ Store!AtMenu
        BY <2>1, KindsNext, AtMenu DEF Headless
    <2>3. \A n \in Names : storeBar'[n] = storeBar[n]
        BY <1>1, <2>1, NameNotEmpty, StoreFacts, StoreFactsNext DEF StoreOK
    <2>4. storeBar' = storeBar
        BY <2>3, StoresEqual
    <2>5. opBar' = opBar /\ editorBar' = editorBar
        BY <2>1, <2>2 DEF opBar, editorBar
    <2>6. Store!Refuse("ok")
        BY <2>1, <2>2, <2>4, <2>5 DEF Store!Refuse
    <2> QED
        BY <2>6 DEF Store!Next
<1>18. ASSUME NextProbe PROVE UNCHANGED Store!vars
    <2>1. /\ pc \in {"find", "extend"} /\ pc' = pc
          /\ UNCHANGED <<fmdt, blocks, slot, processed, reply>>
        BY <1>18 DEF NextProbe, Searches, disk
    <2>2. CASE pc = "find"
        BY <1>q, <2>1, <2>2, Kinds, KindsNext DEF Headless
    <2>3. CASE pc = "extend"
        <3>1. Kind = "save" /\ Kind' = "save" /\ slot \in Slots /\ OthersKept
            BY <1>3, <2>1, <2>3, Kinds, KindsNext DEF Headless, OthersKept
        <3> QED
            BY <1>1, <2>1, <2>3, <3>1, StoreStutters
    <2> QED
        BY <2>1, <2>2, <2>3
<1>19. ASSUME SaveEntry PROVE UNCHANGED Store!vars
    <2>1. /\ pc = "save_entry" /\ pc' = "create"
          /\ UNCHANGED <<fmdt, blocks, slot, processed, reply>>
        BY <1>19 DEF SaveEntry, SaveFMDT
    <2>2. Kind = "create" /\ Kind' = "create" /\ slot \in Slots /\ OthersKept
        BY <1>3, <2>1, Kinds, KindsNext DEF Headless, OthersKept
    <2> QED
        BY <1>1, <2>1, <2>2, StoreStutters
<1>4. ASSUME CreateBlock \/ RestoreFirst PROVE Store!Next
    <2>1. /\ SaveBlock(FirstBlock, Root) /\ fmdt' = fmdt /\ pc' = "menu" /\ reply' = "ok"
          /\ pc \in {"create", "restore"}
        BY <1>4 DEF CreateBlock, RestoreFirst, Return, Root
    <2>h. slot \in Slots /\ Root \in Blocks
        BY <1>3, <2>1 DEF Headless
    <2>2. \A b \in Blocks : blocks'[b] = IF b = Root THEN FirstBlock ELSE blocks[b]
        BY <1>1, <1>3, <2>h, <2>1, BlockShapes, OneBlock
    <2>3. OthersKept
        BY <1>1, <1>3, <2>h, <2>2, OthersKeep
    <2>4. TextOf(blocks')[Root] = <<>>
        BY <1>1, <1>3, <2>h, <2>2, FirstBlockText
    <2>5. Store!End(<<>>, "ok") /\ opBar.kind = Kind /\ opBar.text = <<>>
        <3>1. Kind # "none" /\ processed = <<>>
            BY <1>1, <2>1, Kinds DEF WalkInv
        <3>2. Store!End(<<>>, reply')
            BY <1>1, <1>3, <2>h, <2>1, <2>3, <2>4, <3>1, StoreEnds
        <3> QED
            BY <2>1, <3>1, <3>2 DEF opBar
    <2>6. Kind \in {"create", "save"}
        BY <2>1, Kinds
    <2> QED
        BY <2>5, <2>6 DEF Store!Finish, Store!Next
<1>5. ASSUME DropEntry PROVE Store!Next
    <2>1. /\ pc = "drop_entry" /\ Kind = "remove" /\ pc' = "save_drop" /\ reply' = "ok"
          /\ Kind' = "none" /\ blocks' = blocks
        BY <1>5, Kinds, KindsNext DEF DropEntry, disk, Headless
    <2>h. slot \in Slots /\ Root \in Blocks
        BY <1>3, <2>1 DEF Headless
    <2>2. /\ fmdt'[slot].name = NoName
          /\ \A j \in Slots : j # slot => fmdt'[j] = fmdt[j]
        BY <1>2, <1>3, <2>h, <1>5 DEF DropEntry, EmptyEntry
    <2>3. opBar.name = fmdt[slot].name /\ opBar.name \in Names /\ opBar.kind = "remove"
        BY <1>1, <2>h, <2>1, NamedEntries DEF opBar, Headless
    <2> DEFINE s == [storeBar EXCEPT ![opBar.name] = NoFile]
    <2>4. s = [n \in Names |-> IF n = opBar.name THEN NoFile ELSE storeBar[n]]
        BY <2>3, StoresEqual
    <2> HIDE DEF s
    <2>5. ASSUME NEW n \in Names PROVE storeBar'[n] = s[n]
        <3>1. CASE \A i \in Slots : fmdt'[i].name # n
            <4>1. storeBar'[n] = NoFile
                BY <1>1, <3>1, StoreFactsNext DEF StoreOK
            <4>2. n # opBar.name => storeBar[n] = NoFile
                BY <1>1, <2>2, <2>3, <3>1, StoreFacts DEF StoreOK
            <4> QED
                BY <2>4, <4>1, <4>2
        <3>2. ASSUME NEW i \in Slots, fmdt'[i].name = n PROVE storeBar'[n] = s[n]
            <4>1. i # slot /\ fmdt'[i] = fmdt[i]
                BY <2>2, <3>2, NameNotEmpty
            <4>2. n # opBar.name
                BY <1>1, <1>3, <2>h, <2>3, <3>2, <4>1, NameNotEmpty DEF RefBase, UniqueNames
            <4>3. storeBar'[n] = TextOf(blocks')[fmdt'[i].begining_offset]
                BY <1>1, <2>1, <3>2, StoreFactsNext DEF StoreOK
            <4>4. storeBar[n] = TextOf(blocks)[fmdt[i].begining_offset]
                BY <1>1, <3>2, <4>1, StoreFacts DEF StoreOK
            <4> QED
                BY <2>1, <2>4, <4>1, <4>2, <4>3, <4>4
        <3> QED
            BY <3>1, <3>2
    <2>6. s = [n \in Names |-> s[n]]
        BY <2>4
    <2>7. storeBar' = s
        BY <2>5, <2>6, StoresEqual
    <2>8. opBar' = Store!NoOp /\ editorBar' = editorBar
        BY <1>3, <2>h, <2>1 DEF opBar, editorBar, Store!NoOp
    <2>9. Store!End(NoFile, "ok")
        BY <2>1, <2>7, <2>8 DEF Store!End, s
    <2> QED
        BY <2>3, <2>9 DEF Store!Finish, Store!Next
<1>6. ASSUME FileToBuffer PROVE Store!Next \/ UNCHANGED Store!vars
    <2>1. /\ pc = "load" /\ UNCHANGED <<fmdt, blocks, slot, reply>>
          /\ offset \in Blocks
          /\ offset' = blocks[offset].next_offset
          /\ processed' = processed \o blocks[offset].data
          /\ pc' = IF blocks[offset].next_offset = 0 THEN "edit" ELSE "load"
        BY <1>1, <1>6, LoopFacts DEF FileToBuffer, disk, Headless
    <2>h. slot \in Slots /\ Root \in Blocks
        BY <1>3, <2>1 DEF Headless
    <2>2. Kind = "none" /\ Kind' = "none" /\ Store!AtMenu
        BY <2>1, AtMenu, KindsNext
    <2>3. storeBar' = storeBar /\ opBar' = opBar
        BY <1>1, <2>1, <2>2, StoreKept
    <2>4. CASE blocks[offset].next_offset # 0
        <3>1. editorBar' = editorBar
            BY <2>1, <2>4 DEF editorBar
        <3> QED
            BY <2>1, <2>3, <3>1 DEF Store!vars
    <2>5. CASE blocks[offset].next_offset = 0
        <3>1. PICK P : Walk(blocks, Root, offset, P, processed)
            BY <1>1, <2>1 DEF WalkInv
        <3>2. Walk(blocks, Root, 0, P \cup {offset}, processed')
            <4>1. LinksApart(blocks, Root)
                BY <1>1, <2>1, LoopFacts DEF Headless
            <4> QED
                BY <1>2, <2>1, <2>5, <3>1, <4>1, WalkGoesOn
        <3>3. TextOf(blocks)[Root] = processed'
            BY <1>2, <3>2, WalkEnds
        <3> DEFINE n == fmdt[slot].name
        <3>4. n \in Names
            BY <1>1, <2>1, NamedEntries DEF Headless
        <3>5. storeBar[n] = processed'
            BY <1>1, <2>h, <2>2, <3>3, <3>4, StoreFacts DEF StoreOK, Root
        <3>6. editorBar' = [name |-> n, text |-> storeBar[n]]
            BY <2>1, <2>5, <3>5 DEF editorBar
        <3>7. storeBar[n] # NoFile
            <4>1. processed' \in Seq(Chars)
                BY <1>1 DEF RefBase, StructInv, LocalInv, TypeOK
            <4> QED
                BY <3>5, <4>1
        <3>8. Store!Open(n)
            BY <2>1, <2>2, <2>3, <3>6, <3>7 DEF Store!Open
        <3> QED
            BY <3>4, <3>8 DEF Store!Next
    <2> QED
        BY <2>4, <2>5
<1>7. ASSUME Kind # "none", Kind' = Kind, pc' # "edit",
             UNCHANGED <<fmdt, slot, processed, reply>>, offset \in Blocks,
             \A b \in Blocks : b # offset => blocks'[b] = blocks[b]
      PROVE  UNCHANGED Store!vars
    <2>h. slot \in Slots
        BY <1>3, <1>7, Kinds
    <2>1. OthersKept
        BY <1>1, <2>h, <1>7, OthersKeep
    <2> QED
        BY <1>1, <1>3, <1>7, <2>h, <2>1, StoreStutters
<1>8. ASSUME RemoveBlock \/ WipeBlock \/ (TrimBlock /\ GoOn) PROVE UNCHANGED Store!vars
    <2>1. PICK loop \in ClearLoops : ClearTurn(loop)
        BY <1>8 DEF RemoveBlock, WipeBlock, TrimBlock, ClearLoops
    <2>2. /\ offset \in Blocks /\ fmdt' = fmdt
          /\ \A b \in Blocks : b # offset => blocks'[b] = blocks[b]
        BY <1>1, <2>1, ClearedOnly
    <2>3. /\ UNCHANGED <<slot, processed, reply>> /\ pc' # "edit"
          /\ Kind' = Kind /\ Kind # "none"
        <3>1. CASE RemoveBlock
            <4>1. pc = "remove" /\ pc' \in {"remove", "drop_entry"}
                  /\ UNCHANGED <<slot, processed, reply>>
                BY <3>1 DEF RemoveBlock, ClearTurn, GoOn, Goto
            <4> QED
                BY <4>1, Kinds, KindsNext
        <3>2. CASE WipeBlock \/ (TrimBlock /\ GoOn)
            <4>1. pc \in {"wipe", "trim"} /\ pc' \in {"wipe", "restore", "trim"}
                  /\ UNCHANGED <<slot, processed, reply>>
                BY <3>2 DEF WipeBlock, TrimBlock, ClearTurn, GoOn, Goto
            <4> QED
                BY <4>1, Kinds, KindsNext
        <3> QED
            BY <1>8, <3>1, <3>2
    <2> QED
        BY <1>7, <2>2, <2>3
<1>9. ASSUME pc' = "menu", reply' = "ok", fmdt' = fmdt, OthersKept, Kind = "save",
             TextOf(blocks')[Root] = processed
      PROVE  Store!Next
    <2>1. opBar.text = processed /\ opBar.kind = "save"
        BY <1>9 DEF opBar
    <2>2. Store!End(processed, "ok")
        BY <1>1, <1>3, <1>m, <1>9, Kinds, StoreEnds
    <2> QED
        BY <2>1, <2>2 DEF Store!Finish, Store!Next
<1>10. ASSUME TrimBlock, ~ GoOn PROVE Store!Next
    <2>1. ClearTurn("trim") /\ Return("ok") /\ "trim" \in ClearLoops
        BY <1>10 DEF TrimBlock, ClearLoops
    <2>2. /\ pc = "trim" /\ offset \in Blocks /\ fmdt' = fmdt
          /\ pc' = "menu" /\ reply' = "ok"
          /\ \A b \in Blocks : b # offset => blocks'[b] = blocks[b]
        BY <1>1, <2>1, ClearedOnly DEF Return
    <2>3. PICK P : Walk(blocks, Root, 0, P, processed) /\ offset \notin P
        BY <1>1, <2>2 DEF WalkInv
    <2>4. P \in SUBSET Blocks
        BY <2>3 DEF Walk
    <2>5. Walk(blocks', Root, 0, P, processed)
        BY <2>2, <2>3, <2>4, WalkKept
    <2>6. TextOf(blocks')[Root] = processed
        BY <1>2, <2>5, WalkEnds
    <2>7. OthersKept /\ Kind = "save"
        BY <1>1, <1>3, <2>2, OthersKeep, Kinds DEF Headless
    <2> QED
        BY <1>9, <2>2, <2>6, <2>7
<1>11. ASSUME SaveData PROVE Store!Next \/ UNCHANGED Store!vars
    <2>1. /\ pc = "save" /\ offset \in Blocks /\ fmdt' = fmdt
          /\ \A b \in Blocks : b # offset => blocks'[b] = blocks[b]
        BY <1>1, <1>11, SaveWalk
    <2>2. Kind = "save"
        BY <2>1, Kinds
    <2>3. CASE Remainder = <<>> /\ blocks[offset].next_offset = 0 /\ Return("ok")
        <3>1. PICK P, t :
                  /\ Walk(blocks', Root, blocks[offset].next_offset, P \cup {offset},
                          t \o blocks'[offset].data)
                  /\ Walk(blocks', Root, offset, P, t)
                  /\ processed = (t \o blocks'[offset].data) \o Remainder
            BY <1>1, <1>11, SaveWalk
        <3>2. t \in Seq(Chars) /\ blocks'[offset].data \in Seq(Chars)
            BY <1>1, <1>11, <3>1, SaveWalk, WalkType
        <3>3. t \o blocks'[offset].data \in Seq(Chars)
            BY <3>2, ConcatProperties
        <3>4. processed = t \o blocks'[offset].data
            BY <2>3, <3>1, <3>3, ConcatEmptySeq
        <3>5. TextOf(blocks')[Root] = processed
            BY <1>2, <2>3, <3>1, <3>4, WalkEnds
        <3>6. OthersKept
            BY <1>1, <1>3, <2>1, OthersKeep DEF Headless
        <3>7. pc' = "menu" /\ reply' = "ok"
            BY <2>3 DEF Return
        <3> QED
            BY <1>9, <2>1, <2>2, <3>5, <3>6, <3>7
    <2>4. CASE pc' \in {"unlink", "extend", "save"} /\ UNCHANGED <<slot, processed, reply>>
        <3>1. Kind' = "save"
            BY <2>4, KindsNext
        <3> QED
            BY <1>7, <2>1, <2>2, <2>4, <3>1
    <2> QED
        BY <1>11, <2>1, <2>3, <2>4 DEF SaveData
<1>12. ASSUME UnlinkTail \/ LinkBlock PROVE UNCHANGED Store!vars
    <2>1. /\ pc \in {"unlink", "extend"} /\ pc' \in {"trim", "save"}
          /\ UNCHANGED <<fmdt, slot, processed, reply>>
          /\ \E x : SaveBlock(x, offset)
        BY <1>12 DEF UnlinkTail, LinkBlock
    <2>2. offset \in Blocks
        BY <1>1, <2>1, LoopFacts DEF Headless
    <2>3. \A b \in Blocks : b # offset => blocks'[b] = blocks[b]
        BY <1>2, <2>1, <2>2 DEF SaveBlock
    <2>4. Kind = "save" /\ Kind' = "save"
        BY <2>1, Kinds, KindsNext
    <2> QED
        BY <1>7, <2>1, <2>2, <2>3, <2>4
<1>13. ASSUME DiskFull PROVE Store!Next
    <2>1. /\ pc = "extend" /\ UNCHANGED <<fmdt, blocks>> /\ pc' = "menu"
          /\ reply' = "lost" /\ offset \in Blocks /\ LinksApart(blocks, Root)
        BY <1>1, <1>13, LoopFacts DEF DiskFull, Refuse, Return, disk, Headless
    <2>2. /\ blocks[offset].next_offset = 0 /\ blocks[offset].data \in Seq(Chars)
          /\ rest \in Seq(Chars)
        BY <1>1, <1>2, <2>1, PlacesOfBlocks
        DEF RefBase, StructInv, LocalInv, StepInv, TypeOK
    <2>3. PICK P, t : /\ Walk(blocks, Root, offset, P, t)
                      /\ processed = (t \o blocks[offset].data) \o rest
        BY <1>1, <2>1 DEF WalkInv
    <2>4. rest # <<>> /\ blocks[offset].data # <<>>
        BY <1>1, <2>1 DEF WalkInv
    <2>5. t \in Seq(Chars)
        BY <2>3, WalkType
    <2> DEFINE u == t \o blocks[offset].data
    <2>6. Walk(blocks, Root, 0, P \cup {offset}, u)
        BY <1>2, <2>1, <2>2, <2>3, WalkGoesOn
    <2>7. TextOf(blocks')[Root] = u
        BY <1>2, <2>1, <2>6, WalkEnds
    <2>8. OthersKept /\ Kind = "save"
        BY <2>1, Kinds DEF OthersKept
    <2>9. \E k \in 1 .. (Len(processed) - 1) : u = SubSeq(processed, 1, k)
        <3> DEFINE d == blocks[offset].data
        <3>1. d \in Seq(Chars) /\ d # <<>>
            BY <2>2, <2>4
        <3> HIDE DEF d
        <3>2. \E k \in 1 .. (Len((t \o d) \o rest) - 1) :
                 t \o d = SubSeq((t \o d) \o rest, 1, k)
            BY <2>2, <2>4, <2>5, <3>1, Prefix
        <3>3. processed = (t \o d) \o rest /\ u = t \o d
            BY <2>3 DEF d
        <3> HIDE DEF u
        <3> QED
            BY <3>2, <3>3
    <2>10. Store!End(u, "lost")
        BY <1>1, <1>3, <2>1, <2>7, <2>8, StoreEnds DEF Headless
    <2>11. opBar.kind = "save" /\ opBar.text = processed
        BY <2>8 DEF opBar
    <2> HIDE DEF u
    <2>12. Store!Finish
        BY <2>9, <2>10, <2>11 DEF Store!Finish
    <2> QED
        BY <2>12 DEF Store!Next
<1> QED
    BY <1>4, <1>5, <1>6, <1>8, <1>10, <1>11, <1>12, <1>13, <1>14, <1>15, <1>16, <1>17,
       <1>18, <1>19
    DEF Proceed, TrimBlock

---------------------------------------------------------------------------
\* The store is implemented: every operation of the disk emulator, write by write,
\* changes the text of its own file only; a created file is empty, a removed one
\* gone, a saved one holds the edited text, or, when the disk is full and the
\* message says so, a prefix of it; an opened file shows what was saved last.
THEOREM FilesAreKept ==
    ASSUME LongNames = {}, NoFile \notin Seq(Chars)
    PROVE  Spec => ImplementsStore
<1>1. Init => Store!Init
    <2> SUFFICES ASSUME Init PROVE Store!Init
        OBVIOUS
    <2>1. Kind = "none"
        BY Kinds DEF Init, Headless
    <2>2. \A n \in Names : EntryOf(n) = {}
        BY NameNotEmpty DEF Init, EntryOf, EmptyEntry
    <2> QED
        BY <2>1, <2>2
        DEF Init, Store!Init, Store!NoOp, Store!Closed, storeBar, opBar, editorBar
<1>2. RefInv /\ RefInv' /\ [Next]_vars => [Store!Next]_(Store!vars)
    <2> SUFFICES ASSUME RefInv, RefInv', [Next]_vars
                 PROVE  Store!Next \/ UNCHANGED Store!vars
        OBVIOUS
    <2>1. CASE UNCHANGED vars
        <3>1. storeBar' = storeBar /\ opBar' = opBar /\ editorBar' = editorBar
            BY <2>1 DEF vars, search, storeBar, opBar, editorBar, Kind, EntryOf, Content
        <3> QED
            BY <2>1, <3>1 DEF vars, Store!vars
    <2> QED
        BY <2>1, CommandImplements, EditImplements, ProceedImplements DEF Next
<1> QED
    BY <1>1, <1>2, RefInit, RefStep, PTL DEF Spec, ImplementsStore, Store!Spec
==============================================================================
