----------------------------- MODULE ToolsProofs -----------------------------
(***************************************************************************)
(* Proofs about the parts of MCTools, for every value of their constants:  *)
(* how a text is cut (EveryTextServed), the rate limiter (RateKept), the   *)
(* tree of the file watcher (EveryDirectoryWatched) and the answer of      *)
(* get_related_context (ContextKept).                                      *)
(***************************************************************************)
EXTENDS MCTools, FiniteSetTheorems, WellFoundedInduction, TLAPS

-----------------------------------------------------------------------------
(* How a text is cut. *)

LEMMA FirstAbove ==
    ASSUME NEW T, T \subseteq Nat, T # {}
    PROVE  \E s \in T : \A t \in T : s <= t
<1>1. PICK s \in T : \A t \in T : <<t, s>> \notin OpToRel(<, Nat)
  BY NatLessThanWellFounded, WFMin, Zenon
<1>2. ASSUME NEW t \in T PROVE s <= t
  <2>1. s \in Nat /\ t \in Nat /\ ~(t < s)
    BY <1>1 DEF OpToRel
  <2> QED
    BY <2>1
<1> QED
  BY <1>2

LEMMA LastBelow ==
    ASSUME NEW T, NEW i \in Nat, T \subseteq 0 .. i, T # {}
    PROVE  \E s \in T : \A t \in T : t <= s
<1> DEFINE D == {n \in Nat : \E s \in T : n = i - s}
<1>1. D # {} /\ D \subseteq Nat
  <2>1. PICK s \in T : TRUE
    OBVIOUS
  <2>2. i - s \in D
    OBVIOUS
  <2> QED
    BY <2>2
<1>2. PICK n \in D : \A m \in D : n <= m
  <2> HIDE DEF D
  <2> QED
    BY <1>1, FirstAbove
<1>3. PICK s \in T : n = i - s
  OBVIOUS
<1>4. ASSUME NEW t \in T PROVE t <= s
  <2>1. i - t \in D
    OBVIOUS
  <2>2. i - s <= i - t
    BY <1>2, <1>3, <2>1
  <2>3. i \in Nat /\ s \in 0 .. i /\ t \in 0 .. i
    OBVIOUS
  <2> HIDE DEF D
  <2> QED
    BY <2>2, <2>3
<1> QED
  BY <1>4

\* A part starts at the start, and one a step after each that does not reach
\* the end.
LEMMA StartsFollow ==
    ASSUME NEW p \in Nat \X Nat, p[1] < p[2],
           NEW size \in Nat, NEW overlap \in Nat, overlap < size
    PROVE  /\ starts(p, size, overlap) \subseteq p[1] .. p[2] - 1
           /\ p[1] \in starts(p, size, overlap)
           /\ \A i \in starts(p, size, overlap) :
                 i + size < p[2] => i + step(size, overlap) \in starts(p, size, overlap)
<1> DEFINE d == step(size, overlap)
           S == starts(p, size, overlap)
<1>1. d \in Nat /\ d >= 1 /\ d <= size
  BY DEF step
<1>2. /\ p[1] \in Nat /\ p[2] \in Nat
  OBVIOUS
<1>3. \A k \in Nat : k * d \in Nat /\ (k + 1) * d = k * d + d /\ k <= k * d
  <2> TAKE k \in Nat
  <2>1. PICK e \in Nat : d = e + 1
    BY <1>1
  <2>2. k * (e + 1) = k * e + k /\ k * e \in Nat /\ (k + 1) * (e + 1) = k * (e + 1) + (e + 1)
    BY <2>1
  <2> HIDE DEF d
  <2> QED
    BY <2>1, <2>2
<1>4. \A i : i \in S <=> /\ i \in p[1] .. p[2] - 1
                         /\ \E k \in 0 .. p[2] - p[1] :
                               i = p[1] + k * d /\ (k > 0 => i - d + size < p[2])
  BY DEF starts
<1> HIDE DEF d, S
<1>5. p[1] \in S
  <2>1. 0 * d = 0
    BY <1>1
  <2> QED
    BY <1>2, <1>4, <2>1
<1>6. ASSUME NEW i \in S, i + size < p[2] PROVE i + d \in S
  <2>1. PICK k \in 0 .. p[2] - p[1] : i = p[1] + k * d
    BY <1>4
  <2>2. i \in p[1] .. p[2] - 1
    BY <1>4
  <2> DEFINE n == k * d
             m == (k + 1) * d
  <2>3. k \in Nat /\ n \in Nat /\ m = n + d /\ k + 1 <= m
    BY <1>2, <1>3, <2>1
  <2>4. i = p[1] + n
    BY <2>1
  <2> HIDE DEF n, m
  <2>5. PICK e : e = i + d
    OBVIOUS
  <2>6. PICK j : j = k + 1
    OBVIOUS
  <2>7. /\ e \in p[1] .. p[2] - 1 /\ j \in 0 .. p[2] - p[1]
        /\ e = p[1] + m /\ e - d + size < p[2]
    BY <1>1, <1>2, <1>6, <2>2, <2>3, <2>4, <2>5, <2>6
  <2>8. m = j * d
    BY <2>6 DEF m
  <2>9. e = p[1] + j * d
    BY <2>7, <2>8, Zenon
  <2>10. \E l \in 0 .. p[2] - p[1] :
            e = p[1] + l * d /\ (l > 0 => e - d + size < p[2])
    BY <2>7, <2>9, Zenon
  <2>11. e \in S
    BY <1>4, <2>7, <2>10, Zenon
  <2> QED
    BY <2>5, <2>11
<1> QED
  BY <1>4, <1>5, <1>6 DEF d, S

\* Every passage of overlap + 1 runes, or up to the end, is whole in a part, and
\* no part is longer than size.
LEMMA PartsCover ==
    ASSUME NEW p \in Nat \X Nat, p[1] < p[2],
           NEW size \in Nat, NEW overlap \in Nat, overlap < size
    PROVE  /\ \A i \in p[1] .. p[2] - 1 :
                 \E q \in parts(p, size, overlap) :
                    Inside(<<i, partEnd(p, i, overlap + 1)>>, q)
           /\ \A q \in parts(p, size, overlap) :
                 /\ q \in Nat \X Nat /\ p[1] <= q[1] /\ q[1] < q[2] /\ q[2] <= p[2]
                 /\ q[2] - q[1] <= size
<1> DEFINE S == starts(p, size, overlap)
           d == step(size, overlap)
<1>1. /\ S \subseteq p[1] .. p[2] - 1 /\ p[1] \in S
      /\ \A i \in S : i + size < p[2] => i + d \in S
  BY StartsFollow
<1>2. p[1] \in Nat /\ p[2] \in Nat /\ d = size - overlap
  BY DEF step
<1>3. \A s \in S : <<s, partEnd(p, s, size)>> \in parts(p, size, overlap)
  BY DEF parts
<1>4. \A q \in parts(p, size, overlap) : \E s \in S : q = <<s, partEnd(p, s, size)>>
  BY DEF parts
<1> HIDE DEF S, d
<1>5. ASSUME NEW i \in p[1] .. p[2] - 1
      PROVE  \E q \in parts(p, size, overlap) : Inside(<<i, partEnd(p, i, overlap + 1)>>, q)
  <2> DEFINE T == {s \in S : s <= i}
  <2>1. i \in Nat /\ T \subseteq 0 .. i /\ p[1] \in T
    <3>1. \A s \in S : p[1] <= s /\ s \in Nat
      BY <1>1, <1>2
    <3>2. i \in Nat /\ p[1] <= i
      BY <1>2
    <3>3. p[1] \in T
      BY <1>1, <3>2
    <3>4. T \subseteq 0 .. i
      BY <3>1, <3>2
    <3> QED
      BY <3>2, <3>3, <3>4
  <2>2. PICK s \in T : \A t \in T : t <= s
    <3> HIDE DEF T
    <3> QED
      BY <2>1, LastBelow
  <2>3. s \in S /\ s <= i /\ s \in Nat
    BY <1>1, <1>2
  <2>4. s + size < p[2] => i < s + d
    <3> SUFFICES ASSUME s + size < p[2], ~(i < s + d) PROVE FALSE
      OBVIOUS
    <3>1. s + d \in T
      BY <1>1, <1>2, <2>1, <2>3
    <3>2. s + d <= s
      BY <2>2, <3>1
    <3> QED
      BY <1>2, <2>3, <3>2
  <2>5. partEnd(p, i, overlap + 1) <= partEnd(p, s, size)
    BY <1>2, <2>1, <2>3, <2>4 DEF partEnd
  <2> HIDE DEF T
  <2> QED
    BY <1>3, <2>3, <2>5 DEF Inside
<1>6. ASSUME NEW q \in parts(p, size, overlap)
      PROVE  /\ q \in Nat \X Nat /\ p[1] <= q[1] /\ q[1] < q[2] /\ q[2] <= p[2]
             /\ q[2] - q[1] <= size
  <2>1. PICK s \in S : q = <<s, partEnd(p, s, size)>>
    BY <1>4
  <2>2. s \in Nat /\ p[1] <= s /\ s < p[2]
    BY <1>1, <1>2
  <2> QED
    BY <1>2, <2>1, <2>2 DEF partEnd
<1> QED
  BY <1>5, <1>6

LEMMA LinesCounted ==
    ASSUME NEW text, NEW n \in Nat
    PROVE  countLines(text, n) \in Nat
<1>1. IsFiniteSet(1 .. n)
  BY FS_Interval
<1>2. IsFiniteSet({i \in 1 .. n : text[i] = Newline})
  BY <1>1, FS_Subset
<1> QED
  BY <1>2, FS_CardinalityType DEF countLines

\* A place a text is cut at, and what is owed to a place that is cut whole.
IsPlace(w) == w \in Nat \X Nat /\ w[1] < w[2]

KeptWhole(w, chunks, overlap) ==
    \A i \in w[1] .. w[2] - 1 :
        \E c \in chunks : Inside(<<i, partEnd(w, i, overlap + 1)>>, c.place)

RightChunk(text, c, size) ==
    /\ IsPlace(c.place) /\ c.place[2] - c.place[1] <= size
    /\ c.startLine = countLines(text, c.place[1]) + 1

LEMMA SplitServes ==
    ASSUME NEW text, NEW c, IsPlace(c.place),
           c.startLine = countLines(text, c.place[1]) + 1
    PROVE  /\ KeptWhole(c.place, splitIfNeeded(text, c), Overlap)
           /\ \A d \in splitIfNeeded(text, c) : RightChunk(text, d, MaxRunes)
<1>1. PICK w : w = c.place
  OBVIOUS
<1>2. w \in Nat \X Nat /\ w[1] < w[2] /\ w[1] \in Nat /\ w[2] \in Nat
  BY <1>1 DEF IsPlace
<1>3. MaxRunes \in Nat /\ Overlap \in Nat /\ Overlap < MaxRunes
  BY ChunkerAssumption
<1>4. CASE w[2] - w[1] <= MaxRunes
  <2>1. splitIfNeeded(text, c) = {c}
    BY <1>1, <1>4 DEF splitIfNeeded
  <2>2. \A i \in w[1] .. w[2] - 1 : Inside(<<i, partEnd(w, i, Overlap + 1)>>, w)
    BY <1>2, <1>3 DEF Inside, partEnd
  <2> QED
    BY <1>1, <1>4, <2>1, <2>2 DEF KeptWhole, RightChunk
<1>5. CASE ~(w[2] - w[1] <= MaxRunes)
  <2> DEFINE made(p) == chunk(p, lineOfPart(text, c, p[1]), c.startLine + newlinesIn(text, p))
             cut == parts(w, MaxRunes, Overlap)
  <2>1. splitIfNeeded(text, c) = {made(p) : p \in cut}
    BY <1>1, <1>5 DEF splitIfNeeded
  <2>2. /\ \A i \in w[1] .. w[2] - 1 :
              \E q \in cut : Inside(<<i, partEnd(w, i, Overlap + 1)>>, q)
        /\ \A q \in cut : /\ q \in Nat \X Nat /\ w[1] <= q[1] /\ q[1] < q[2] /\ q[2] <= w[2]
                          /\ q[2] - q[1] <= MaxRunes
    BY <1>2, <1>3, PartsCover
  <2>3. \A p : made(p).place = p /\ made(p).startLine = lineOfPart(text, c, p[1])
    BY DEF chunk
  <2>4. ASSUME NEW q \in cut PROVE lineOfPart(text, c, q[1]) = countLines(text, q[1]) + 1
    <3>1. q[1] \in Nat
      BY <2>2
    <3>2. countLines(text, q[1]) \in Nat /\ countLines(text, w[1]) \in Nat
      BY <1>2, <3>1, LinesCounted
    <3>3. lineOfPart(text, c, q[1])
             = (countLines(text, w[1]) + 1) + (countLines(text, q[1]) - countLines(text, w[1]))
      BY <1>1 DEF lineOfPart, newlinesIn
    <3> QED
      BY <3>2, <3>3
  <2> HIDE DEF made, cut
  <2>5. KeptWhole(w, splitIfNeeded(text, c), Overlap)
    BY <2>1, <2>2, <2>3 DEF KeptWhole
  <2>6. \A d \in splitIfNeeded(text, c) : RightChunk(text, d, MaxRunes)
    BY <2>1, <2>2, <2>3, <2>4 DEF RightChunk, IsPlace
  <2> QED
    BY <1>1, <2>5, <2>6
<1> QED
  BY <1>4, <1>5

LEMMA FastServes ==
    ASSUME NEW text, Len(text) \in Nat, text # <<>> => Len(text) > 0
    PROVE  /\ text # <<>> => KeptWhole(<<0, Len(text)>>, fastChunk(text), FastOverlap)
           /\ \A d \in fastChunk(text) : RightChunk(text, d, ChunkSize)
<1>1. ChunkSize \in Nat /\ FastOverlap \in Nat /\ FastOverlap < ChunkSize
  BY ChunkerAssumption
<1>2. CASE text = <<>>
  BY <1>2 DEF fastChunk
<1>3. CASE text # <<>>
  <2> DEFINE w == <<0, Len(text)>>
             line(p) == countLines(text, p[1]) + 1
             made(p) == chunk(p, line(p), line(p) + newlinesIn(text, p))
             cut == parts(w, ChunkSize, FastOverlap)
  <2>1. fastChunk(text) = {made(p) : p \in cut}
    BY <1>3 DEF fastChunk
  <2>2. w \in Nat \X Nat /\ w[1] < w[2]
    BY <1>3
  <2>3. \A p : made(p).place = p /\ made(p).startLine = countLines(text, p[1]) + 1
    BY DEF chunk
  <2> HIDE DEF made, cut, w
  <2>4. /\ \A i \in w[1] .. w[2] - 1 :
              \E q \in cut : Inside(<<i, partEnd(w, i, FastOverlap + 1)>>, q)
        /\ \A q \in cut : /\ q \in Nat \X Nat /\ w[1] <= q[1] /\ q[1] < q[2] /\ q[2] <= w[2]
                          /\ q[2] - q[1] <= ChunkSize
    BY <1>1, <2>2, PartsCover DEF cut
  <2>5. KeptWhole(w, fastChunk(text), FastOverlap)
    BY <2>1, <2>3, <2>4 DEF KeptWhole
  <2>6. \A d \in fastChunk(text) : RightChunk(text, d, ChunkSize)
    BY <2>1, <2>3, <2>4 DEF RightChunk, IsPlace
  <2> QED
    BY <2>5, <2>6 DEF w
<1> QED
  BY <1>2, <1>3

\* A rune that is not blank is in an entity or in a gap.
LEMMA GapsFill ==
    ASSUME NEW text, Len(text) \in Nat, NEW entities \in SUBSET Places(text),
           NEW j \in 1 .. Len(text), text[j] # Newline
    PROVE  \E w \in entities \cup gaps(text, entities) : j \in runes(w)
<1> DEFINE top == topLevel(entities)
           before == {0} \cup {q[2] : q \in {r \in top : r[2] < j}}
           after == {Len(text)} \cup {q[1] : q \in {r \in top : j <= r[1]}}
<1>1. top \subseteq entities
  BY DEF topLevel
<1>2. \A q \in entities : /\ q \in Nat \X Nat /\ q[1] \in Nat /\ q[2] \in Nat
                          /\ q[1] < q[2] /\ q[2] <= Len(text)
  BY DEF Places
<1>3. ASSUME \A q \in entities : j \notin runes(q)
      PROVE  \E w \in gaps(text, entities) : j \in runes(w)
  <2>1. \A q \in top : q[2] < j \/ j <= q[1]
    BY <1>1, <1>2, <1>3 DEF runes
  <2>2. j - 1 \in Nat /\ before \subseteq 0 .. j - 1 /\ 0 \in before
    BY <1>1, <1>2
  <2>3. PICK a \in before : \A b \in before : b <= a
    <3> HIDE DEF before
    <3> QED
      BY <2>2, LastBelow
  <2>4. after \subseteq j .. Len(text) /\ after \subseteq Nat /\ Len(text) \in after
    BY <1>1, <1>2
  <2>5. PICK b \in after : \A x \in after : b <= x
    <3> HIDE DEF after
    <3> QED
      BY <2>4, FirstAbove
  <2>6. a \in 0 .. j - 1 /\ b \in j .. Len(text)
    BY <2>2, <2>4
  <2>7. <<a, b>> \in Places(text) /\ j \in runes(<<a, b>>)
    BY <2>6 DEF Places, runes
  <2>8. \A q \in top : Apart(<<a, b>>, q)
    <3> TAKE q \in top
    <3>1. CASE q[2] < j
      <4>1. q[2] <= a
        BY <2>3, <3>1
      <4> QED
        BY <4>1 DEF Apart
    <3>2. CASE j <= q[1]
      <4>1. b <= q[1]
        BY <2>5, <3>2
      <4> QED
        BY <4>1 DEF Apart
    <3> QED
      BY <2>1, <3>1, <3>2
  <2>9. ~blank(text, <<a, b>>)
    BY <2>7 DEF blank
  <2>10. /\ a \in {0} \cup {p[2] : p \in topLevel(entities)}
         /\ b \in {p[1] : p \in topLevel(entities)} \cup {Len(text)}
    OBVIOUS
  <2> HIDE DEF top, before, after
  <2>11. <<a, b>> \in gaps(text, entities)
    BY <2>7, <2>8, <2>9, <2>10 DEF gaps, top
  <2> QED
    BY <2>7, <2>11
<1> QED
  BY <1>3

\* Chunks that have some places whole, and hold every rune that is not blank in
\* one of them, lose nothing.
LEMMA KeptIsNotLost ==
    ASSUME NEW text, NEW wholes, NEW chunks, NEW overlap \in Nat,
           \A w \in wholes : IsPlace(w) /\ KeptWhole(w, chunks, overlap),
           \A c \in chunks : IsPlace(c.place),
           \A j \in 1 .. Len(text) :
              text[j] # Newline => \E w \in wholes : j \in runes(w)
    PROVE  NothingLost(text, chunks) /\ PassagesWhole(wholes, chunks, overlap)
<1>1. ASSUME NEW j \in 1 .. Len(text), text[j] # Newline
      PROVE  \E c \in chunks : j \in runes(c.place)
  <2>1. PICK w \in wholes : j \in runes(w)
    BY <1>1
  <2>2. w[1] \in Nat /\ w[2] \in Nat /\ j \in w[1] + 1 .. w[2]
    BY <2>1 DEF IsPlace, runes
  <2>3. j - 1 \in w[1] .. w[2] - 1 /\ j \in Nat
    BY <2>2
  <2>4. PICK c \in chunks : Inside(<<j - 1, partEnd(w, j - 1, overlap + 1)>>, c.place)
    BY <2>3 DEF KeptWhole
  <2>5. c.place[1] <= j - 1 /\ partEnd(w, j - 1, overlap + 1) <= c.place[2]
    BY <2>4 DEF Inside
  <2>6. c.place[1] \in Nat /\ c.place[2] \in Nat
    BY DEF IsPlace
  <2>7. partEnd(w, j - 1, overlap + 1) \in Nat /\ j <= partEnd(w, j - 1, overlap + 1)
    BY <2>2, <2>3 DEF partEnd
  <2> QED
    BY <2>3, <2>5, <2>6, <2>7 DEF runes
<1> QED
  BY <1>1 DEF NothingLost, PassagesWhole, KeptWhole

LEMMA TreeServes ==
    ASSUME NEW text, Len(text) \in Nat, NEW entities \in SUBSET Places(text),
           NEW wholes, wholes = entities \cup gaps(text, entities), wholes # {},
           NEW chunks, chunks = treeSitterChunk(text, entities)
    PROVE  /\ \A w \in wholes : IsPlace(w) /\ KeptWhole(w, chunks, Overlap)
           /\ \A c \in chunks : RightChunk(text, c, MaxRunes)
<1> DEFINE pieces == {gapChunk(text, p) : p \in gaps(text, entities)}
                        \cup {entity(text, p) : p \in entities}
<1>1. \A w \in wholes : IsPlace(w)
  BY DEF gaps, Places, IsPlace
<1>2. ASSUME NEW w \in wholes PROVE \E c \in pieces : c.place = w
  <2>1. CASE w \in entities
    <3>1. entity(text, w) \in pieces /\ entity(text, w).place = w
      BY <2>1 DEF entity, chunk
    <3> QED
      BY <3>1
  <2>2. CASE w \in gaps(text, entities)
    <3>1. gapChunk(text, w) \in pieces /\ gapChunk(text, w).place = w
      BY <2>2 DEF gapChunk, chunk
    <3> QED
      BY <3>1
  <2> QED
    BY <2>1, <2>2
<1>3. \A c \in pieces : IsPlace(c.place) /\ c.startLine = countLines(text, c.place[1]) + 1
  BY <1>1 DEF gapChunk, entity, chunk
<1>4. pieces # {}
  BY <1>2
<1>5. chunks = UNION {splitIfNeeded(text, c) : c \in pieces}
  BY <1>4 DEF treeSitterChunk
<1> HIDE DEF pieces
<1>6. ASSUME NEW w \in wholes PROVE KeptWhole(w, chunks, Overlap)
  <2>1. PICK c \in pieces : c.place = w
    BY <1>2
  <2>2. KeptWhole(w, splitIfNeeded(text, c), Overlap)
    BY <1>3, <2>1, SplitServes
  <2>3. splitIfNeeded(text, c) \subseteq chunks
    BY <1>5
  <2> QED
    BY <2>2, <2>3 DEF KeptWhole
<1>7. ASSUME NEW d \in chunks PROVE RightChunk(text, d, MaxRunes)
  <2>1. PICK c \in pieces : d \in splitIfNeeded(text, c)
    BY <1>5
  <2> QED
    BY <1>3, <2>1, SplitServes
<1> QED
  BY <1>1, <1>6, <1>7

\* CreateChunks serves every text, whatever its runes, with or without a grammar,
\* and wherever the captures are.  (Nothing here needs them to be nested.)
THEOREM CreateChunksServes ==
    ASSUME NEW Rune, NEW text \in Seq(Rune), NEW supported \in BOOLEAN,
           NEW entities \in SUBSET Places(text)
    PROVE  ChunksServe(text, supported, entities)
<1> DEFINE chunks == CreateChunks(text, supported, entities)
           wholes == entities \cup gaps(text, entities)
           all == IF text = <<>> THEN {} ELSE {<<0, Len(text)>>}
<1>1. Len(text) \in Nat /\ (text # <<>> => Len(text) > 0)
  OBVIOUS
<1>2. Overlap \in Nat /\ FastOverlap \in Nat /\ MaxRunes \in Nat /\ ChunkSize \in Nat
  BY ChunkerAssumption
<1>3. ASSUME NEW size, size \in {MaxRunes, ChunkSize},
             \A c \in chunks : RightChunk(text, c, size)
      PROVE  Bounded(chunks) /\ LinesRight(text, chunks) /\ \A c \in chunks : IsPlace(c.place)
  <2>1. ASSUME NEW c \in chunks
        PROVE  c.place[2] - c.place[1] <= IF MaxRunes > ChunkSize THEN MaxRunes ELSE ChunkSize
    <3>1. c.place[2] - c.place[1] <= size /\ c.place[1] \in Nat /\ c.place[2] \in Nat
      BY <1>3 DEF RightChunk, IsPlace
    <3> QED
      BY <1>2, <1>3, <3>1
  <2> HIDE DEF chunks
  <2> QED
    BY <1>3, <2>1 DEF Bounded, LinesRight, RightChunk
<1>4. CASE supported /\ wholes # {}
  <2>1. chunks = treeSitterChunk(text, entities)
    BY <1>4 DEF CreateChunks
  <2>2. /\ \A w \in wholes : IsPlace(w) /\ KeptWhole(w, chunks, Overlap)
        /\ \A c \in chunks : RightChunk(text, c, MaxRunes)
    <3> HIDE DEF chunks
    <3> QED
      BY <1>1, <1>4, <2>1, TreeServes
  <2>3. Bounded(chunks) /\ LinesRight(text, chunks) /\ \A c \in chunks : IsPlace(c.place)
    BY <1>3, <2>2
  <2>4. \A j \in 1 .. Len(text) : text[j] # Newline => \E w \in wholes : j \in runes(w)
    BY <1>1, GapsFill
  <2>5. NothingLost(text, chunks) /\ PassagesWhole(wholes, chunks, Overlap)
    <3> HIDE DEF chunks, wholes
    <3> QED
      BY <1>2, <2>2, <2>3, <2>4, KeptIsNotLost
  <2> QED
    BY <1>4, <2>3, <2>5 DEF ChunksServe
<1>5. CASE ~(supported /\ wholes # {})
  <2>1. chunks = fastChunk(text)
    BY <1>5 DEF CreateChunks, treeSitterChunk
  <2>2. /\ \A w \in all : KeptWhole(w, chunks, FastOverlap)
        /\ \A c \in chunks : RightChunk(text, c, ChunkSize)
    BY <1>1, <2>1, FastServes
  <2>3. Bounded(chunks) /\ LinesRight(text, chunks) /\ \A c \in chunks : IsPlace(c.place)
    BY <1>3, <2>2
  <2>4. \A w \in all : IsPlace(w)
    BY <1>1 DEF IsPlace
  <2>5. \A j \in 1 .. Len(text) : text[j] # Newline => \E w \in all : j \in runes(w)
    <3> TAKE j \in 1 .. Len(text)
    <3>1. text # <<>>
      OBVIOUS
    <3>2. j \in runes(<<0, Len(text)>>)
      BY <1>1 DEF runes
    <3> QED
      BY <3>1, <3>2
  <2>6. NothingLost(text, chunks) /\ PassagesWhole(all, chunks, FastOverlap)
    <3> HIDE DEF chunks, all
    <3> QED
      BY <1>2, <2>2, <2>3, <2>4, <2>5, KeptIsNotLost
  <2> QED
    BY <1>5, <2>3, <2>6 DEF ChunksServe
<1> QED
  BY <1>4, <1>5
-----------------------------------------------------------------------------
(* The rate limiter. *)

LEMMA LimiterInitType == LimiterInit => LimiterTypeOK /\ OneBucketEach /\ \A k \in Keys : letThrough(k) = {}
<1> SUFFICES ASSUME LimiterInit
             PROVE  LimiterTypeOK /\ OneBucketEach /\ \A k \in Keys : letThrough(k) = {}
  OBVIOUS
<1>1. Full \in BucketState /\ 0 \in 0 .. MaxTime
  BY RateLimiterAssumption DEF Full, BucketState
<1>2. \A k \in Keys : /\ idleRequest(k).pc = "new"
                      /\ idleRequest(k) \in RequestState
  BY <1>1 DEF idleRequest, RequestState
<1>3. \A r \in Requests : \E k \in Keys : request[r] = idleRequest(k)
  BY DEF LimiterInit
<1>4. \A r \in Requests : request[r].pc = "new"
  BY <1>2, <1>3
<1> QED
  BY <1>1, <1>2, <1>4 DEF LimiterInit, NoRequests, LimiterTypeOK, OneBucketEach, letThrough

\* What b holds by now: no fewer tokens than it had, and no more than the time adds.
LEMMA Refilled ==
    ASSUME LimiterTypeOK, NEW b \in Requests, bucket[b].lastUpdate <= clock
    PROVE  /\ refilled(b) \in 0 .. Burst
           /\ bucket[b].tokens <= refilled(b)
           /\ refilled(b) <= bucket[b].tokens + Rate * (clock - bucket[b].lastUpdate)
<1> DEFINE t == bucket[b].tokens
           d == clock - bucket[b].lastUpdate
<1>1. t \in 0 .. Burst /\ d \in Nat /\ Burst \in Nat /\ Rate \in Nat
  BY RateLimiterAssumption DEF LimiterTypeOK, BucketState
<1>2. refilled(b) = IF t + d * Rate > Burst THEN Burst ELSE t + d * Rate
  BY DEF refilled
<1> HIDE DEF t, d
<1>3. d * Rate = Rate * d /\ d * Rate \in Nat
  BY <1>1
<1> DEFINE p == d * Rate
<1> HIDE DEF p
<1>4. refilled(b) = IF t + p > Burst THEN Burst ELSE t + p
  BY <1>2 DEF p
<1>5. refilled(b) \in 0 .. Burst /\ t <= refilled(b) /\ refilled(b) <= t + p
  BY <1>1, <1>3, <1>4 DEF p
<1> QED
  BY <1>3, <1>5 DEF p, t, d

\* A step of r alone: it may make the bucket of its key, and change any.
LEMMA RequestStep ==
    ASSUME LimiterTypeOK, OneBucketEach, NEW r \in Requests, NEW x \in RequestState,
           request' = [request EXCEPT ![r] = x], x.key = request[r].key, clock' = clock,
           bucket' \in [Requests -> BucketState],
           \/ buckets' = buckets
           \/ buckets[x.key] = NoBucket /\ buckets' = [buckets EXCEPT ![x.key] = r],
           x.pc \in {"allow", "served", "limited"} =>
              x.holds = buckets'[x.key] /\ x.holds # NoBucket
    PROVE  LimiterTypeOK' /\ OneBucketEach'
<1>1. x.key \in Keys /\ r # NoBucket
  BY RateLimiterAssumption DEF RequestState
<1>2. LimiterTypeOK'
  BY <1>1 DEF LimiterTypeOK
<1>3. /\ request'[r] = x /\ \A s \in Requests \ {r} : request'[s] = request[s]
      /\ \A s \in Requests : request'[s].key = request[s].key /\ request[s].key \in Keys
  BY DEF LimiterTypeOK, RequestState
<1>4. \A k \in Keys : buckets'[k] = buckets[k]
                        \/ (k = x.key /\ buckets[k] = NoBucket /\ buckets'[k] = r)
  BY <1>1 DEF LimiterTypeOK
<1>5. \A k \in Keys : buckets[k] \in Requests \cup {NoBucket}
  BY DEF LimiterTypeOK
<1>6. OneBucketEach'
  BY <1>1, <1>3, <1>4, <1>5 DEF OneBucketEach
<1> QED
  BY <1>2, <1>6

\* The bucket a request is about to take a token from.
LEMMA BucketHeld ==
    ASSUME LimiterTypeOK, OneBucketEach, \A k \in Keys : TokensCount(k), NEW r \in Requests, Allow(r)
    PROVE  LET b == request[r].holds IN
           /\ request[r].key \in Keys /\ b = buckets[request[r].key] /\ b # NoBucket /\ b \in Requests
           /\ bucket[b].lastUpdate <= clock
<1>1. request[r] \in RequestState /\ request[r].pc = "allow"
  BY DEF Allow, LimiterTypeOK
<1>2. /\ request[r].holds = buckets[request[r].key] /\ request[r].holds # NoBucket
      /\ request[r].key \in Keys /\ request[r].holds \in Requests
  BY <1>1 DEF OneBucketEach, RequestState
<1> QED
  BY <1>2 DEF TokensCount

LEMMA LimiterTypes ==
    ASSUME LimiterTypeOK, OneBucketEach, \A k \in Keys : TokensCount(k),
           [LimiterNext]_limiterVars
    PROVE  LimiterTypeOK' /\ OneBucketEach'
<1>a. /\ request \in [Requests -> RequestState] /\ bucket \in [Requests -> BucketState]
      /\ clock \in 0 .. MaxTime /\ buckets \in [Keys -> Requests \cup {NoBucket}]
  BY DEF LimiterTypeOK
<1>b. ASSUME NEW r \in Requests
      PROVE  request[r] \in RequestState /\ request[r].key \in Keys
  BY <1>a DEF RequestState
<1>1. ASSUME NEW r \in Requests, NEW pc \in {"make", "allow"}, NEW b \in Requests \cup {NoBucket},
             proceed(r, pc, b), bucket' \in [Requests -> BucketState], clock' = clock,
             \/ buckets' = buckets
             \/ buckets[request[r].key] = NoBucket /\ buckets' = [buckets EXCEPT ![request[r].key] = r],
             pc = "allow" => b = buckets'[request[r].key] /\ b # NoBucket
      PROVE  LimiterTypeOK' /\ OneBucketEach'
  <2> DEFINE x == [request[r] EXCEPT !.pc = pc, !.holds = b]
  <2>1. x \in RequestState /\ x.key = request[r].key /\ x.pc = pc /\ x.holds = b
    BY <1>b DEF RequestState
  <2>2. request' = [request EXCEPT ![r] = x]
    BY <1>1, <1>a DEF proceed
  <2> HIDE DEF x
  <2> QED
    BY <1>1, <2>1, <2>2, RequestStep
<1>2. ASSUME NEW r \in Requests, lookUp(r)
      PROVE  LimiterTypeOK' /\ OneBucketEach'
  <2> DEFINE b == buckets[request[r].key]
  <2>1. b \in Requests \cup {NoBucket}
    BY <1>a, <1>b
  <2>2. proceed(r, IF b = NoBucket THEN "make" ELSE "allow", b) /\ UNCHANGED <<clock, buckets, bucket>>
    BY <1>2 DEF lookUp
  <2>3. CASE b = NoBucket
    BY <1>1, <1>a, <2>1, <2>2, <2>3
  <2>4. CASE b # NoBucket
    BY <1>1, <1>a, <2>1, <2>2, <2>4
  <2> QED
    BY <2>3, <2>4
<1>3. ASSUME NEW r \in Requests, makeBucket(r)
      PROVE  LimiterTypeOK' /\ OneBucketEach'
  <2> DEFINE k == request[r].key
  <2>1. k \in Keys /\ r # NoBucket /\ buckets[k] \in Requests \cup {NoBucket}
    BY <1>a, <1>b, RateLimiterAssumption
  <2>2. CASE buckets[k] # NoBucket
    <3>1. proceed(r, "allow", buckets[k]) /\ UNCHANGED <<clock, buckets, bucket>>
      BY <1>3, <2>2 DEF makeBucket, again
    <3> QED
      BY <1>1, <1>a, <2>1, <2>2, <3>1
  <2>3. CASE buckets[k] = NoBucket
    <3>1. /\ proceed(r, "allow", r) /\ buckets' = [buckets EXCEPT ![k] = r] /\ clock' = clock
          /\ bucket' = [bucket EXCEPT ![r] = [tokens |-> Burst, lastUpdate |-> clock]]
      BY <1>3, <2>3 DEF makeBucket, again
    <3>2. [tokens |-> Burst, lastUpdate |-> clock] \in BucketState
      BY <1>a, RateLimiterAssumption DEF BucketState
    <3>3. bucket' \in [Requests -> BucketState] /\ buckets'[k] = r
      BY <1>a, <2>1, <3>1, <3>2
    <3> QED
      BY <1>1, <2>1, <2>3, <3>1, <3>3
  <2> QED
    BY <2>2, <2>3
<1>4. ASSUME NEW r \in Requests, Allow(r)
      PROVE  LimiterTypeOK' /\ OneBucketEach'
  <2> DEFINE b == request[r].holds
  <2>1. b \in Requests /\ b = buckets[request[r].key] /\ b # NoBucket
    BY <1>4, BucketHeld
  <2>2. refilled(b) \in 0 .. Burst
    BY <1>4, BucketHeld, Refilled
  <2>3. PICK t \in 0 .. Burst, pc \in {"served", "limited"} :
            /\ bucket' = [bucket EXCEPT ![b] = [tokens |-> t, lastUpdate |-> clock]]
            /\ request' = [request EXCEPT ![r].pc = pc, ![r].at = clock]
            /\ UNCHANGED <<clock, buckets>>
    <3>1. CASE refilled(b) >= 1
      <4>1. refilled(b) - 1 \in 0 .. Burst
        BY <2>2, <3>1, RateLimiterAssumption
      <4> QED
        BY <1>4, <3>1, <4>1 DEF Allow
    <3>2. CASE ~(refilled(b) >= 1)
      BY <1>4, <2>2, <3>2 DEF Allow
    <3> QED
      BY <3>1, <3>2
  <2> DEFINE x == [request[r] EXCEPT !.pc = pc, !.at = clock]
  <2>4. x \in RequestState /\ x.key = request[r].key /\ x.holds = b
    BY <1>a, <1>b DEF RequestState
  <2>5. request' = [request EXCEPT ![r] = x]
    BY <1>a, <2>3
  <2>6. bucket' \in [Requests -> BucketState]
    <3>1. [tokens |-> t, lastUpdate |-> clock] \in BucketState
      BY <1>a DEF BucketState
    <3> QED
      BY <1>a, <2>1, <2>3, <3>1
  <2> HIDE DEF x
  <2> QED
    BY <2>1, <2>3, <2>4, <2>5, <2>6, RequestStep
<1>5. ASSUME Tick
      PROVE  LimiterTypeOK' /\ OneBucketEach'
  BY <1>5, RateLimiterAssumption DEF Tick, LimiterTypeOK, OneBucketEach
<1>6. ASSUME UNCHANGED limiterVars
      PROVE  LimiterTypeOK' /\ OneBucketEach'
  BY <1>6 DEF limiterVars, LimiterTypeOK, OneBucketEach
<1> QED
  BY <1>2, <1>3, <1>4, <1>5, <1>6 DEF LimiterNext

\* The requests of k that were let through from a to b.
Window(k, a, b) == {r \in letThrough(k) : request[r].at \in a .. b}

WindowKept(k) == \A a \in 0 .. MaxTime, b \in 0 .. MaxTime :
                    a <= b => Cardinality(Window(k, a, b)) <= Burst + Rate * (b - a)

\* A client none of whose requests is let through, and whose bucket stays.
LEMMA Undisturbed ==
    ASSUME LimiterTypeOK, LimiterTypeOK', NEW k \in Keys, TokensCount(k), WindowKept(k),
           letThrough(k)' = letThrough(k), \A r \in letThrough(k) : request'[r].at = request[r].at,
           buckets'[k] = buckets[k], clock <= clock',
           buckets[k] # NoBucket => bucket'[buckets[k]] = bucket[buckets[k]]
    PROVE  TokensCount(k)' /\ WindowKept(k)'
<1>1. \A a, b : Window(k, a, b)' = Window(k, a, b) /\ Since(k, a)' = Since(k, a)
  BY DEF Window, Since
<1>2. WindowKept(k)'
  BY <1>1 DEF WindowKept
<1>3. CASE buckets[k] = NoBucket
  BY <1>2, <1>3 DEF TokensCount
<1>4. ASSUME buckets[k] # NoBucket
      PROVE  TokensCount(k)'
  <2> DEFINE b == bucket[buckets[k]]
  <2>1. bucket'[buckets'[k]] = b
    BY <1>4
  <2>2. b.lastUpdate \in Nat /\ clock \in Nat /\ clock' \in Nat
    BY <1>4, RateLimiterAssumption DEF LimiterTypeOK, BucketState
  <2>3. b.lastUpdate <= clock /\ b.lastUpdate <= clock'
    BY <1>4, <2>2 DEF TokensCount
  <2> QED
    BY <1>1, <1>4, <2>1, <2>3 DEF TokensCount
<1> QED
  BY <1>2, <1>3, <1>4

LEMMA WindowFinite ==
    ASSUME NEW k, IsFiniteSet(letThrough(k)), NEW S, S \subseteq letThrough(k)
    PROVE  IsFiniteSet(S) /\ Cardinality(S) \in Nat /\ Cardinality(S) <= Cardinality(letThrough(k))
BY FS_Subset, FS_CardinalityType

\* TokensCount of a bucket that was updated just now.
LEMMA BucketCounts ==
    ASSUME NEW k, NEW t, clock \in Nat, clock' = clock, IsFiniteSet(letThrough(k)'),
           bucket'[buckets'[k]].tokens = t, bucket'[buckets'[k]].lastUpdate = clock,
           \A s \in letThrough(k)' : request'[s].at <= clock,
           Burst <= Cardinality(letThrough(k)') + t,
           \A a \in 0 .. clock : Cardinality(Since(k, a)') + t <= Burst + Rate * (clock - a)
    PROVE  TokensCount(k)'
<1> DEFINE B == bucket'[buckets'[k]]
<1>1. B.lastUpdate <= clock'
  OBVIOUS
<1>2. Burst <= Cardinality(letThrough(k)') + B.tokens
  OBVIOUS
<1>3. \A s \in letThrough(k)' : request'[s].at <= B.lastUpdate
  OBVIOUS
<1>4. \A a \in 0 .. B.lastUpdate :
        Cardinality(Since(k, a)') + B.tokens <= Burst + Rate * (B.lastUpdate - a)
  OBVIOUS
<1> QED
  BY <1>1, <1>2, <1>3, <1>4, Zenon DEF TokensCount

\* The client whose request takes a token, or finds none.
LEMMA AllowKeeps ==
    ASSUME LimiterTypeOK, LimiterTypeOK', OneBucketEach, \A j \in Keys : TokensCount(j),
           NEW r \in Requests, Allow(r), NEW k \in Keys, request[r].key = k, WindowKept(k)
    PROVE  /\ TokensCount(k)' /\ WindowKept(k)'
           /\ request'[r].pc = "limited" => Cardinality(letThrough(k)) >= Burst
           /\ IsFiniteSet(letThrough(k)') /\ letThrough(k) \subseteq letThrough(k)'
<1> DEFINE b == buckets[k]
           B == bucket[b]
           t == refilled(b)
<1>1. /\ k \in Keys /\ b \in Requests /\ b # NoBucket /\ b = request[r].holds
      /\ B.lastUpdate <= clock /\ B.lastUpdate \in Nat /\ clock \in Nat /\ B.tokens \in 0 .. Burst
      /\ buckets'[k] = b /\ clock' = clock
  <2>1. k \in Keys /\ b = request[r].holds /\ b # NoBucket /\ b \in Requests /\ B.lastUpdate <= clock
    BY BucketHeld
  <2>2. buckets' = buckets /\ clock' = clock
    BY DEF Allow
  <2> QED
    BY <2>1, <2>2, RateLimiterAssumption DEF LimiterTypeOK, BucketState
<1>2. t \in 0 .. Burst /\ B.tokens <= t /\ t <= B.tokens + Rate * (clock - B.lastUpdate)
  BY <1>1, Refilled
<1>3. /\ IsFiniteSet(letThrough(k))
      /\ \A s \in letThrough(k) : request[s].at <= B.lastUpdate
      /\ Burst <= Cardinality(letThrough(k)) + B.tokens
      /\ \A a \in 0 .. B.lastUpdate :
            Cardinality(Since(k, a)) + B.tokens <= Burst + Rate * (B.lastUpdate - a)
  BY <1>1 DEF TokensCount
<1>4. /\ r \notin letThrough(k) /\ request[r].pc = "allow"
      /\ \A s \in Requests \ {r} : request'[s] = request[s]
      /\ request'[r].key = k /\ request'[r].at = clock
  BY DEF Allow, letThrough, LimiterTypeOK, RequestState
<1>5. Cardinality(letThrough(k)) \in Nat /\ \A a : Cardinality(Since(k, a)) \in Nat
  BY <1>3, WindowFinite DEF Since
<1>6. \A s \in letThrough(k) : s # r /\ request'[s] = request[s] /\ request[s].at <= clock
                               /\ request[s].at \in Nat
  BY <1>1, <1>3, <1>4, RateLimiterAssumption DEF letThrough, LimiterTypeOK, RequestState
<1>a. Burst \in Nat /\ Rate \in Nat
  BY RateLimiterAssumption
\* What has come since a, were the clock the time of the bucket's last update.
<1>7. ASSUME NEW a \in 0 .. clock, Burst + Rate * (clock - a) < Cardinality(Since(k, a)) + t
      PROVE  FALSE
  <2>1. CASE a <= B.lastUpdate
    <3>1. Rate * (clock - a) = Rate * (clock - B.lastUpdate) + Rate * (B.lastUpdate - a)
      BY <1>1, <1>a
    <3>2. Cardinality(Since(k, a)) + B.tokens <= Burst + Rate * (B.lastUpdate - a)
      BY <1>1, <1>3, <2>1
    <3> DEFINE p == Rate * (clock - B.lastUpdate)
               q == Rate * (B.lastUpdate - a)
    <3>3. p \in Nat /\ q \in Nat
      BY <1>1, <1>a, <2>1
    <3> HIDE DEF p, q, t
    <3>4. t <= B.tokens + p /\ Cardinality(Since(k, a)) + B.tokens <= Burst + q
          /\ Burst + (p + q) < Cardinality(Since(k, a)) + t
      BY <1>2, <1>7, <3>1, <3>2 DEF p, q
    <3> QED
      BY <1>1, <1>2, <1>5, <1>a, <3>3, <3>4
  <2>2. CASE ~(a <= B.lastUpdate)
    <3>1. Since(k, a) = {}
      BY <1>1, <1>3, <1>6, <2>2 DEF Since
    <3>2. Cardinality(Since(k, a)) = 0
      BY <3>1, FS_EmptySet
    <3>3. Rate * (clock - a) \in Nat
      BY <1>1, <1>a
    <3> QED
      BY <1>2, <1>7, <1>a, <3>2, <3>3
  <2> QED
    BY <2>1, <2>2
<1>8. \A a \in 0 .. clock : Rate * (clock - a) \in Nat
  BY <1>1, <1>a
<1>9. \A a, c \in 0 .. MaxTime : a <= c => Rate * (c - a) \in Nat
  BY <1>a, RateLimiterAssumption
<1>10. CASE t >= 1
  <2>1. /\ request'[r].pc = "served"
        /\ bucket'[b] = [tokens |-> t - 1, lastUpdate |-> clock]
    BY <1>1, <1>10 DEF Allow, LimiterTypeOK, RequestState
  <2>2. letThrough(k)' = letThrough(k) \cup {r}
    BY <1>4, <2>1 DEF letThrough
  <2>3. IsFiniteSet(letThrough(k)') /\ Cardinality(letThrough(k)') = Cardinality(letThrough(k)) + 1
    BY <1>3, <1>4, <2>2, FS_AddElement
  <2>4. ASSUME NEW a \in 0 .. clock
        PROVE  /\ Since(k, a)' = Since(k, a) \cup {r}
               /\ Cardinality(Since(k, a)') = Cardinality(Since(k, a)) + 1
    <3>1. Since(k, a)' = Since(k, a) \cup {r}
      BY <1>1, <1>4, <1>6, <2>2 DEF Since
    <3>2. IsFiniteSet(Since(k, a)) /\ r \notin Since(k, a)
      BY <1>3, <1>4, WindowFinite DEF Since
    <3> QED
      BY <3>1, <3>2, FS_AddElement
  <2>5. ASSUME NEW a \in 0 .. clock
        PROVE  Cardinality(Since(k, a)') + (t - 1) <= Burst + Rate * (clock - a)
    <3> DEFINE p == Rate * (clock - a)
    <3>1. p \in Nat
      BY <1>8
    <3>2. Cardinality(Since(k, a)) + t <= Burst + p
      <4> HIDE DEF t
      <4> QED
        BY <1>2, <1>5, <1>7, <1>a, <3>1
    <3>3. Cardinality(Since(k, a)') + (t - 1) <= Burst + p
      <4> HIDE DEF p, t
      <4> QED
        BY <1>2, <1>5, <1>a, <2>4, <3>1, <3>2
    <3> QED
      BY <3>3
  <2>6. TokensCount(k)'
    <3>1. \A s \in letThrough(k)' : request'[s].at <= clock
      BY <1>1, <1>4, <1>6, <2>2
    <3>2. Burst <= Cardinality(letThrough(k)') + (t - 1)
      <4> HIDE DEF t
      <4> QED
        BY <1>1, <1>2, <1>3, <1>5, <1>a, <2>3
    <3>3. bucket'[buckets'[k]].tokens = t - 1 /\ bucket'[buckets'[k]].lastUpdate = clock
      BY <1>1, <2>1
    <3> QED
      BY <1>1, <2>3, <2>5, <3>1, <3>2, <3>3, BucketCounts
  <2>7. WindowKept(k)'
    <3> SUFFICES ASSUME NEW a \in 0 .. MaxTime, NEW c \in 0 .. MaxTime, a <= c
                 PROVE  Cardinality(Window(k, a, c)') <= Burst + Rate * (c - a)
      BY DEF WindowKept
    <3> DEFINE p == Rate * (c - a)
    <3>0. p \in Nat /\ a \in Nat /\ c \in Nat
      BY <1>9, RateLimiterAssumption
    <3>1. CASE c < clock
      <4>1. Window(k, a, c)' = Window(k, a, c)
        BY <1>1, <1>4, <1>6, <2>2, <3>1 DEF Window
      <4> QED
        BY <4>1 DEF WindowKept
    <3>2. CASE clock <= c /\ a <= clock
      <4>1. Window(k, a, c)' \subseteq Since(k, a)'
        BY <1>6, <1>4, <1>1, <2>2, <3>0 DEF Window, Since
      <4>2. Cardinality(Window(k, a, c)') <= Cardinality(Since(k, a)') /\ Cardinality(Window(k, a, c)') \in Nat
        <5>1. IsFiniteSet(Since(k, a)')
          BY <2>3, FS_Subset DEF Since
        <5> QED
          BY <4>1, <5>1, FS_Subset, FS_CardinalityType
      <4>3. Cardinality(Since(k, a)') + (t - 1) <= Burst + Rate * (clock - a)
        BY <1>1, <2>5, <3>0, <3>2
      <4>4. Rate * (c - a) = Rate * (clock - a) + Rate * (c - clock)
        BY <1>1, <1>a, <3>0
      <4>5. Rate * (clock - a) \in Nat /\ Rate * (c - clock) \in Nat
        BY <1>1, <1>a, <3>0, <3>2
      <4> DEFINE q == Rate * (clock - a)
                 u == Rate * (c - clock)
      <4>6. Cardinality(Since(k, a)') \in Nat
        BY <1>1, <1>5, <2>4, <3>0, <3>2
      <4> HIDE DEF q, u, t
      <4>7. /\ Cardinality(Since(k, a)') + (t - 1) <= Burst + q /\ q \in Nat /\ u \in Nat
            /\ Rate * (c - a) = q + u
        BY <4>3, <4>4, <4>5 DEF q, u
      <4> QED
        BY <1>2, <1>10, <1>a, <4>2, <4>6, <4>7
    <3>3. CASE clock < a
      <4>1. Window(k, a, c)' = {}
        BY <1>1, <1>4, <1>6, <2>2, <3>0, <3>3 DEF Window
      <4>2. Cardinality(Window(k, a, c)') = 0
        BY <4>1, FS_EmptySet
      <4> HIDE DEF p
      <4>3. 0 <= Burst + p
        BY <1>a, <3>0
      <4> QED
        BY <4>2, <4>3 DEF p
    <3> QED
      BY <1>1, <3>0, <3>1, <3>2, <3>3
  <2> QED
    BY <2>1, <2>2, <2>3, <2>6, <2>7
<1>11. CASE ~(t >= 1)
  <2>1. /\ request'[r].pc = "limited" /\ t = 0
        /\ bucket'[b] = [tokens |-> t, lastUpdate |-> clock]
    BY <1>1, <1>2, <1>11, <1>a DEF Allow, LimiterTypeOK, RequestState
  <2>2. letThrough(k)' = letThrough(k)
    BY <1>4, <2>1 DEF letThrough
  <2>3. \A a, c : Since(k, a)' = Since(k, a) /\ Window(k, a, c)' = Window(k, a, c)
    BY <1>6, <2>2 DEF Since, Window
  <2>4. TokensCount(k)'
    <3>1. \A s \in letThrough(k)' : request'[s].at <= clock
      BY <1>6, <2>2
    <3>2. Burst <= Cardinality(letThrough(k)') + t
      <4> HIDE DEF t
      <4> QED
        BY <1>1, <1>2, <1>3, <1>5, <1>a, <2>2
    <3>3. bucket'[buckets'[k]].tokens = t /\ bucket'[buckets'[k]].lastUpdate = clock
      BY <1>1, <2>1
    <3>4. ASSUME NEW a \in 0 .. clock
          PROVE  Cardinality(Since(k, a)') + t <= Burst + Rate * (clock - a)
      <4> DEFINE p == Rate * (clock - a)
      <4>1. p \in Nat
        BY <1>8
      <4> HIDE DEF t
      <4> QED
        BY <1>2, <1>5, <1>7, <1>a, <2>3, <4>1
    <3> QED
      BY <1>1, <1>3, <2>2, <3>1, <3>2, <3>3, <3>4, BucketCounts
  <2>5. WindowKept(k)'
    BY <2>3 DEF WindowKept
  <2>6. Cardinality(letThrough(k)) >= Burst
    BY <1>1, <1>2, <1>3, <1>5, <1>a, <2>1
  <2> QED
    BY <1>3, <2>2, <2>4, <2>5, <2>6
<1> QED
  BY <1>10, <1>11

LEMMA LimiterStep ==
    ASSUME LimiterTypeOK, LimiterInv, [LimiterNext]_limiterVars
    PROVE  LimiterTypeOK' /\ LimiterInv'
<1>a. LimiterTypeOK' /\ OneBucketEach'
  BY LimiterTypes DEF LimiterInv
<1>b. \A k \in Keys : TokensCount(k) /\ WindowKept(k)
  BY DEF LimiterInv, RateKept, WindowKept, Window
<1>c. \A r \in Requests : request[r] \in RequestState /\ request[r].key \in Keys
  BY DEF LimiterTypeOK, RequestState
<1>d. \A k \in Keys : buckets[k] = NoBucket => letThrough(k) = {}
  BY DEF LimiterInv, OneBucketEach, letThrough
\* A step that lets none through and turns none away.
<1>1. ASSUME \A r \in Requests : \/ request'[r] = request[r]
                                 \/ /\ request[r].pc \in {"new", "make"}
                                    /\ request'[r].pc \in {"make", "allow"},
             clock <= clock',
             \A k \in Keys : \/ /\ buckets'[k] = buckets[k]
                                /\ buckets[k] # NoBucket => bucket'[buckets[k]] = bucket[buckets[k]]
                             \/ /\ buckets[k] = NoBucket /\ clock' = clock
                                /\ bucket'[buckets'[k]] = [tokens |-> Burst, lastUpdate |-> clock]
      PROVE  LimiterInv'
  <2>1. \A k \in Keys : /\ letThrough(k)' = letThrough(k)
                        /\ \A r \in letThrough(k) : request'[r].at = request[r].at
    BY <1>1 DEF letThrough
  <2>2. ASSUME NEW k \in Keys
        PROVE  TokensCount(k)' /\ WindowKept(k)'
    <3>1. CASE /\ buckets'[k] = buckets[k]
               /\ buckets[k] # NoBucket => bucket'[buckets[k]] = bucket[buckets[k]]
      BY <1>1, <1>a, <1>b, <2>1, <3>1, Undisturbed
    <3>2. CASE /\ buckets[k] = NoBucket /\ clock' = clock
               /\ bucket'[buckets'[k]] = [tokens |-> Burst, lastUpdate |-> clock]
      <4>1. letThrough(k)' = {}
        BY <1>d, <2>1, <3>2
      <4>2. \A a : Since(k, a)' = {}
        BY <4>1 DEF Since
      <4>3. \A a, b : Window(k, a, b)' = {}
        BY <4>1 DEF Window
      <4>4. clock' \in Nat /\ Burst \in Nat /\ Rate \in Nat
        BY <1>a, RateLimiterAssumption DEF LimiterTypeOK
      <4>5. IsFiniteSet({}) /\ Cardinality({}) = 0
        BY FS_EmptySet
      <4>6. \A a \in 0 .. clock : Cardinality(Since(k, a)') + Burst <= Burst + Rate * (clock - a)
        <5> TAKE a \in 0 .. clock
        <5> DEFINE p == Rate * (clock - a)
        <5>1. p \in Nat
          BY <3>2, <4>4
        <5>2. Since(k, a)' = {}
          BY <4>2
        <5>3. Cardinality(Since(k, a)') = 0
          BY <4>5, <5>2
        <5> HIDE DEF p
        <5>4. 0 + Burst <= Burst + p
          BY <4>4, <5>1
        <5> QED
          BY <5>3, <5>4 DEF p
      <4>7. TokensCount(k)'
        <5>1. clock \in Nat /\ clock' = clock
          BY <3>2, <4>4
        <5>2. bucket'[buckets'[k]].tokens = Burst /\ bucket'[buckets'[k]].lastUpdate = clock
          BY <3>2
        <5>3. Burst <= Cardinality(letThrough(k)') + Burst
          BY <4>1, <4>4, <4>5
        <5>4. IsFiniteSet(letThrough(k)') /\ \A s \in letThrough(k)' : request'[s].at <= clock
          BY <4>1, <4>5
        <5> QED
          BY <4>6, <5>1, <5>2, <5>3, <5>4, BucketCounts
      <4>8. \A a \in 0 .. MaxTime, b \in 0 .. MaxTime : a <= b => 0 <= Burst + Rate * (b - a)
        BY <4>4, RateLimiterAssumption
      <4>9. WindowKept(k)'
        BY <4>3, <4>5, <4>8 DEF WindowKept
      <4> QED
        BY <4>7, <4>9
    <3> QED
      BY <1>1, <3>1, <3>2
  <2>3. ASSUME NEW k \in Keys, NEW r \in Requests, request'[r].pc = "limited", request'[r].key = k
        PROVE  Cardinality(letThrough(k)') >= Burst
    <3>1. request'[r] = request[r]
      BY <1>1, <2>3
    <3> QED
      BY <2>1, <2>3, <3>1 DEF LimiterInv, RateKept
  <2>4. RateKept'
    BY <2>2, <2>3 DEF RateKept, WindowKept, Window
  <2> QED
    BY <1>a, <2>2, <2>4 DEF LimiterInv
<1>2. ASSUME NEW r \in Requests, lookUp(r)
      PROVE  LimiterInv'
  <2>1. UNCHANGED <<clock, buckets, bucket>> /\ request[r].pc = "new"
    BY <1>2 DEF lookUp
  <2>2. request'[r].pc \in {"make", "allow"} /\ \A s \in Requests \ {r} : request'[s] = request[s]
    BY <1>2, <1>c DEF lookUp, proceed, LimiterTypeOK, RequestState
  <2>3. clock <= clock'
    BY <2>1, RateLimiterAssumption DEF LimiterTypeOK
  <2> QED
    BY <1>1, <2>1, <2>2, <2>3
<1>3. ASSUME NEW r \in Requests, makeBucket(r)
      PROVE  LimiterInv'
  <2>1. clock' = clock /\ request[r].pc = "make"
    BY <1>3 DEF makeBucket
  <2>2. request'[r].pc \in {"make", "allow"} /\ \A s \in Requests \ {r} : request'[s] = request[s]
    BY <1>3, <1>c DEF makeBucket, proceed, LimiterTypeOK, RequestState
  <2>3. clock <= clock'
    BY <2>1, RateLimiterAssumption DEF LimiterTypeOK
  <2>4. ASSUME NEW k \in Keys
        PROVE  \/ /\ buckets'[k] = buckets[k]
                  /\ buckets[k] # NoBucket => bucket'[buckets[k]] = bucket[buckets[k]]
               \/ /\ buckets[k] = NoBucket /\ clock' = clock
                  /\ bucket'[buckets'[k]] = [tokens |-> Burst, lastUpdate |-> clock]
    <3>1. CASE buckets[request[r].key] # NoBucket
      BY <1>3, <3>1 DEF makeBucket, again
    <3>2. CASE buckets[request[r].key] = NoBucket
      <4>1. /\ buckets' = [buckets EXCEPT ![request[r].key] = r]
            /\ bucket' = [bucket EXCEPT ![r] = [tokens |-> Burst, lastUpdate |-> clock]]
        BY <1>3, <3>2 DEF makeBucket, again
      <4>2. CASE k = request[r].key
        BY <1>c, <2>1, <3>2, <4>1, <4>2 DEF LimiterTypeOK
      <4>3. CASE k # request[r].key
        <5>1. buckets'[k] = buckets[k]
          BY <4>1, <4>3 DEF LimiterTypeOK
        <5>2. buckets[k] # NoBucket => buckets[k] # r
          BY <4>3 DEF LimiterInv, OneBucketEach
        <5>3. buckets[k] # NoBucket => buckets[k] \in Requests
          BY DEF LimiterTypeOK
        <5> QED
          BY <4>1, <5>1, <5>2, <5>3 DEF LimiterTypeOK
      <4> QED
        BY <4>2, <4>3
    <3> QED
      BY <3>1, <3>2
  <2> QED
    BY <1>1, <2>1, <2>2, <2>3, <2>4
<1>4. ASSUME NEW r \in Requests, Allow(r)
      PROVE  LimiterInv'
  <2>1. PICK k \in Keys : k = request[r].key
    BY <1>c
  <2>2. /\ TokensCount(k)' /\ WindowKept(k)'
        /\ request'[r].pc = "limited" => Cardinality(letThrough(k)) >= Burst
        /\ IsFiniteSet(letThrough(k)') /\ letThrough(k) \subseteq letThrough(k)'
    BY <1>4, <1>a, <1>b, <2>1, AllowKeeps DEF LimiterInv
  <2>3. /\ \A s \in Requests \ {r} : request'[s] = request[s]
        /\ clock' = clock /\ buckets' = buckets /\ request'[r].key = k
    BY <1>4, <2>1 DEF Allow, LimiterTypeOK, RequestState
  <2>4. buckets[k] # NoBucket /\ bucket' = [bucket EXCEPT ![buckets[k]] = bucket'[buckets[k]]]
    <3>1. buckets[k] = request[r].holds /\ buckets[k] # NoBucket /\ buckets[k] \in Requests
      BY <1>4, <2>1, BucketHeld DEF LimiterInv
    <3>2. bucket' = [bucket EXCEPT ![buckets[k]] =
                         [tokens |-> IF refilled(buckets[k]) >= 1 THEN refilled(buckets[k]) - 1
                                     ELSE refilled(buckets[k]), lastUpdate |-> clock]]
      BY <1>4, <3>1 DEF Allow
    <3> QED
      BY <3>1, <3>2 DEF LimiterTypeOK
  <2>5. ASSUME NEW j \in Keys, j # k
        PROVE  /\ TokensCount(j)' /\ WindowKept(j)'
               /\ letThrough(j)' = letThrough(j)
    <3>1. letThrough(j)' = letThrough(j) /\ \A s \in letThrough(j) : request'[s].at = request[s].at
      BY <2>1, <2>3, <2>5 DEF letThrough
    <3>2. buckets[j] # NoBucket => buckets[j] # buckets[k] /\ buckets[j] \in Requests
      BY <2>4, <2>5 DEF LimiterInv, OneBucketEach, LimiterTypeOK
    <3>3. buckets[j] # NoBucket => bucket'[buckets[j]] = bucket[buckets[j]]
      BY <2>4, <3>2 DEF LimiterTypeOK
    <3>4. clock <= clock'
      BY <2>3, RateLimiterAssumption DEF LimiterTypeOK
    <3> QED
      BY <1>a, <1>b, <2>3, <3>1, <3>3, <3>4, Undisturbed
  <2>6. ASSUME NEW j \in Keys, NEW s \in Requests, request'[s].pc = "limited", request'[s].key = j
        PROVE  Cardinality(letThrough(j)') >= Burst
    <3>1. CASE j = k
      <4>1. Cardinality(letThrough(k)) >= Burst
        BY <2>1, <2>2, <2>3, <2>6, <3>1 DEF LimiterInv, RateKept
      <4>2. Cardinality(letThrough(k)) <= Cardinality(letThrough(k)')
            /\ Cardinality(letThrough(k)) \in Nat /\ Cardinality(letThrough(k)') \in Nat
        BY <2>2, FS_Subset, FS_CardinalityType
      <4> QED
        BY <3>1, <4>1, <4>2, RateLimiterAssumption
    <3>2. CASE j # k
      <4>1. request[s].pc = "limited" /\ request[s].key = j
        BY <2>3, <2>6, <3>2
      <4> QED
        BY <2>5, <3>2, <4>1 DEF LimiterInv, RateKept
    <3> QED
      BY <3>1, <3>2
  <2>7. \A j \in Keys : TokensCount(j)' /\ WindowKept(j)'
    BY <2>2, <2>5
  <2>8. RateKept'
    BY <2>6, <2>7 DEF RateKept, WindowKept, Window
  <2> QED
    BY <1>a, <2>7, <2>8 DEF LimiterInv
<1>5. ASSUME Tick
      PROVE  LimiterInv'
  <2>1. UNCHANGED <<buckets, bucket, request>> /\ clock <= clock'
    BY <1>5, RateLimiterAssumption DEF Tick, LimiterTypeOK
  <2> QED
    BY <1>1, <2>1
<1>6. ASSUME UNCHANGED limiterVars
      PROVE  LimiterInv'
  <2>1. UNCHANGED <<clock, buckets, bucket, request>> /\ clock <= clock'
    BY <1>6, RateLimiterAssumption DEF limiterVars, LimiterTypeOK
  <2> QED
    BY <1>1, <2>1
<1> QED
  BY <1>a, <1>2, <1>3, <1>4, <1>5, <1>6 DEF LimiterNext

\* Whatever the rate, the burst and the number of requests and clients: no client
\* gets more through in any span of time than its burst and the rate allow, and
\* none is turned away before it has had its burst.
THEOREM RateIsKept == LimiterSpec => []RateKept
<1>1. LimiterInit => LimiterTypeOK /\ LimiterInv
  <2> SUFFICES ASSUME LimiterInit PROVE LimiterTypeOK /\ LimiterInv
    OBVIOUS
  <2>1. LimiterTypeOK /\ OneBucketEach /\ \A k \in Keys : letThrough(k) = {}
    BY LimiterInitType
  <2>2. \A k \in Keys : TokensCount(k)
    BY <2>1, FS_EmptySet DEF TokensCount, LimiterInit, NoRequests
  <2>3. \A k \in Keys : \A a, b : {r \in letThrough(k) : request[r].at \in a .. b} = {}
    BY <2>1
  <2>4. \A a \in 0 .. MaxTime, b \in 0 .. MaxTime : a <= b => 0 <= Burst + Rate * (b - a)
    BY RateLimiterAssumption
  <2>5. \A r \in Requests : request[r].pc # "limited"
    BY <2>1 DEF LimiterInit, idleRequest
  <2>6. RateKept
    BY <2>3, <2>4, <2>5, FS_EmptySet DEF RateKept
  <2> QED
    BY <2>1, <2>2, <2>6 DEF LimiterInv
<1>2. LimiterTypeOK /\ LimiterInv /\ [LimiterNext]_limiterVars => (LimiterTypeOK /\ LimiterInv)'
  BY LimiterStep
<1>3. LimiterInv => RateKept
  BY DEF LimiterInv
<1> QED
  BY <1>1, <1>2, <1>3, PTL DEF LimiterSpec

-----------------------------------------------------------------------------
(* The watched directories. *)

\* A set a walk from r cannot leave.
Closed(r, C) == {r} \ Ignored \subseteq C /\ \A e \in C : Children(e) \ Ignored \subseteq C

LEMMA BelowDef ==
    ASSUME NEW r \in Dirs
    PROVE  Below[r] = {d \in Dirs : \A C \in SUBSET Dirs : Closed(r, C) => d \in C}
BY DEF Below, Closed

\* A walk comes by the children of what it comes by.
LEMMA BelowGoesOn ==
    ASSUME NEW r \in Dirs, NEW d \in Below[r], NEW c \in Children(d) \ Ignored
    PROVE  c \in Below[r]
<1>1. c \in Dirs
  BY DEF Children
<1>2. ASSUME NEW C \in SUBSET Dirs, Closed(r, C) PROVE c \in C
  <2>1. d \in C
    BY <1>2, BelowDef
  <2> QED
    BY <1>2, <2>1 DEF Closed
<1> QED
  BY <1>1, <1>2, BelowDef

\* It comes by a directory itself, or by one through the directory it is in.
LEMMA BelowComesFrom ==
    ASSUME NEW r \in Dirs, NEW d \in Below[r]
    PROVE  /\ d \in Dirs \ Ignored
           /\ d = r \/ (Parent[d] \in Below[r] /\ d \in Children(Parent[d]))
<1> DEFINE C == {e \in Below[r] \ Ignored :
                    e = r \/ (Parent[e] \in Below[r] /\ e \in Children(Parent[e]))}
<1>1. Below[r] \subseteq Dirs
  BY BelowDef
<1>2. {r} \ Ignored \subseteq Below[r]
  BY BelowDef DEF Closed
<1>3. Closed(r, C)
  <2>1. {r} \ Ignored \subseteq C
    BY <1>2
  <2>2. ASSUME NEW e \in C, NEW c \in Children(e) \ Ignored PROVE c \in C
    <3>1. c \in Below[r] /\ Parent[c] = e /\ c \in Children(Parent[c])
      BY BelowGoesOn DEF Children
    <3> QED
      BY <3>1
  <2> QED
    BY <2>1, <2>2 DEF Closed
<1>4. C \in SUBSET Dirs
  BY <1>1
<1> HIDE DEF C
<1>5. d \in C
  BY <1>3, <1>4, BelowDef
<1> QED
  BY <1>1, <1>5 DEF C

\* What is below a directory is it or below one that it contains.
LEMMA BelowSplits ==
    ASSUME NEW r \in Dirs, NEW d \in Below[r], d # r
    PROVE  \E c \in Children(r) \ Ignored : d \in Below[c]
<1> DEFINE C == {r} \cup UNION {Below[c] : c \in Children(r) \ Ignored}
<1>0. \A c \in Children(r) : c \in Dirs
  BY DEF Children
<1>1. \A c \in Dirs \ Ignored : c \in Below[c]
  BY BelowDef DEF Closed
<1>2. \A e \in C : Children(e) \ Ignored \subseteq C
  <2>1. ASSUME NEW e \in C, NEW x \in Children(e) \ Ignored PROVE x \in C
    <3>1. CASE e = r
      BY <1>0, <1>1, <3>1
    <3>2. ASSUME NEW c \in Children(r) \ Ignored, e \in Below[c] PROVE x \in C
      BY <1>0, <3>2, BelowGoesOn
    <3> QED
      BY <3>1, <3>2
  <2> QED
    BY <2>1
<1>3. C \in SUBSET Dirs
  BY <1>0, BelowDef
<1>4. Closed(r, C)
  BY <1>2 DEF Closed
<1> HIDE DEF C
<1>5. d \in C
  BY <1>3, <1>4, BelowDef
<1> QED
  BY <1>5 DEF C

\* There is nothing below a directory that is gone.
LEMMA NothingBelow ==
    ASSUME \A d \in dirs : Parent[d] \in dirs, NEW r \in Dirs \ dirs
    PROVE  Below[r] \cap dirs = {}
<1> DEFINE C == Dirs \ dirs
<1>1. Closed(r, C)
  BY DEF Closed, Children
<1> QED
  BY <1>1, BelowDef

LEMMA DueDef ==
    ASSUME TreeTypeOK
    PROVE  /\ \A e : e \in Due <=> \/ e \in watcher.enter
                                   \/ \E i \in DOMAIN events : e = events[i]
                                   \/ \E d \in watcher.list : e \in Children(d) \ Ignored
           /\ Due \subseteq Dirs
<1>1. \A i \in DOMAIN events : events[i] \in Dirs
  BY DEF TreeTypeOK
<1> QED
  BY <1>1 DEF TreeTypeOK, Due, Children

LEMMA TreeTypes ==
    ASSUME TreeTypeOK, TreeNext
    PROVE  TreeTypeOK'
<1>1. ASSUME change, TreeNext PROVE steps' \in 0 .. MaxSteps
  BY <1>1, WatchedTreeAssumption DEF change, TreeTypeOK
<1>2. ASSUME NEW d \in Dirs, makeDir(d) PROVE TreeTypeOK'
  BY <1>1, <1>2 DEF makeDir, TreeTypeOK, TreeNext
<1>3. ASSUME NEW d \in Dirs, removeDir(d) PROVE TreeTypeOK'
  BY <1>1, <1>3 DEF removeDir, TreeTypeOK, TreeNext
<1>4. ASSUME NEW r \in Roots, handleSetProjectRoot(r) PROVE TreeTypeOK'
  BY <1>1, <1>4 DEF handleSetProjectRoot, TreeTypeOK, TreeNext
<1>5. ASSUME NEW r \in Roots, signal(r) PROVE TreeTypeOK'
  BY <1>5 DEF signal, TreeTypeOK
<1>6. ASSUME resetWatcher PROVE TreeTypeOK'
  BY <1>6, WatchedTreeAssumption DEF resetWatcher, TreeTypeOK, walking
<1>7. ASSUME dirCreated PROVE TreeTypeOK'
  <2>1. Head(events) \in Dirs /\ Tail(events) \in Seq(Dirs)
    BY <1>7 DEF dirCreated, TreeTypeOK
  <2>2. walking(watcher.root, {Head(events)} \cap (dirs \ Ignored))
          \in [root : Roots, enter : SUBSET Dirs, list : SUBSET Dirs]
    BY <2>1 DEF walking, TreeTypeOK
  <2> QED
    BY <1>7, <2>1, <2>2 DEF dirCreated, TreeTypeOK
<1>8. ASSUME NEW d \in Dirs, enterDir(d) PROVE TreeTypeOK'
  BY <1>8 DEF enterDir, TreeTypeOK
<1>9. ASSUME NEW d \in Dirs, listDir(d) PROVE TreeTypeOK'
  BY <1>9 DEF listDir, TreeTypeOK, listed, Children
<1> QED
  BY <1>2, <1>3, <1>4, <1>5, <1>6, <1>7, <1>8, <1>9 DEF TreeNext

LEMMA TreeStep ==
    ASSUME TreeTypeOK, TreeTypeOK', TreeInv, TreeNext
    PROVE  TreeInv'
<1>a. /\ Roots \subseteq dirs /\ \A d \in dirs : Parent[d] \in dirs
      /\ \A d \in Visible(watcher.root) \ watched : \E e \in Due : d \in Below[e]
      /\ watcher.root \in Roots /\ watcher.root \in Dirs
      /\ \A d, e \in watcher.list : d = e
  BY WatchedTreeAssumption DEF TreeInv, TreeTypeOK
<1>b. \A e : e \in Due <=> \/ e \in watcher.enter
                           \/ \E i \in DOMAIN events : e = events[i]
                           \/ \E d \in watcher.list : e \in Children(d) \ Ignored
  BY DueDef
<1>c. \A e : e \in Due' <=> \/ e \in watcher'.enter
                            \/ \E i \in DOMAIN events' : e = events'[i]
                            \/ \E d \in watcher'.list : e \in Children(d) \ Ignored
  <2>1. \A i \in DOMAIN events' : events'[i] \in Dirs
    BY DEF TreeTypeOK
  <2> QED
    BY <2>1 DEF TreeTypeOK, Due, Children
<1>d. Due \subseteq Dirs /\ \A d \in Dirs : Below[d] \subseteq Dirs
  BY DueDef, BelowDef
<1>1. ASSUME NEW c \in Dirs, makeDir(c)
      PROVE  TreeInv'
  <2>1. /\ c \notin dirs /\ Parent[c] \in dirs /\ dirs' = dirs \cup {c}
        /\ UNCHANGED <<watched, watcher>>
        /\ events' = IF Parent[c] \in watched THEN Append(events, c) ELSE events
    BY <1>1 DEF makeDir
  <2>2. Due \subseteq Due'
    BY <1>b, <1>c, <2>1 DEF TreeTypeOK
  <2>3. Parent[c] \in watched => c \in Due'
    <3>1. ASSUME Parent[c] \in watched
          PROVE  \E i \in DOMAIN events' : c = events'[i]
      <4>1. events' = Append(events, c) /\ events \in Seq(Dirs)
        BY <2>1, <3>1 DEF TreeTypeOK
      <4>2. Len(events) + 1 \in DOMAIN events' /\ events'[Len(events) + 1] = c
        BY <4>1
      <4> QED
        BY <4>2
    <3> QED
      BY <1>c, <3>1
  <2>4. ASSUME NEW d \in Visible(watcher.root)' \ watched'
        PROVE  \E e \in Due' : d \in Below[e]
    <3>1. d \in Below[watcher.root] /\ d \notin watched /\ d \in dirs \cup {c}
      BY <2>1, <2>4 DEF Visible
    <3>2. CASE d \in dirs
      BY <1>a, <2>2, <3>1, <3>2 DEF Visible
    <3>3. CASE d = c
      <4>1. d \notin Ignored /\ d \in Dirs /\ d \in Below[d]
        <5>1. d \notin Ignored /\ d \in Dirs
          BY <1>a, <3>1, BelowComesFrom
        <5> QED
          BY <5>1, BelowDef DEF Closed
      <4>2. CASE Parent[d] \in watched
        BY <2>3, <3>3, <4>1, <4>2
      <4>3. CASE Parent[d] \notin watched
        <5>0. d # watcher.root
          BY <1>a, <2>1, <3>3
        <5>1. Parent[d] \in Below[watcher.root] /\ d \in Children(Parent[d])
          BY <1>a, <3>1, <5>0, BelowComesFrom
        <5>2. Parent[d] \in Visible(watcher.root) \ watched
          BY <2>1, <3>3, <4>3, <5>1 DEF Visible
        <5>3. PICK e \in Due : Parent[d] \in Below[e]
          BY <1>a, <5>2
        <5>4. d \in Below[e]
          BY <1>d, <4>1, <5>1, <5>3, BelowGoesOn
        <5> QED
          BY <2>2, <5>4
      <4> QED
        BY <4>2, <4>3
    <3> QED
      BY <3>1, <3>2, <3>3
  <2> QED
    BY <1>a, <2>1, <2>4 DEF TreeInv
<1>2. ASSUME NEW c \in Dirs, removeDir(c)
      PROVE  TreeInv'
  <2>1. /\ c \in dirs \ Roots /\ Children(c) \cap dirs = {}
        /\ dirs' = dirs \ {c} /\ watched' = watched \ {c}
        /\ UNCHANGED <<events, watcher>>
    BY <1>2 DEF removeDir
  <2>2. Due' = Due
    BY <2>1 DEF Due
  <2>3. \A d \in dirs' : Parent[d] \in dirs'
    BY <1>a, <2>1, WatchedTreeAssumption DEF Children, TreeTypeOK
  <2> QED
    BY <1>a, <2>1, <2>2, <2>3 DEF TreeInv, Visible
\* The steps that leave the directories as they are.
<1>3. ASSUME dirs' = dirs, watcher'.root = watcher.root, watched \subseteq watched',
             \A d, e \in watcher'.list : d = e,
             \A d \in dirs \ watched', e \in Due : d \in Below[e] => \E x \in Due' : d \in Below[x]
      PROVE  TreeInv'
  BY <1>a, <1>3 DEF TreeInv, Visible, TreeTypeOK
<1>4. ASSUME NEW r \in Roots, handleSetProjectRoot(r) \/ signal(r)
      PROVE  TreeInv'
  <2>1. UNCHANGED <<dirs, watched, events, watcher>>
    BY <1>4 DEF handleSetProjectRoot, signal
  <2>2. Due' = Due
    BY <2>1 DEF Due
  <2> QED
    BY <1>3, <1>a, <2>1, <2>2
<1>5. ASSUME resetWatcher
      PROVE  TreeInv'
  <2>1. dirs' = dirs /\ watcher' = walking(resetChan, {resetChan})
    BY <1>5 DEF resetWatcher
  <2>2. watcher'.root = resetChan /\ watcher'.enter = {resetChan} /\ watcher'.list = {}
    BY <2>1 DEF walking
  <2>3. resetChan \in Due'
    BY <1>c, <2>2
  <2> QED
    BY <1>a, <2>1, <2>2, <2>3 DEF TreeInv, Visible
<1>6. ASSUME dirCreated
      PROVE  TreeInv'
  <2>1. /\ watcher.enter = {} /\ watcher.list = {} /\ events # <<>> /\ events \in Seq(Dirs)
        /\ events' = Tail(events) /\ UNCHANGED <<dirs, watched>>
        /\ watcher' = walking(watcher.root, {Head(events)} \cap (dirs \ Ignored))
    BY <1>6 DEF dirCreated, atSelect, TreeTypeOK
  <2>2. /\ watcher'.root = watcher.root
        /\ watcher'.enter = {Head(events)} \cap (dirs \ Ignored) /\ watcher'.list = {}
    BY <2>1 DEF walking
  <2>3. ASSUME NEW d \in dirs, NEW e \in Due, d \in Below[e]
        PROVE  \E x \in Due' : d \in Below[x]
    <3>1. PICK i \in DOMAIN events : e = events[i]
      BY <1>b, <2>1
    <3>2. CASE i = 1
      <4>1. e = Head(events) /\ e \in Dirs
        BY <2>1, <3>1, <3>2
      <4>2. e \in dirs
        BY <1>a, <2>3, <4>1, NothingBelow
      <4>3. e \notin Ignored
        <5>1. ASSUME e \in Ignored PROVE Below[e] = {}
          <6>1. Closed(e, {})
            BY <5>1 DEF Closed
          <6> QED
            BY <4>1, <6>1, BelowDef
        <5> QED
          BY <2>3, <5>1
      <4> QED
        BY <1>c, <2>2, <2>3, <4>1, <4>2, <4>3
    <3>3. CASE i # 1
      <4>1. i - 1 \in DOMAIN events' /\ events'[i - 1] = e
        BY <2>1, <3>1, <3>3
      <4> QED
        BY <1>c, <2>3, <4>1
    <3> QED
      BY <3>2, <3>3
  <2> QED
    BY <1>3, <2>1, <2>2, <2>3
<1>7. ASSUME NEW c \in Dirs, enterDir(c)
      PROVE  TreeInv'
  <2>1. /\ c \in watcher.enter /\ watcher.list = {}
        /\ watched' = watched \cup ({c} \cap (dirs \ Ignored)) /\ UNCHANGED <<dirs, events>>
    BY <1>7 DEF enterDir
  <2>2. /\ watcher'.root = watcher.root /\ watcher'.enter = watcher.enter \ {c}
        /\ watcher'.list = {c} \cap (dirs \ Ignored)
    BY <1>7 DEF enterDir, TreeTypeOK
  <2>3. ASSUME NEW d \in dirs \ watched', NEW e \in Due, d \in Below[e]
        PROVE  \E x \in Due' : d \in Below[x]
    <3>1. CASE e = c
      <4>1. c \in dirs
        BY <1>a, <2>3, <3>1, NothingBelow
      <4>2. c \notin Ignored
        <5>1. ASSUME c \in Ignored PROVE Below[c] = {}
          <6>1. Closed(c, {})
            BY <5>1 DEF Closed
          <6> QED
            BY <6>1, BelowDef
        <5> QED
          BY <2>3, <3>1, <5>1
      <4>3. d # c
        BY <2>1, <2>3, <4>1, <4>2
      <4>4. PICK x \in Children(c) \ Ignored : d \in Below[x]
        BY <2>3, <3>1, <4>3, BelowSplits
      <4>5. x \in Due'
        BY <1>c, <2>2, <4>1, <4>2, <4>4
      <4> QED
        BY <4>4, <4>5
    <3>2. CASE e # c
      <4>1. e \in Due'
        BY <1>b, <1>c, <2>1, <2>2, <3>2
      <4> QED
        BY <2>3, <4>1
    <3> QED
      BY <3>1, <3>2
  <2> QED
    BY <1>3, <2>1, <2>2, <2>3
<1>8. ASSUME NEW c \in Dirs, listDir(c)
      PROVE  TreeInv'
  <2>1. c \in watcher.list /\ UNCHANGED <<dirs, watched, events>>
    BY <1>8 DEF listDir
  <2>2. /\ watcher'.root = watcher.root /\ watcher'.list = {}
        /\ watcher'.enter = watcher.enter \cup (Children(c) \cap dirs)
    BY <1>8 DEF listDir, listed, TreeTypeOK
  <2>3. ASSUME NEW d \in dirs, NEW e \in Due, d \in Below[e]
        PROVE  \E x \in Due' : d \in Below[x]
    <3>1. e \in Dirs /\ e \in dirs
      BY <1>a, <1>d, <2>3, NothingBelow
    <3>2. e \in watcher.enter \/ (\E i \in DOMAIN events : e = events[i]) \/ e \in Children(c)
      BY <1>a, <1>b, <2>1
    <3>3. e \in Due'
      BY <1>c, <2>1, <2>2, <3>1, <3>2
    <3> QED
      BY <2>3, <3>3
  <2> QED
    BY <1>3, <2>1, <2>2, <2>3
<1> QED
  BY <1>1, <1>2, <1>4, <1>5, <1>6, <1>7, <1>8 DEF TreeNext

\* However the directories lie in one another, whichever are ignored, and
\* whatever is made, removed and reset meanwhile.
THEOREM TreeIsWatched == TreeSpec => []EveryDirectoryWatched
<1>1. TreeInit => TreeTypeOK /\ TreeInv
  <2> SUFFICES ASSUME TreeInit PROVE TreeTypeOK /\ TreeInv
    OBVIOUS
  <2>1. PICK r \in Roots : watcher = walking(r, {r})
    BY DEF TreeInit
  <2>2. r \in Dirs /\ watcher.root = r /\ watcher.enter = {r} /\ watcher.list = {}
    BY <2>1, WatchedTreeAssumption DEF walking
  <2>3. TreeTypeOK
    BY <2>1, WatchedTreeAssumption DEF walking, TreeInit, Unwatched, TreeTypeOK
  <2>4. r \in Due
    BY <2>2, <2>3, DueDef
  <2> QED
    BY <2>2, <2>3, <2>4 DEF TreeInit, TreeInv, Visible
<1>2. TreeTypeOK /\ TreeInv /\ [TreeNext]_treeVars => TreeTypeOK' /\ TreeInv'
  <2>1. TreeTypeOK /\ TreeInv /\ UNCHANGED treeVars => TreeTypeOK' /\ TreeInv'
    BY DEF treeVars, TreeTypeOK, TreeInv, Visible, Due
  <2> QED
    BY <2>1, TreeTypes, TreeStep
<1>3. TreeTypeOK /\ TreeInv => EveryDirectoryWatched
  <2> SUFFICES ASSUME TreeTypeOK, TreeInv, atSelect, events = <<>>
               PROVE  Visible(watcher.root) \subseteq watched
    BY DEF EveryDirectoryWatched
  <2>1. Due = {}
    BY DueDef DEF atSelect
  <2> QED
    BY <2>1 DEF TreeInv
<1> QED
  BY <1>1, <1>2, <1>3, PTL DEF TreeSpec

-----------------------------------------------------------------------------
(* Sums over a finite set, as MapThenSumSet computes them. *)

\* Among some subsets of a finite set there is one none of the others is in.
LEMMA SmallestSet ==
    ASSUME NEW S, IsFiniteSet(S), NEW B, B \subseteq SUBSET S, B # {}
    PROVE  \E s \in B : \A t \in B : t \subseteq s => t = s
<1>1. IsWellFoundedOn(StrictSubsetOrdering(S), SUBSET S)
  BY FS_StrictSubsetOrderingWellFounded, FS_FiniteSubsetsOfFinite
<1>2. PICK s \in B : \A t \in B : <<t, s>> \notin StrictSubsetOrdering(S)
  BY <1>1, WFMin
<1> QED
  BY <1>2 DEF StrictSubsetOrdering

\* g sums f over every subset of S.
one(s) == CHOOSE x \in s : TRUE

SumsTo(g, f, S) ==
    g = [s \in SUBSET S |-> IF s = {} THEN 0 ELSE f[one(s)] + g[s \ {one(s)}]]

LEMMA SumsToStep ==
    ASSUME NEW g, NEW f, NEW S, SumsTo(g, f, S)
    PROVE  /\ g[{}] = 0
           /\ \A s \in SUBSET S : s # {} => /\ one(s) \in s /\ s \ {one(s)} \in SUBSET S
                                          /\ g[s] = f[one(s)] + g[s \ {one(s)}]
<1>1. g[{}] = 0
  BY DEF SumsTo
<1>2. ASSUME NEW s \in SUBSET S, s # {}
      PROVE  /\ one(s) \in s /\ s \ {one(s)} \in SUBSET S
             /\ g[s] = f[one(s)] + g[s \ {one(s)}]
  <2>1. one(s) \in s
    BY <1>2 DEF one
  <2>2. g[s] = f[one(s)] + g[s \ {one(s)}]
    BY <1>2 DEF SumsTo
  <2> QED
    BY <2>1, <2>2
<1> QED
  BY <1>1, <1>2

LEMMA SumUnique ==
    ASSUME NEW f, NEW S, IsFiniteSet(S), NEW T, T \subseteq S,
           NEW g, SumsTo(g, f, S), NEW h, SumsTo(h, f, T)
    PROVE  \A s \in SUBSET T : g[s] = h[s]
<1> DEFINE Bad == {s \in SUBSET T : g[s] # h[s]}
<1>g. /\ g[{}] = 0
      /\ \A s \in SUBSET S : s # {} => /\ one(s) \in s /\ s \ {one(s)} \in SUBSET S
                                     /\ g[s] = f[one(s)] + g[s \ {one(s)}]
  BY SumsToStep
<1>h. /\ h[{}] = 0
      /\ \A s \in SUBSET T : s # {} => /\ one(s) \in s /\ s \ {one(s)} \in SUBSET T
                                     /\ h[s] = f[one(s)] + h[s \ {one(s)}]
  BY SumsToStep
<1>1. ASSUME Bad # {} PROVE FALSE
  <2>1. PICK s \in Bad : \A t \in Bad : t \subseteq s => t = s
    <3>1. Bad \subseteq SUBSET S
      OBVIOUS
    <3> HIDE DEF Bad
    <3> QED
      BY <1>1, <3>1, SmallestSet
  <2>2. s # {} /\ s \in SUBSET T /\ s \in SUBSET S /\ g[s] # h[s]
    BY <1>g, <1>h
  <2>3. one(s) \in s /\ s \ {one(s)} \in SUBSET T
    BY <1>h, <2>2
  <2>4. g[s \ {one(s)}] = h[s \ {one(s)}]
    BY <2>1, <2>3
  <2> QED
    BY <1>g, <1>h, <2>2, <2>4
<1> QED
  BY <1>1

LEMMA SumExists ==
    ASSUME NEW f, NEW S, IsFiniteSet(S)
    PROVE  \E g : SumsTo(g, f, S)
<1> DEFINE Bad == {s \in SUBSET S : ~ \E g : SumsTo(g, f, s)}
<1>1. ASSUME Bad # {} PROVE FALSE
  <2>1. PICK s \in Bad : \A t \in Bad : t \subseteq s => t = s
    <3>1. Bad \subseteq SUBSET S
      OBVIOUS
    <3> HIDE DEF Bad
    <3> QED
      BY <1>1, <3>1, SmallestSet
  <2> DEFINE sumOf(t) == CHOOSE h : SumsTo(h, f, t)
  <2>2. \A t \in SUBSET s : t # s => SumsTo(sumOf(t), f, t)
    BY <2>1
  <2> DEFINE g == [t \in SUBSET s |-> IF t = {} THEN 0
                                      ELSE f[one(t)] + sumOf(t \ {one(t)})[t \ {one(t)}]]
  <2> HIDE DEF sumOf
  <2>3. ASSUME NEW u \in SUBSET s, u # s PROVE g[u] = sumOf(u)[u]
    <3>1. SumsTo(sumOf(u), f, u)
      BY <2>2, <2>3
    <3>s. /\ sumOf(u)[{}] = 0
          /\ u # {} => /\ one(u) \in u /\ sumOf(u)[u] = f[one(u)] + sumOf(u)[u \ {one(u)}]
      BY <3>1, SumsToStep
    <3>2. CASE u = {}
      BY <3>s, <3>2
    <3>3. CASE u # {}
      <4> DEFINE v == u \ {one(u)}
      <4>1. v \in SUBSET s /\ v # s /\ v \subseteq u
        BY <2>3, <3>s, <3>3
      <4>2. g[u] = f[one(u)] + sumOf(v)[v]
        BY <3>3
      <4>3. SumsTo(sumOf(v), f, v)
        BY <2>2, <4>1
      <4>4. IsFiniteSet(u)
        BY FS_Subset
      <4> HIDE DEF v
      <4>5. sumOf(u)[v] = sumOf(v)[v]
        BY <3>1, <4>1, <4>3, <4>4, SumUnique
      <4> QED
        BY <3>s, <3>3, <4>2, <4>5 DEF v
    <3> QED
      BY <3>2, <3>3
  <2>4. g = [t \in SUBSET s |-> IF t = {} THEN 0 ELSE f[one(t)] + g[t \ {one(t)}]]
    <3>1. ASSUME NEW t \in SUBSET s, t # {}
          PROVE  sumOf(t \ {one(t)})[t \ {one(t)}] = g[t \ {one(t)}]
      <4>1. one(t) \in t
        BY <3>1 DEF one
      <4>2. t \ {one(t)} \in SUBSET s /\ t \ {one(t)} # s
        BY <4>1
      <4> HIDE DEF g
      <4> QED
        BY <2>3, <4>2
    <3>2. ASSUME NEW t \in SUBSET s
          PROVE  (IF t = {} THEN 0 ELSE f[one(t)] + sumOf(t \ {one(t)})[t \ {one(t)}])
                 = (IF t = {} THEN 0 ELSE f[one(t)] + g[t \ {one(t)}])
      <4> HIDE DEF g
      <4> QED
        BY <3>1
    <3> QED
      BY <3>2
  <2> HIDE DEF g
  <2>5. SumsTo(g, f, s)
    BY <2>4 DEF SumsTo
  <2> QED
    BY <2>1, <2>5
<1>2. S \notin Bad
  BY <1>1
<1> QED
  BY <1>2

LEMMA SumOfNothing ==
    ASSUME NEW S, IsFiniteSet(S), NEW f, \A x \in S : f[x] = 0, NEW g, SumsTo(g, f, S)
    PROVE  g[S] = 0
<1> DEFINE Bad == {s \in SUBSET S : g[s] # 0}
<1>g. /\ g[{}] = 0
      /\ \A s \in SUBSET S : s # {} => /\ one(s) \in s /\ s \ {one(s)} \in SUBSET S
                                     /\ g[s] = f[one(s)] + g[s \ {one(s)}]
  BY SumsToStep
<1>1. ASSUME Bad # {} PROVE FALSE
  <2>1. PICK s \in Bad : \A t \in Bad : t \subseteq s => t = s
    <3>1. Bad \subseteq SUBSET S
      OBVIOUS
    <3> HIDE DEF Bad
    <3> QED
      BY <1>1, <3>1, SmallestSet
  <2>2. s # {} /\ s \in SUBSET S /\ g[s] # 0
    BY <1>g
  <2>3. one(s) \in s /\ s \ {one(s)} \in SUBSET S
    BY <1>g, <2>2
  <2>4. g[s \ {one(s)}] = 0 /\ f[one(s)] = 0
    BY <2>1, <2>3
  <2> QED
    BY <1>g, <2>2, <2>4
<1>2. S \notin Bad
  BY <1>1
<1> QED
  BY <1>2

\* h is f with n more at c.
Raised(f, h, c, n, S) ==
    \A x \in S : f[x] \in Nat /\ h[x] = IF x = c THEN f[x] + n ELSE f[x]

\* One summand grows, and the sum by as much.
LEMMA SumGrows ==
    ASSUME NEW S, IsFiniteSet(S), NEW f, NEW h, NEW c \in S, NEW n \in Nat,
           Raised(f, h, c, n, S),
           NEW g, SumsTo(g, f, S), NEW k, SumsTo(k, h, S)
    PROVE  k[S] = g[S] + n
<1> DEFINE more(s) == IF c \in s THEN n ELSE 0
           Bad == {s \in SUBSET S : ~ (g[s] \in Nat /\ k[s] = g[s] + more(s))}
<1>g. /\ g[{}] = 0
      /\ \A s \in SUBSET S : s # {} => /\ one(s) \in s /\ s \ {one(s)} \in SUBSET S
                                     /\ g[s] = f[one(s)] + g[s \ {one(s)}]
  BY SumsToStep
<1>k. /\ k[{}] = 0
      /\ \A s \in SUBSET S : s # {} => k[s] = h[one(s)] + k[s \ {one(s)}]
  BY SumsToStep
<1>1. ASSUME Bad # {} PROVE FALSE
  <2>1. PICK s \in Bad : \A t \in Bad : t \subseteq s => t = s
    <3>1. Bad \subseteq SUBSET S
      OBVIOUS
    <3> HIDE DEF Bad
    <3> QED
      BY <1>1, <3>1, SmallestSet
  <2>2. s \in SUBSET S /\ ~ (g[s] \in Nat /\ k[s] = g[s] + more(s))
    OBVIOUS
  <2>3. s # {}
    <3>1. g[{}] \in Nat /\ k[{}] = g[{}] + more({})
      BY <1>g, <1>k
    <3> HIDE DEF more
    <3> QED
      BY <2>2, <3>1
  <2> DEFINE x == one(s)
             t == s \ {x}
  <2>4. x \in s /\ t \in SUBSET S /\ t \subseteq s /\ t # s
    BY <1>g, <2>2, <2>3
  <2>5. g[s] = f[x] + g[t] /\ k[s] = h[x] + k[t]
    BY <1>g, <1>k, <2>2, <2>3
  <2>8. /\ more(s) \in Nat /\ more(t) = IF x = c THEN 0 ELSE more(s)
        /\ x = c => more(s) = n
    BY <2>4
  <2>6. g[t] \in Nat /\ k[t] = g[t] + more(t)
    <3> HIDE DEF t, more
    <3> QED
      BY <2>1, <2>4
  <2>7. f[x] \in Nat /\ h[x] = IF x = c THEN f[x] + n ELSE f[x]
    BY <2>2, <2>4 DEF Raised
  <2> HIDE DEF more, x, t, Bad
  <2> QED
    BY <2>2, <2>5, <2>6, <2>7, <2>8
<1>2. S \notin Bad
  BY <1>1
<1>3. k[S] = g[S] + more(S)
  BY <1>2
<1> QED
  BY <1>3

-----------------------------------------------------------------------------
(* The answer of get_related_context. *)

costs == [c \in Chunks |-> reply.times[c] * index[c].tokens]

\* TokensWritten is the sum of what the chunks cost.
LEMMA TokensAreSummed ==
    IsFiniteSet(Chunks) => \E g : SumsTo(g, costs, Chunks) /\ TokensWritten = g[Chunks]
<1> SUFFICES ASSUME IsFiniteSet(Chunks)
             PROVE  \E g : SumsTo(g, costs, Chunks) /\ TokensWritten = g[Chunks]
  OBVIOUS
<1> DEFINE adds(g) == g = [s \in SUBSET Chunks |->
                             IF s = {} THEN 0
                             ELSE reply.times[CHOOSE x \in s : TRUE]
                                    * index[CHOOSE x \in s : TRUE].tokens
                                  + g[s \ {CHOOSE x \in s : TRUE}]]
           total == CHOOSE g : adds(g)
<1>1. TokensWritten = total[Chunks]
  BY DEF TokensWritten, MapThenSumSet, MapThenFoldSet
<1>2. ASSUME NEW g PROVE SumsTo(g, costs, Chunks) <=> adds(g)
  <2>1. \A s \in SUBSET Chunks :
           s # {} => costs[one(s)] = reply.times[CHOOSE x \in s : TRUE]
                                      * index[CHOOSE x \in s : TRUE].tokens
    BY DEF one, costs
  <2>2. [s \in SUBSET Chunks |-> IF s = {} THEN 0 ELSE costs[one(s)] + g[s \ {one(s)}]]
        = [s \in SUBSET Chunks |->
              IF s = {} THEN 0
              ELSE reply.times[CHOOSE x \in s : TRUE] * index[CHOOSE x \in s : TRUE].tokens
                   + g[s \ {CHOOSE x \in s : TRUE}]]
    BY <2>1 DEF one
  <2> QED
    BY <2>2 DEF SumsTo
<1>3. \E g : SumsTo(g, costs, Chunks)
  BY SumExists
<1>4. adds(total)
  <2> HIDE DEF adds
  <2> QED
    BY <1>2, <1>3
<1> HIDE DEF adds, total
<1> QED
  BY <1>1, <1>2, <1>4

TokensSummed == \E g : SumsTo(g, costs, Chunks) /\ TokensWritten = g[Chunks]

LEMMA TokensAreSummedBefore == TokensSummed
BY TokensAreSummed, RelatedContextAssumption DEF TokensSummed

LEMMA TokensAreSummedAfter == TokensSummed'
<1>1. TokensSummed
  BY TokensAreSummedBefore
<1> QED
  BY <1>1, PTL

LEMMA ContextTypes == ContextTypeOK /\ [ContextNext]_contextVars => ContextTypeOK'
<1> SUFFICES ASSUME ContextTypeOK, [ContextNext]_contextVars PROVE ContextTypeOK'
  OBVIOUS
<1> USE DEF ContextTypeOK, ChunksOf
<1>1. CASE readFile
  BY <1>1 DEF readFile
<1>2. ASSUME NEW c \in Chunks, writeChunk(c) PROVE ContextTypeOK'
  <2>1. reply.tokens + index[c].tokens \in Nat /\ reply.times[c] + 1 \in Nat
        /\ index[c].path \in Paths
    OBVIOUS
  <2>2. CASE fits(c)
    BY <1>2, <2>1, <2>2 DEF writeChunk, written
  <2>3. CASE ~fits(c)
    BY <1>2, <2>1, <2>3 DEF writeChunk
  <2> QED
    BY <2>2, <2>3
<1>3. ASSUME NEW i \in Imports, nextImport(i) PROVE ContextTypeOK'
  BY <1>3 DEF nextImport
<1>4. CASE importsDone
  BY <1>4 DEF importsDone
<1>5. ASSUME NEW s \in Symbols, nextSymbol(s) PROVE ContextTypeOK'
  <2>1. PICK found \in SUBSET Chunks : reply' = [reply EXCEPT !.symbols = @ \ {s}, !.todo = found]
    BY <1>5 DEF nextSymbol
  <2>2. index' = index
    BY <1>5 DEF nextSymbol
  <2> QED
    BY <2>1, <2>2
<1>6. ASSUME NEW c \in Chunks, writeSample(c) PROVE ContextTypeOK'
  <2>1. reply.tokens + index[c].tokens \in Nat /\ reply.times[c] + 1 \in Nat
    OBVIOUS
  <2>2. CASE index[c].path # Target /\ fits(c)
    BY <1>6, <2>1, <2>2 DEF writeSample, written
  <2>3. CASE ~(index[c].path # Target /\ fits(c))
    BY <1>6, <2>1, <2>3 DEF writeSample
  <2> QED
    BY <2>2, <2>3
<1>7. CASE UNCHANGED contextVars
  BY <1>7 DEF contextVars
<1> QED
  BY <1>1, <1>2, <1>3, <1>4, <1>5, <1>6, <1>7 DEF ContextNext

\* What is written once more is counted once more.
LEMMA WrittenIsCounted ==
    ASSUME ContextTypeOK, ContextInv, NEW c \in Chunks, fits(c), index' = index,
           reply' = written(c)
    PROVE  /\ TokensWritten' = reply'.tokens
           /\ reply'.tokens = reply.tokens + index[c].tokens
           /\ reply'.times = [reply.times EXCEPT ![c] = @ + 1]
<1>1. PICK f : f = costs
  OBVIOUS
<1>2. PICK h : h = costs'
  OBVIOUS
<1>3. PICK n : n = index[c].tokens
  OBVIOUS
<1>4. PICK g : SumsTo(g, f, Chunks) /\ TokensWritten = g[Chunks]
  BY <1>1, TokensAreSummedBefore DEF TokensSummed
<1>5. PICK k : SumsTo(k, h, Chunks) /\ TokensWritten' = k[Chunks]
  BY <1>2, TokensAreSummedAfter DEF TokensSummed
<1>6. /\ reply'.tokens = reply.tokens + n
      /\ reply'.times = [reply.times EXCEPT ![c] = @ + 1]
  BY <1>3 DEF written, ContextTypeOK
<1>7. n \in Nat
  BY <1>3 DEF ContextTypeOK
<1>8. Raised(f, h, c, n, Chunks)
  <2> SUFFICES ASSUME NEW x \in Chunks
               PROVE  f[x] \in Nat /\ h[x] = IF x = c THEN f[x] + n ELSE f[x]
    BY DEF Raised
  <2>1. f[x] = reply.times[x] * index[x].tokens
    BY <1>1 DEF costs
  <2>2. h[x] = reply'.times[x] * index[x].tokens
    BY <1>2 DEF costs
  <2>3. reply.times[x] \in Nat /\ index[x].tokens \in Nat
    BY DEF ContextTypeOK
  <2>4. f[x] \in Nat
    BY <2>1, <2>3
  <2>5. CASE x = c
    <3>1. reply'.times[x] = reply.times[x] + 1
      BY <1>6, <2>5 DEF ContextTypeOK
    <3>2. PICK a \in Nat, b \in Nat : a = reply.times[x] /\ b = index[x].tokens
      BY <2>3
    <3>3. f[x] = a * b /\ h[x] = (a + 1) * b /\ n = b
      BY <1>3, <2>1, <2>2, <2>5, <3>1, <3>2, Zenon
    <3>4. (a + 1) * b = a * b + b
      OBVIOUS
    <3> QED
      BY <2>4, <2>5, <3>3, <3>4, Zenon
  <2>6. CASE x # c
    <3>1. reply'.times[x] = reply.times[x]
      BY <1>6, <2>6 DEF ContextTypeOK
    <3> QED
      BY <2>1, <2>2, <2>4, <2>6, <3>1
  <2> QED
    BY <2>5, <2>6
<1>9. k[Chunks] = g[Chunks] + n
  <2>1. IsFiniteSet(Chunks)
    BY RelatedContextAssumption
  <2> QED
    BY <1>4, <1>5, <1>7, <1>8, <2>1, SumGrows
<1> QED
  BY <1>3, <1>4, <1>5, <1>6, <1>9 DEF ContextInv

\* The invariant when nothing is written: a chunk may be left out for want of room.
LEMMA LeftOut ==
    ASSUME ContextTypeOK, ContextInv, index' = index, reply'.times = reply.times,
           reply'.tokens = reply.tokens, reply'.max = reply.max,
           \/ reply'.seen = reply.seen /\ reply'.omitted = reply.omitted
           \/ \E c \in Chunks : /\ ~fits(c)
                                /\ reply'.seen = reply.seen \cup {c}
                                /\ reply'.omitted = reply.omitted \cup {index[c].path}
    PROVE  ContextInv'
<1>1. TokensWritten' = TokensWritten
  BY DEF TokensWritten, MapThenSumSet, MapThenFoldSet
<1>2. \A c \in reply'.seen : reply'.times[c] > 0 \/ index[c].path \in reply'.omitted
  BY DEF ContextInv, ContextKept
<1>3. \A p \in reply'.omitted :
         \E c \in ChunksOf({p}) : reply'.tokens + index[c].tokens > reply'.max
  <2>1. ASSUME NEW c \in Chunks, ~fits(c)
        PROVE  c \in ChunksOf({index[c].path}) /\ reply.tokens + index[c].tokens > reply.max
    BY <2>1 DEF fits, ChunksOf, ContextTypeOK
  <2> QED
    BY <2>1 DEF ContextInv, ContextKept
<1>4. (\A p : ChunksOf({p})' = ChunksOf({p}))
  BY DEF ChunksOf
<1> QED
  BY <1>1, <1>2, <1>3, <1>4 DEF ContextInv, ContextKept

\* The invariant when a chunk that fits is written.
LEMMA WrittenIn ==
    ASSUME ContextTypeOK, ContextInv, NEW c \in Chunks, fits(c), index' = index,
           reply' = written(c)
    PROVE  ContextInv'
<1>1. /\ TokensWritten' = reply'.tokens
      /\ reply'.tokens = reply.tokens + index[c].tokens
      /\ reply'.times = [reply.times EXCEPT ![c] = @ + 1]
  BY WrittenIsCounted
<1>2. /\ reply'.max = reply.max /\ reply'.omitted = reply.omitted
      /\ reply'.seen = reply.seen \cup {c}
  BY DEF written, ContextTypeOK
<1>3. /\ reply.tokens \in Nat /\ index[c].tokens \in Nat /\ reply.max \in Nat
      /\ \A d \in Chunks : index[d].tokens \in Nat /\ reply.times[d] \in Nat
  BY RelatedContextAssumption DEF ContextTypeOK
<1>4. reply'.tokens <= reply'.max
  BY <1>1, <1>2 DEF fits
<1>5. \A d \in reply'.seen : reply'.times[d] > 0 \/ index[d].path \in reply'.omitted
  <2> TAKE d \in reply'.seen
  <2>1. d \in Chunks
    BY <1>2 DEF ContextTypeOK
  <2>2. CASE d = c
    BY <1>1, <1>3, <2>1, <2>2 DEF ContextTypeOK
  <2>3. CASE d # c
    <3>1. reply'.times[d] = reply.times[d] /\ d \in reply.seen
      BY <1>1, <1>2, <2>1, <2>3 DEF ContextTypeOK
    <3> QED
      BY <1>2, <3>1 DEF ContextInv, ContextKept
  <2> QED
    BY <2>2, <2>3
<1>6. \A p \in reply'.omitted :
         \E d \in ChunksOf({p}) : reply'.tokens + index[d].tokens > reply'.max
  <2> TAKE p \in reply'.omitted
  <2>1. PICK d \in ChunksOf({p}) : reply.tokens + index[d].tokens > reply.max
    BY <1>2 DEF ContextInv, ContextKept
  <2>2. d \in Chunks
    BY DEF ChunksOf
  <2>3. reply'.tokens + index[d].tokens > reply'.max
    BY <1>1, <1>2, <1>3, <2>1, <2>2
  <2> QED
    BY <2>3
<1>7. \A p : ChunksOf({p})' = ChunksOf({p})
  BY DEF ChunksOf
<1>8. TokensWritten' <= reply'.max
  BY <1>1, <1>4
<1>9. \A p \in reply'.omitted :
         \E d \in ChunksOf({p})' : reply'.tokens + index'[d].tokens > reply'.max
  BY <1>6, <1>7
<1>10. \A d \in reply'.seen : reply'.times[d] > 0 \/ index'[d].path \in reply'.omitted
  BY <1>5
<1>11. ContextKept'
  BY <1>8, <1>9, <1>10, Zenon DEF ContextKept
<1> QED
  BY <1>1, <1>4, <1>11 DEF ContextInv

LEMMA ContextStep ==
    ContextTypeOK /\ ContextInv /\ [ContextNext]_contextVars => ContextInv'
<1> SUFFICES ASSUME ContextTypeOK, ContextInv, [ContextNext]_contextVars PROVE ContextInv'
  OBVIOUS
<1>1. CASE readFile
  BY <1>1, LeftOut DEF readFile, ContextTypeOK
<1>2. ASSUME NEW c \in Chunks, writeChunk(c) PROVE ContextInv'
  <2>1. CASE fits(c)
    BY <1>2, <2>1, WrittenIn DEF writeChunk
  <2>2. CASE ~fits(c)
    <3>1. /\ index' = index
          /\ reply' = [reply EXCEPT !.todo = @ \ {c}, !.seen = @ \cup {c},
                                    !.omitted = @ \cup {index[c].path}]
      BY <1>2, <2>2 DEF writeChunk
    <3> QED
      BY <2>2, <3>1, LeftOut DEF ContextTypeOK
  <2> QED
    BY <2>1, <2>2
<1>3. ASSUME NEW i \in Imports, nextImport(i) PROVE ContextInv'
  BY <1>3, LeftOut DEF nextImport, ContextTypeOK
<1>4. CASE importsDone
  BY <1>4, LeftOut DEF importsDone, ContextTypeOK
<1>5. ASSUME NEW s \in Symbols, nextSymbol(s) PROVE ContextInv'
  BY <1>5, LeftOut DEF nextSymbol, ContextTypeOK
<1>6. ASSUME NEW c \in Chunks, writeSample(c) PROVE ContextInv'
  <2>1. CASE index[c].path # Target /\ fits(c)
    BY <1>6, <2>1, WrittenIn DEF writeSample
  <2>2. CASE ~(index[c].path # Target /\ fits(c))
    BY <1>6, <2>2, LeftOut DEF writeSample, ContextTypeOK
  <2> QED
    BY <2>1, <2>2
<1>7. CASE UNCHANGED contextVars
  BY <1>7, LeftOut DEF contextVars
<1> QED
  BY <1>1, <1>2, <1>3, <1>4, <1>5, <1>6, <1>7 DEF ContextNext

LEMMA ContextStarts == ContextInit => ContextTypeOK /\ ContextInv
<1> SUFFICES ASSUME ContextInit PROVE ContextTypeOK /\ ContextInv
  OBVIOUS
<1>1. PICK tokens \in 0 .. MaxContextTokens + 1, I \in SUBSET Imports, S \in SUBSET Symbols :
         reply = asking(tokens, I, S)
  BY DEF ContextInit
<1>2. Asked(tokens) \in 0 .. MaxContextTokens
  BY RelatedContextAssumption DEF Asked
<1>3. ContextTypeOK
  BY <1>1, <1>2 DEF ContextInit, ContextTypeOK, asking
<1>4. PICK f : f = costs
  OBVIOUS
<1>5. PICK g : SumsTo(g, f, Chunks) /\ TokensWritten = g[Chunks]
  BY <1>4, TokensAreSummedBefore DEF TokensSummed
<1>6. \A x \in Chunks : f[x] = 0
  <2> TAKE x \in Chunks
  <2>1. f[x] = 0 * index[x].tokens
    BY <1>1, <1>4 DEF costs, asking
  <2> QED
    BY <2>1, <1>3 DEF ContextTypeOK
<1>7. TokensWritten = 0
  BY <1>5, <1>6, SumOfNothing, RelatedContextAssumption
<1>8. /\ reply.tokens = 0 /\ reply.max = Asked(tokens) /\ reply.seen = {} /\ reply.omitted = {}
  BY <1>1 DEF asking
<1> QED
  BY <1>2, <1>3, <1>7, <1>8, RelatedContextAssumption DEF ContextInv, ContextKept

\* Of any finite number of chunks, whatever they import, use and cost, and in
\* whatever order they come: the answer keeps its promise at every point.
THEOREM ContextIsKept == ContextSpec => []ContextKept
<1>1. ContextTypeOK /\ ContextInv /\ [ContextNext]_contextVars => (ContextTypeOK /\ ContextInv)'
  BY ContextTypes, ContextStep
<1>2. ContextInv => ContextKept
  BY DEF ContextInv
<1> QED
  BY ContextStarts, <1>1, <1>2, PTL DEF ContextSpec

-----------------------------------------------------------------------------
(* The same of what the runs compute at once. *)

LEMMA TextsAreTexts ==
    ASSUME NEW t \in TextInputs, NEW E \in EntityInputs(t)
    PROVE  t \in Seq({Newline, "letter"}) /\ E \in SUBSET Places(t)
<1>1. PICK n \in 0 .. MaxText : t \in [1 .. n -> {Newline, "letter"}]
  BY DEF TextInputs
<1>2. n \in Nat
  BY <1>1
<1>3. t \in Seq({Newline, "letter"})
  BY <1>1, <1>2
<1> QED
  BY <1>3 DEF EntityInputs

\* Every text that a run cuts is served.
THEOREM TextsAreServed == MCSpec => []EveryTextServed
<1>1. MCInit => EveryTextServed
  <2> SUFFICES ASSUME MCInit, Works("chunks") PROVE EveryTextServed
    BY DEF EveryTextServed
  <2>1. PICK t \in TextInputs, s \in BOOLEAN :
           \E E \in IF s THEN EntityInputs(t) ELSE {{}} :
              part = [name |-> "chunks", text |-> t, supported |-> s, entities |-> E]
    BY DEF MCInit, Works
  <2>2. PICK E \in IF s THEN EntityInputs(t) ELSE {{}} :
           part = [name |-> "chunks", text |-> t, supported |-> s, entities |-> E]
    BY <2>1
  <2>3. E \in EntityInputs(t)
    BY DEF EntityInputs, IsTree
  <2>4. ChunksServe(t, s, E)
    BY <2>3, TextsAreTexts, CreateChunksServes
  <2> QED
    BY <2>2, <2>4 DEF EveryTextServed
<1>2. EveryTextServed /\ [MCNext]_<<part, limiterVars, treeVars, contextVars>> => EveryTextServed'
  BY DEF MCNext, EveryTextServed, Works
<1> QED
  BY <1>1, <1>2, PTL DEF MCSpec
=============================================================================
