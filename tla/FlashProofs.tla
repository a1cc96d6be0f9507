------------------------------ MODULE FlashProofs ------------------------------
(***************************************************************************)
(* Lemmas about the flash file system, for every size of the ring, the     *)
(* pages, the blocks and the chip: whatever is written, flushed, erased or  *)
(* lost, what is stored stays in the order in which it was written.        *)
(***************************************************************************)
EXTENDS FlashFS, WellFoundedInduction, TLAPS

(* n is the number of the next byte. A stream are bytes in their order; a chip
   holds such bytes below its address, at least one at the start of every block,
   and is erased from there on.                                             *)
Stream(s, n) ==
    /\ s \in Seq(Nat)
    /\ \A i \in 1 .. Len(s) : 0 < s[i] /\ s[i] < n
    /\ \A i, j \in 1 .. Len(s) : i < j => s[i] < s[j]
Chip(c, address, n) ==
    /\ c \in [Cells -> Nat] /\ address \in 0 .. Size
    /\ \A a \in Cells : /\ c[a] < n
                        /\ a >= address => c[a] = Erased
                        /\ a < address /\ a % BlockSize = 0 => c[a] # Erased
    /\ \A a, b \in Cells : a < b /\ c[b] # Erased => c[a] < c[b]
Behind(s, c) == \A i \in 1 .. Len(s), a \in Cells : c[a] < s[i]

FileInOrder(f, n) ==
    /\ f \in FileType
    /\ Stream(f.dirty, n) /\ Chip(f.flash, f.address, n) /\ Behind(f.dirty, f.flash)
-----------------------------------------------------------------------------
LEMMA Constants ==
  /\ BufferSize \in Nat /\ BufferSize > 0 /\ AutoFlushLen \in Nat /\ AutoFlushLen > 0
  /\ PageSize \in Nat /\ PageSize > 0 /\ BlockSize \in Nat /\ BlockSize > 0
  /\ TestSize \in Nat /\ TestSize > 0 /\ TestSize <= BlockSize /\ Size \in Nat /\ Size > 0
  /\ BlockSize % PageSize = 0 /\ Size % BlockSize = 0
BY FlashAssumption

LEMMA MinTwo ==
  ASSUME NEW a \in Int, NEW b \in Int
  PROVE  Min({a, b}) = IF a <= b THEN a ELSE b
<1>1. \E x \in {a, b} : \A y \in {a, b} : x <= y
  OBVIOUS
<1>2. Min({a, b}) \in {a, b} /\ \A y \in {a, b} : Min({a, b}) <= y
  BY <1>1 DEF Min
<1> QED
  BY <1>2

LEMMA MaxTwo ==
  ASSUME NEW a \in Int, NEW b \in Int
  PROVE  Max({a, b}) = IF a >= b THEN a ELSE b
<1>1. \E x \in {a, b} : \A y \in {a, b} : x >= y
  OBVIOUS
<1>2. Max({a, b}) \in {a, b} /\ \A y \in {a, b} : Max({a, b}) >= y
  BY <1>1 DEF Max
<1> QED
  BY <1>2

(* A multiple of a multiple, and what is left of a page of the chip.         *)
LEMMA RoomInPage ==
  ASSUME NEW a \in 0 .. Size - 1
  PROVE  PageSize - (a % PageSize) \in Nat /\ a + (PageSize - (a % PageSize)) <= Size
<1> USE Constants
<1>1. a \in Nat /\ a < Size
  OBVIOUS
<1>2. a % PageSize \in Nat /\ a % PageSize < PageSize /\ a = PageSize * (a \div PageSize) + (a % PageSize)
      /\ a \div PageSize \in Int
  BY <1>1
<1>3. \E k \in Int : Size = PageSize * k
  <2>1. Size = BlockSize * (Size \div BlockSize) /\ Size \div BlockSize \in Int
    OBVIOUS
  <2>2. BlockSize = PageSize * (BlockSize \div PageSize) /\ BlockSize \div PageSize \in Int
    OBVIOUS
  <2> DEFINE x == Size \div BlockSize  y == BlockSize \div PageSize
  <2>3. Size = (PageSize * y) * x /\ x \in Int /\ y \in Int
    BY <2>1, <2>2
  <2> HIDE DEF x, y
  <2>4. Size = PageSize * (y * x) /\ y * x \in Int
    BY <2>3
  <2> QED
    BY <2>4
<1>4. PICK k \in Int : Size = PageSize * k
  BY <1>3
<1> DEFINE q == a \div PageSize
<1>5. q \in Int /\ PageSize * q <= a /\ a < PageSize * k
  BY <1>1, <1>2, <1>4
<1> HIDE DEF q
<1>6. q + 1 <= k
  <2> SUFFICES ASSUME k <= q PROVE FALSE
    BY <1>5
  <2>1. PageSize * k <= PageSize * q
    BY <1>5
  <2> QED
    BY <1>5, <2>1
<1>7. PageSize * (q + 1) <= PageSize * k
  BY <1>5, <1>6
<1>8. a + (PageSize - (a % PageSize)) = PageSize * (q + 1)
  BY <1>1, <1>2, <1>5 DEF q
<1> QED
  BY <1>2, <1>4, <1>7, <1>8
-----------------------------------------------------------------------------
(* Programming the first w bytes of a stream behind what the chip holds.     *)
Programmed(c, address, data) ==
    [a \in Cells |-> IF a \notin address .. address + Len(data) - 1 THEN c[a]
                     ELSE IF c[a] = Erased THEN data[a - address + 1] ELSE Garbled]

LEMMA ProgramFields ==
  ASSUME NEW f \in FileType, NEW data \in Seq(Int)
  PROVE  /\ Program(f, data).dirty = f.dirty /\ Program(f, data).address = f.address + Len(data)
         /\ Program(f, data).flash = Programmed(f.flash, f.address, data)
         /\ Program(f, data).busy = TRUE
         /\ DOMAIN Program(f, data) = {"dirty", "address", "flash", "busy"}
BY DEF Program, Programmed, FileType

Joined(all, s, t) ==
    /\ all \in Seq(Int) /\ Len(all) = Len(s) + Len(t)
    /\ Len(all) \in Nat /\ Len(s) \in Nat /\ Len(t) \in Nat
    /\ \A i \in 1 .. Len(s) : all[i] = s[i]
    /\ \A i \in Len(s) + 1 .. Len(s) + Len(t) : all[i] = t[i - Len(s)]

LEMMA Concatenation ==
  ASSUME NEW s \in Seq(Int), NEW t \in Seq(Int)
  PROVE  Joined(s \o t, s, t)
BY DEF Joined

LEMMA FirstBytes ==
  ASSUME NEW s \in Seq(Int), NEW w \in 0 .. Len(s)
  PROVE  /\ SubSeq(s, 1, w) \in Seq(Int) /\ Len(SubSeq(s, 1, w)) = w
         /\ \A i \in 1 .. w : SubSeq(s, 1, w)[i] = s[i]
OBVIOUS

LEMMA LastBytes ==
  ASSUME NEW s \in Seq(Int), NEW w \in Nat, NEW rest, rest = SubSeq(s, w + 1, Len(s))
  PROVE  /\ rest \in Seq(Int)
         /\ Len(rest) = (IF w <= Len(s) THEN Len(s) - w ELSE 0)
         /\ \A i \in 1 .. Len(rest) : rest[i] = s[w + i]
OBVIOUS

LEMMA ChipProgrammed ==
  ASSUME NEW c, NEW address, NEW n \in Nat, NEW s, NEW w \in 0 .. Len(s), NEW data,
         Chip(c, address, n), Stream(s, n), Behind(s, c), address + w <= Size,
         data \in Seq(Int), Len(data) = w, \A i \in 1 .. w : data[i] = s[i]
  PROVE  /\ Chip(Programmed(c, address, data), address + w, n)
         /\ \A i \in w + 1 .. Len(s), a \in Cells : Programmed(c, address, data)[a] < s[i]
<1> DEFINE p == Programmed(c, address, data)
<1>1. /\ address \in Nat /\ w \in Nat /\ s \in Seq(Nat) /\ Len(s) \in Nat /\ w <= Len(s)
      /\ c \in [Cells -> Nat] /\ Cells \subseteq Nat /\ address + w \in 0 .. Size /\ Size \in Nat
  BY Constants DEF Chip, Stream, Cells
<1>2. ASSUME NEW a \in Cells
      PROVE  /\ a \in Nat /\ p[a] \in Nat
             /\ ~(a >= address /\ a < address + w) => p[a] = c[a]
             /\ a >= address /\ a < address + w =>
                   a - address + 1 \in 1 .. w /\ p[a] = s[a - address + 1] /\ p[a] > 0
  <2>1. a \in Nat /\ c[a] \in Nat
    BY <1>1
  <2>2. CASE ~(a >= address /\ a < address + w)
    <3>1. a \notin address .. address + Len(data) - 1
      BY <1>1, <2>1, <2>2
    <3>2. p[a] = c[a]
      BY <3>1 DEF Programmed
    <3> QED
      BY <2>1, <2>2, <3>2
  <2>3. CASE a >= address /\ a < address + w
    <3>1. a \in address .. address + Len(data) - 1 /\ c[a] = Erased
      BY <1>1, <2>1, <2>3 DEF Chip
    <3>2. a - address + 1 \in 1 .. w /\ a - address + 1 \in 1 .. Len(s)
      BY <1>1, <2>1, <2>3
    <3>3. p[a] = s[a - address + 1]
      BY <3>1, <3>2 DEF Programmed
    <3>4. s[a - address + 1] \in Nat /\ s[a - address + 1] > 0
      BY <1>1, <3>2 DEF Stream
    <3> QED
      BY <2>1, <2>3, <3>2, <3>3, <3>4
  <2> QED
    BY <2>2, <2>3
<1> HIDE DEF p
<1>3. p \in [Cells -> Nat]
  BY <1>2 DEF p, Programmed
<1>4. ASSUME NEW a \in Cells
      PROVE  /\ p[a] < n
             /\ a >= address + w => p[a] = Erased
             /\ a < address + w /\ a % BlockSize = 0 => p[a] # Erased
  <2>1. c[a] < n /\ (a >= address => c[a] = Erased)
        /\ (a < address /\ a % BlockSize = 0 => c[a] # Erased)
    BY DEF Chip
  <2>2. a >= address /\ a < address + w => p[a] < n
    <3>1. a >= address /\ a < address + w =>
             a - address + 1 \in 1 .. Len(s) /\ p[a] = s[a - address + 1]
      BY <1>1, <1>2
    <3> QED
      BY <3>1 DEF Stream
  <2> QED
    BY <1>1, <1>2, <2>1, <2>2 DEF Erased
<1>5. ASSUME NEW a \in Cells, NEW b \in Cells, a < b, p[b] # Erased
      PROVE  p[a] < p[b]
  <2>1. b < address + w
    BY <1>1, <1>2, <1>4, <1>5
  <2>2. CASE b < address
    <3>1. p[a] = c[a] /\ p[b] = c[b]
      BY <1>1, <1>2, <1>5, <2>2
    <3> QED
      BY <1>5, <3>1 DEF Chip
  <2>3. CASE b >= address /\ a < address
    <3>1. p[a] = c[a] /\ b - address + 1 \in 1 .. Len(s) /\ p[b] = s[b - address + 1]
      BY <1>1, <1>2, <2>1, <2>3
    <3> QED
      BY <3>1 DEF Behind
  <2>4. CASE a >= address
    <3>1. /\ a - address + 1 \in 1 .. Len(s) /\ p[a] = s[a - address + 1]
          /\ b - address + 1 \in 1 .. Len(s) /\ p[b] = s[b - address + 1]
          /\ a - address + 1 < b - address + 1
      BY <1>1, <1>2, <1>5, <2>1, <2>4, SMTT(30)
    <3>2. \A i, j \in 1 .. Len(s) : i < j => s[i] < s[j]
      BY DEF Stream
    <3>3. s[a - address + 1] < s[b - address + 1]
      BY <3>1, <3>2, Zenon
    <3> QED
      BY <3>1, <3>3, Zenon
  <2> QED
    BY <1>1, <1>2, <2>2, <2>3, <2>4
<1>6. ASSUME NEW i \in w + 1 .. Len(s), NEW a \in Cells
      PROVE  p[a] < s[i]
  <2>1. i \in 1 .. Len(s)
    BY <1>1
  <2>2. CASE ~(a >= address /\ a < address + w)
    BY <1>2, <2>1, <2>2 DEF Behind
  <2>3. CASE a >= address /\ a < address + w
    <3>1. a - address + 1 \in 1 .. Len(s) /\ p[a] = s[a - address + 1] /\ a - address + 1 < i
      BY <1>1, <1>2, <2>1, <2>3
    <3> QED
      BY <2>1, <3>1 DEF Stream
  <2> QED
    BY <2>2, <2>3
<1>7. Chip(p, address + w, n)
  BY <1>1, <1>3, <1>4, <1>5 DEF Chip
<1> QED
  BY <1>6, <1>7 DEF p

(* A piece of a stream, behind its first w bytes.                           *)
Piece(r, s, w) ==
    /\ r \in Seq(Int)
    /\ \E k \in Nat : k >= w /\ k + Len(r) <= Len(s) /\ \A i \in 1 .. Len(r) : r[i] = s[k + i]

LEMMA PieceInOrder ==
  ASSUME NEW n \in Nat, NEW s, Stream(s, n), NEW w \in Nat, NEW r, Piece(r, s, w)
  PROVE  /\ Stream(r, n)
         /\ \A i \in 1 .. Len(r) : \E j \in w + 1 .. Len(s) : r[i] = s[j]
<1>1. r \in Seq(Int) /\ Len(r) \in Nat /\ s \in Seq(Nat) /\ Len(s) \in Nat
  BY DEF Piece, Stream
<1>2. PICK k \in Nat : k >= w /\ k + Len(r) <= Len(s) /\ \A i \in 1 .. Len(r) : r[i] = s[k + i]
  BY DEF Piece
<1>3. ASSUME NEW i \in 1 .. Len(r)
      PROVE  k + i \in 1 .. Len(s) /\ k + i \in w + 1 .. Len(s) /\ r[i] = s[k + i] /\ r[i] \in Nat
             /\ 0 < r[i] /\ r[i] < n
  <2>1. k + i \in 1 .. Len(s) /\ k + i \in w + 1 .. Len(s)
    BY <1>1, <1>2
  <2> QED
    BY <1>1, <1>2, <2>1 DEF Stream
<1>4. ASSUME NEW i \in 1 .. Len(r), NEW j \in 1 .. Len(r), i < j
      PROVE  r[i] < r[j]
  <2>1. k + i < k + j
    BY <1>4
  <2>2. /\ k + i \in 1 .. Len(s) /\ r[i] = s[k + i]
        /\ k + j \in 1 .. Len(s) /\ r[j] = s[k + j]
    BY <1>3, Zenon
  <2>3. \A a, b \in 1 .. Len(s) : a < b => s[a] < s[b]
    BY DEF Stream
  <2>4. s[k + i] < s[k + j]
    BY <2>1, <2>2, <2>3, Zenon
  <2> QED
    BY <2>2, <2>4, Zenon
<1>5. r \in Seq(Nat)
  <2>1. r \in [1 .. Len(r) -> Nat]
    BY <1>1, <1>3
  <2> QED
    BY <1>1, <2>1, SMTT(30)
<1> QED
  BY <1>3, <1>4, <1>5 DEF Stream
-----------------------------------------------------------------------------
(* What writing a stream leaves, w bytes of it stored: the ring as it was, or
   thrown away.                                                             *)
Wrote(f, s, g, w) ==
    /\ w \in 0 .. Len(s) /\ f.address + w <= Size
    /\ g \in FileType /\ g.dirty \in {f.dirty, <<>>} /\ g.address = f.address + w
    /\ g.flash = Programmed(f.flash, f.address, SubSeq(s, 1, w))

LEMMA Rewritten ==
  ASSUME NEW f \in FileType, NEW r \in Seq(Int)
  PROVE  LET g == [f EXCEPT !.dirty = r]
         IN  /\ g \in FileType /\ g.dirty = r /\ g.address = f.address
             /\ g.flash = f.flash /\ g.busy = f.busy
BY DEF FileType

LEMMA ClearedFields ==
  ASSUME NEW f \in FileType
  PROVE  /\ Cleared(f) \in FileType /\ Cleared(f).dirty = <<>> /\ Cleared(f).address = f.address
         /\ Cleared(f).flash = f.flash /\ Cleared(f).busy = f.busy
<1>1. <<>> \in Seq(Int)
  OBVIOUS
<1> QED
  BY <1>1, Rewritten, Zenon DEF Cleared

LEMMA NothingWritten ==
  ASSUME NEW f \in FileType, f.address <= Size, NEW s \in Seq(Int),
         NEW g \in FileType, g.dirty \in {f.dirty, <<>>}, g.address = f.address, g.flash = f.flash
  PROVE  Wrote(f, s, g, 0)
<1>1. Len(SubSeq(s, 1, 0)) = 0 /\ Len(s) \in Nat
  OBVIOUS
<1>2. f.address \in Nat /\ f.flash \in [Cells -> Int]
  BY DEF FileType
<1>3. Programmed(f.flash, f.address, SubSeq(s, 1, 0)) = f.flash
  <2>1. \A a \in Cells : a \notin f.address .. f.address + 0 - 1
    BY <1>2
  <2> QED
    BY <1>1, <1>2, <2>1 DEF Programmed
<1> QED
  BY <1>1, <1>2, <1>3 DEF Wrote

LEMMA BuffersWritten ==
  ASSUME NEW f, NEW n \in Nat, NEW s, NEW sync \in BOOLEAN,
         f \in FileType, Chip(f.flash, f.address, n), Stream(s, n), Behind(s, f.flash)
  PROVE  LET r == WriteBuffers(f, s, sync)
         IN  /\ Wrote(f, s, r.fs, r.written)
             /\ ~sync /\ r.fs.dirty # f.dirty => r.written = 0
             /\ ~IsEOF(r.fs) => r.fs.dirty = f.dirty /\ (sync => r.written = Len(s))
<1> USE Constants
<1>1. /\ f.address \in 0 .. Size /\ f.flash \in [Cells -> Nat] /\ f.dirty \in Seq(Int)
      /\ s \in Seq(Nat) /\ s \in Seq(Int) /\ Len(s) \in Nat
  BY DEF Chip, Stream, FileType
<1> DEFINE room == IF sync THEN Size - f.address ELSE PageSize - (f.address % PageSize)
           w == Min({Len(s), room})
           d == SubSeq(s, 1, w)
           g == Program(f, d)
           r == WriteBuffers(f, s, sync)
<1>2. CASE ~sync /\ f.busy
  <2>1. r = [fs |-> f, written |-> 0]
    BY <1>2 DEF WriteBuffers
  <2> QED
    BY <1>1, <1>2, <2>1, NothingWritten
<1>3. CASE ~(~sync /\ f.busy) /\ IsEOF(f)
  <2>1. r = [fs |-> Cleared(f), written |-> 0]
    BY <1>3 DEF WriteBuffers
  <2>2. /\ Cleared(f) \in FileType /\ Cleared(f).dirty = <<>> /\ Cleared(f).address = f.address
        /\ Cleared(f).flash = f.flash
    BY ClearedFields
  <2>3. IsEOF(Cleared(f))
    BY <1>3, <2>2 DEF IsEOF
  <2> QED
    BY <1>1, <1>3, <2>1, <2>2, <2>3, NothingWritten
<1>4. CASE ~(~sync /\ f.busy) /\ ~IsEOF(f)
  <2>1. r = [fs |-> IF sync /\ w < Len(s) THEN Cleared(g) ELSE g, written |-> w]
    BY <1>4 DEF WriteBuffers
  <2>2. room \in Nat /\ f.address + room <= Size
    <3>1. f.address \in 0 .. Size - 1
      BY <1>1, <1>4 DEF IsEOF
    <3> QED
      BY <3>1, RoomInPage
  <2>3. w \in 0 .. Len(s) /\ f.address + w <= Size /\ (sync /\ w < Len(s) => f.address + w = Size)
    <3>1. w = IF Len(s) <= room THEN Len(s) ELSE room
      <4> HIDE DEF room
      <4>1. Len(s) \in Int /\ room \in Int
        BY <1>1, <2>2
      <4> QED
        BY <4>1, MinTwo, Zenon
    <3>2. sync => room = Size - f.address
      BY Zenon
    <3> HIDE DEF w, room
    <3> QED
      BY <1>1, <2>2, <3>1, <3>2
  <2> HIDE DEF w, room
  <2>4. d \in Seq(Int) /\ Len(d) = w /\ \A i \in 1 .. w : d[i] = s[i]
    BY <1>1, <2>3, FirstBytes
  <2> HIDE DEF d
  <2>5. /\ g.dirty = f.dirty /\ g.address = f.address + w
        /\ g.flash = Programmed(f.flash, f.address, d)
        /\ g \in FileType
    <3>1. /\ g.dirty = f.dirty /\ g.address = f.address + w
          /\ g.flash = Programmed(f.flash, f.address, d)
      BY <2>4, ProgramFields
    <3>2. Programmed(f.flash, f.address, d) \in [Cells -> Nat]
      BY <2>3, <2>4, ChipProgrammed DEF Chip
    <3>3. g \in FileType
      <4>1. Programmed(f.flash, f.address, d) \in [Cells -> Int]
        BY <3>2
      <4>2. g.address \in Nat
        BY <1>1, <2>3, <3>1
      <4>3. g = [f EXCEPT !.flash = Programmed(f.flash, f.address, d), !.address = f.address + w,
                          !.busy = TRUE]
        BY <2>4 DEF Program, Programmed, FileType
      <4> QED
        BY <3>1, <4>1, <4>2, <4>3 DEF FileType
    <3> QED
      BY <3>1, <3>3
  <2> HIDE DEF g
  <2>6. /\ Cleared(g) \in FileType /\ Cleared(g).dirty = <<>> /\ Cleared(g).address = g.address
        /\ Cleared(g).flash = g.flash
    BY <2>5, ClearedFields
  <2>7. Wrote(f, s, g, w) /\ Wrote(f, s, Cleared(g), w)
    BY <2>3, <2>5, <2>6 DEF Wrote, d
  <2>8. /\ sync /\ w < Len(s) => IsEOF(Cleared(g))
        /\ ~(w < Len(s)) => w = Len(s)
    <3>1. sync /\ w < Len(s) => Cleared(g).address = Size
      BY <2>3, <2>5, <2>6
    <3> QED
      BY <1>1, <2>3, <3>1 DEF IsEOF
  <2> QED
    BY <1>4, <2>1, <2>5, <2>7, <2>8
<1> QED
  BY <1>2, <1>3, <1>4

(* The same of a write that does not wait.                                 *)
LEMMA AsyncWritten ==
  ASSUME NEW f, NEW n \in Nat, NEW s,
         f \in FileType, Chip(f.flash, f.address, n), Stream(s, n), Behind(s, f.flash)
  PROVE  LET r == WriteBuffers(f, s, FALSE)
         IN  /\ Wrote(f, s, r.fs, r.written)
             /\ r.fs.dirty # f.dirty => r.written = 0
             /\ ~IsEOF(r.fs) => r.fs.dirty = f.dirty
BY BuffersWritten

(* With any piece of what was not stored in the ring the file is in order.   *)
LEMMA RestInOrder ==
  ASSUME NEW f, NEW n \in Nat, NEW s, NEW g, NEW w, NEW r,
         f \in FileType, Chip(f.flash, f.address, n), Stream(s, n), Behind(s, f.flash),
         Wrote(f, s, g, w), Piece(r, s, w)
  PROVE  FileInOrder([g EXCEPT !.dirty = r], n)
<1>1. /\ w \in 0 .. Len(s) /\ f.address + w <= Size /\ g \in FileType /\ g.address = f.address + w
      /\ g.flash = Programmed(f.flash, f.address, SubSeq(s, 1, w))
      /\ s \in Seq(Int) /\ Len(s) \in Nat /\ w \in Nat
  BY DEF Wrote, Stream
<1>2. /\ SubSeq(s, 1, w) \in Seq(Int) /\ Len(SubSeq(s, 1, w)) = w
      /\ \A i \in 1 .. w : SubSeq(s, 1, w)[i] = s[i]
  BY <1>1, FirstBytes
<1>3. /\ Chip(g.flash, g.address, n)
      /\ \A i \in w + 1 .. Len(s), a \in Cells : g.flash[a] < s[i]
  <2> DEFINE d == SubSeq(s, 1, w)
  <2>1. d \in Seq(Int) /\ Len(d) = w /\ \A i \in 1 .. w : d[i] = s[i]
    BY <1>2
  <2>2. g.address = f.address + w /\ g.flash = Programmed(f.flash, f.address, d)
    BY <1>1
  <2> HIDE DEF d
  <2>3. /\ Chip(Programmed(f.flash, f.address, d), f.address + w, n)
        /\ \A i \in w + 1 .. Len(s), a \in Cells : Programmed(f.flash, f.address, d)[a] < s[i]
    BY <1>1, <2>1, ChipProgrammed
  <2> QED
    BY <2>2, <2>3
<1>4. /\ Stream(r, n) /\ r \in Seq(Int)
      /\ \A i \in 1 .. Len(r) : \E j \in w + 1 .. Len(s) : r[i] = s[j]
  <2>1. r \in Seq(Int)
    BY DEF Piece
  <2> QED
    BY <1>1, <2>1, PieceInOrder
<1>5. Behind(r, g.flash)
  BY <1>3, <1>4 DEF Behind
<1> DEFINE h == [g EXCEPT !.dirty = r]
<1>6. h \in FileType /\ h.dirty = r /\ h.address = g.address /\ h.flash = g.flash
  BY <1>1, <1>4, Rewritten
<1> HIDE DEF h
<1>7. FileInOrder(h, n)
  BY <1>3, <1>4, <1>5, <1>6 DEF FileInOrder
<1> QED
  BY <1>7 DEF h
-----------------------------------------------------------------------------
(* flashfsAdvanceTailInBuffer()                                             *)
LEMMA RestOfRing ==
  ASSUME NEW g \in FileType, NEW w \in Nat
  PROVE  LET rest == SubSeq(g.dirty, w + 1, Len(g.dirty))
         IN  AdvanceTail(g, w) = [g EXCEPT !.dirty = rest] /\ rest \in Seq(Int)
<1>1. g.dirty \in Seq(Int)
  BY DEF FileType
<1>2. SubSeq(g.dirty, w + 1, Len(g.dirty)) \in Seq(Int)
  BY <1>1, LastBytes
<1>3. AdvanceTail(g, w) = [g EXCEPT !.dirty = SubSeq(g.dirty, w + 1, Len(g.dirty))]
  BY DEF AdvanceTail, FileType
<1> QED
  BY <1>2, <1>3

LEMMA EmptyPiece ==
  ASSUME NEW s \in Seq(Int), NEW w \in 0 .. Len(s)
  PROVE  Piece(<<>>, s, w)
<1>1. <<>> \in Seq(Int) /\ Len(<<>>) = 0 /\ Len(s) \in Nat
  OBVIOUS
<1>2. w \in Nat /\ w >= w /\ w + 0 <= Len(s)
  BY <1>1
<1> QED
  BY <1>1, <1>2 DEF Piece

LEMMA LaterNumbers ==
  ASSUME NEW f, NEW n \in Nat, NEW m \in Nat, n <= m, FileInOrder(f, n)
  PROVE  FileInOrder(f, m)
<1>1. Stream(f.dirty, m)
  BY DEF FileInOrder, Stream
<1>2. Chip(f.flash, f.address, m)
  BY DEF FileInOrder, Chip
<1> QED
  BY <1>1, <1>2 DEF FileInOrder

LEMMA FlushAsyncInOrder ==
  ASSUME NEW f, NEW n \in Nat, FileInOrder(f, n)
  PROVE  FileInOrder(FlushAsync(f), n)
<1>1. /\ f \in FileType /\ f.dirty \in Seq(Int) /\ Len(f.dirty) \in Nat
      /\ Stream(f.dirty, n) /\ Chip(f.flash, f.address, n) /\ Behind(f.dirty, f.flash)
  BY DEF FileInOrder, FileType
<1>2. CASE IsEmpty(f)
  BY <1>2 DEF FlushAsync
<1>3. CASE ~IsEmpty(f)
  <2> DEFINE r == WriteBuffers(f, f.dirty, FALSE)
             g == r.fs
             w == r.written
             rest == SubSeq(g.dirty, w + 1, Len(g.dirty))
  <2>1. Wrote(f, f.dirty, g, w)
    BY <1>1, BuffersWritten
  <2>2. FlushAsync(f) = AdvanceTail(g, w)
    BY <1>3 DEF FlushAsync
  <2> HIDE DEF r
  <2>3. g \in FileType /\ w \in 0 .. Len(f.dirty) /\ w \in Nat /\ g.dirty \in {f.dirty, <<>>}
    BY <1>1, <2>1 DEF Wrote
  <2>4. FlushAsync(f) = [g EXCEPT !.dirty = rest]
    BY <2>2, <2>3, RestOfRing
  <2>5. Piece(rest, f.dirty, w)
    <3>1. CASE g.dirty = f.dirty
      <4>0. rest = SubSeq(f.dirty, w + 1, Len(f.dirty))
        BY <3>1
      <4> HIDE DEF rest, w
      <4>1. /\ rest \in Seq(Int) /\ Len(rest) = Len(f.dirty) - w
            /\ \A i \in 1 .. Len(rest) : rest[i] = f.dirty[w + i]
        BY <1>1, <2>3, <4>0, LastBytes
      <4>2. w + Len(rest) <= Len(f.dirty) /\ w >= w
        BY <1>1, <2>3, <4>1
      <4> HIDE DEF rest
      <4> QED
        BY <2>3, <4>1, <4>2 DEF Piece
    <3>2. CASE g.dirty = <<>>
      <4>1. rest = <<>>
        BY <2>3, <3>2
      <4> QED
        BY <1>1, <2>3, <4>1, EmptyPiece
    <3> QED
      BY <2>3, <3>1, <3>2
  <2> HIDE DEF g, w, rest
  <2>6. FileInOrder([g EXCEPT !.dirty = rest], n)
    BY <1>1, <2>1, <2>5, RestInOrder
  <2> QED
    BY <2>4, <2>6
<1> QED
  BY <1>2, <1>3

LEMMA ClearedInOrder ==
  ASSUME NEW f, NEW n \in Nat, FileInOrder(f, n)
  PROVE  FileInOrder(Cleared(f), n)
<1>1. f \in FileType /\ Chip(f.flash, f.address, n)
  BY DEF FileInOrder
<1>2. /\ Cleared(f) \in FileType /\ Cleared(f).dirty = <<>> /\ Cleared(f).address = f.address
      /\ Cleared(f).flash = f.flash
  BY <1>1, ClearedFields
<1>3. Stream(<<>>, n) /\ Behind(<<>>, f.flash)
  BY DEF Stream, Behind
<1> QED
  BY <1>1, <1>2, <1>3 DEF FileInOrder

LEMMA FlushSyncInOrder ==
  ASSUME NEW f, NEW n \in Nat, FileInOrder(f, n)
  PROVE  FileInOrder(FlushSync(f), n)
<1>1. /\ f \in FileType /\ f.dirty \in Seq(Int) /\ Len(f.dirty) \in Nat
      /\ Stream(f.dirty, n) /\ Chip(f.flash, f.address, n) /\ Behind(f.dirty, f.flash)
  BY DEF FileInOrder, FileType
<1>2. CASE IsEmpty(f)
  BY <1>2 DEF FlushSync
<1>3. CASE ~IsEmpty(f)
  <2> DEFINE r == WriteBuffers(f, f.dirty, TRUE)
             g == r.fs
             w == r.written
  <2>1. Wrote(f, f.dirty, g, w)
    BY <1>1, BuffersWritten
  <2>2. FlushSync(f) = Cleared(g)
    BY <1>3 DEF FlushSync
  <2> HIDE DEF r
  <2>3. w \in 0 .. Len(f.dirty)
    BY <2>1 DEF Wrote
  <2>4. FileInOrder([g EXCEPT !.dirty = <<>>], n)
    BY <1>1, <2>1, <2>3, EmptyPiece, RestInOrder
  <2> QED
    BY <2>2, <2>4 DEF Cleared
<1> QED
  BY <1>2, <1>3

(* The numbers given to bytes that are written continue the stream.         *)
LEMMA StreamContinues ==
  ASSUME NEW s, NEW n \in Nat, NEW c, n > 0, Stream(s, n), Behind(s, c), c \in [Cells -> Nat],
         \A a \in Cells : c[a] < n,
         NEW len \in Nat, NEW data, data \in Seq(Int), Len(data) = len,
         \A i \in 1 .. len : data[i] = n + i - 1
  PROVE  Stream(s \o data, n + len) /\ Behind(s \o data, c)
<1>1. s \in Seq(Nat) /\ Len(s) \in Nat
  BY DEF Stream
<1>2. data \in Seq(Nat)
  <2>1. data \in [1 .. len -> Nat]
    OBVIOUS
  <2> QED
    BY <2>1
<1> DEFINE all == s \o data
<1>3. /\ all \in Seq(Nat) /\ Len(all) = Len(s) + len
      /\ \A i \in 1 .. Len(s) : all[i] = s[i]
      /\ \A i \in Len(s) + 1 .. Len(s) + len : all[i] = data[i - Len(s)]
  <2>1. all \in Seq(Nat) /\ Len(all) = Len(s) + len
    BY <1>1, <1>2
  <2>2. \A i \in 1 .. Len(s) : all[i] = s[i]
    BY <1>1, <1>2
  <2>3. \A i \in Len(s) + 1 .. Len(s) + len : all[i] = data[i - Len(s)]
    BY <1>1, <1>2
  <2> QED
    BY <2>1, <2>2, <2>3
<1> HIDE DEF all
<1>4. ASSUME NEW i \in 1 .. Len(all)
      PROVE  /\ i <= Len(s) => i \in 1 .. Len(s) /\ all[i] = s[i] /\ s[i] \in Nat /\ 0 < s[i] /\ s[i] < n
             /\ i > Len(s) => all[i] = n + (i - Len(s)) - 1 /\ n <= all[i] /\ all[i] < n + len
  <2>1. CASE i <= Len(s)
    <3>1. i \in 1 .. Len(s)
      BY <1>1, <2>1
    <3> QED
      BY <1>1, <1>3, <2>1, <3>1 DEF Stream
  <2>2. CASE i > Len(s)
    <3>1. i \in Len(s) + 1 .. Len(s) + len /\ i - Len(s) \in 1 .. len
      BY <1>1, <1>3, <2>2
    <3> QED
      BY <1>1, <1>3, <2>2, <3>1
  <2> QED
    BY <1>1, <1>3, <2>1, <2>2
<1>5. ASSUME NEW i \in 1 .. Len(all), NEW j \in 1 .. Len(all), i < j
      PROVE  all[i] < all[j]
  <2>1. CASE j <= Len(s)
    <3>1. i \in 1 .. Len(s) /\ j \in 1 .. Len(s) /\ all[i] = s[i] /\ all[j] = s[j]
      BY <1>1, <1>3, <1>4, <1>5, <2>1, SMTT(30)
    <3> QED
      BY <1>5, <3>1 DEF Stream
  <2>2. CASE j > Len(s)
    <3>1. all[j] = n + (j - Len(s)) - 1 /\ n <= all[j]
      BY <1>4, <2>2
    <3>2. CASE i <= Len(s)
      <4>1. all[i] \in Nat /\ all[i] < n
        BY <1>4, <3>2
      <4> QED
        BY <1>1, <3>1, <4>1
    <3>3. CASE i > Len(s)
      <4>1. all[i] = n + (i - Len(s)) - 1
        BY <1>4, <3>3
      <4> QED
        BY <1>1, <1>5, <3>1, <4>1
    <3> QED
      BY <1>1, <3>2, <3>3
  <2> QED
    BY <1>1, <1>3, <2>1, <2>2
<1>6. ASSUME NEW i \in 1 .. Len(all)
      PROVE  0 < all[i] /\ all[i] < n + len
  <2>1. all[i] \in Nat
    BY <1>3
  <2>2. CASE i <= Len(s)
    BY <1>4, <2>1, <2>2
  <2>3. CASE i > Len(s)
    BY <1>4, <2>1, <2>3
  <2> QED
    BY <1>1, <2>2, <2>3
<1>7. ASSUME NEW i \in 1 .. Len(all), NEW a \in Cells
      PROVE  c[a] < all[i]
  <2>1. c[a] \in Nat /\ c[a] < n
    OBVIOUS
  <2>2. CASE i <= Len(s)
    BY <1>4, <2>2 DEF Behind
  <2>3. CASE i > Len(s)
    BY <1>1, <1>3, <1>4, <2>1, <2>3
  <2> QED
    BY <1>1, <1>3, <2>2, <2>3
<1> QED
  BY <1>3, <1>5, <1>6, <1>7 DEF Stream, Behind, all
-----------------------------------------------------------------------------
(* What the ring holds with the bytes that are written, f being in order.   *)
LEMMA Appended ==
  ASSUME NEW f, NEW n \in Nat, n > 0, FileInOrder(f, n),
         NEW len \in Nat, NEW data \in Seq(Int), Len(data) = len,
         \A i \in 1 .. len : data[i] = n + i - 1
  PROVE  /\ f \in FileType /\ Chip(f.flash, f.address, n + len)
         /\ Stream(f.dirty \o data, n + len) /\ Behind(f.dirty \o data, f.flash)
         /\ FileInOrder([f EXCEPT !.dirty = f.dirty \o data], n + len)
<1>1. /\ f \in FileType /\ Stream(f.dirty, n) /\ Chip(f.flash, f.address, n)
      /\ Behind(f.dirty, f.flash)
  BY DEF FileInOrder
<1>2. f.flash \in [Cells -> Nat] /\ \A a \in Cells : f.flash[a] < n
  BY <1>1 DEF Chip
<1>3. Stream(f.dirty \o data, n + len) /\ Behind(f.dirty \o data, f.flash)
  BY <1>1, <1>2, StreamContinues
<1>4. FileInOrder(f, n + len)
  BY LaterNumbers
<1>5. Chip(f.flash, f.address, n + len)
  BY <1>4 DEF FileInOrder
<1> DEFINE all == f.dirty \o data
           g == [f EXCEPT !.dirty = all]
<1>6. all \in Seq(Int)
  <2>1. all \in Seq(Nat)
    BY <1>3 DEF Stream
  <2> QED
    BY <2>1
<1>7. g \in FileType /\ g.dirty = all /\ g.address = f.address /\ g.flash = f.flash
  <2> HIDE DEF all
  <2> QED
    BY <1>1, <1>6, Rewritten
<1> HIDE DEF g
<1>8. FileInOrder(g, n + len)
  BY <1>3, <1>5, <1>7 DEF FileInOrder
<1> QED
  BY <1>1, <1>3, <1>5, <1>8 DEF g

LEMMA WriteByteInOrder ==
  ASSUME NEW f, NEW n \in Nat, n > 0, FileInOrder(f, n)
  PROVE  FileInOrder(WriteByte(f, n), n + 1)
<1>1. f \in FileType /\ f.dirty \in Seq(Int) /\ FileInOrder(f, n + 1)
  BY LaterNumbers DEF FileInOrder, FileType
<1> DEFINE stored == [f EXCEPT !.dirty = IF Len(f.dirty) = Usable THEN <<>> ELSE Append(f.dirty, n)]
<1>2. FileInOrder(stored, n + 1)
  <2>1. CASE Len(f.dirty) = Usable
    <3>1. stored = Cleared(f)
      BY <2>1 DEF Cleared
    <3> QED
      BY <1>1, <3>1, ClearedInOrder, SMTT(30)
  <2>2. CASE Len(f.dirty) # Usable
    <3>1. <<n>> \in Seq(Int) /\ Len(<<n>>) = 1 /\ \A i \in 1 .. 1 : <<n>>[i] = n + i - 1
      OBVIOUS
    <3>2. FileInOrder([f EXCEPT !.dirty = f.dirty \o <<n>>], n + 1)
      BY <3>1, Appended
    <3>3. f.dirty \o <<n>> = Append(f.dirty, n)
      BY <1>1
    <3>4. stored = [f EXCEPT !.dirty = Append(f.dirty, n)]
      BY <2>2
    <3> QED
      BY <3>2, <3>3, <3>4
  <2> QED
    BY <2>1, <2>2
<1>3. WriteByte(f, n) = IF Len(stored.dirty) >= AutoFlushLen THEN FlushAsync(stored) ELSE stored
  BY DEF WriteByte, FileType
<1> HIDE DEF stored
<1>4. FileInOrder(FlushAsync(stored), n + 1)
  BY <1>2, FlushAsyncInOrder
<1> QED
  BY <1>2, <1>3, <1>4

(* What is left of a stream without its first w bytes.                      *)
RestOf(r, s, w) ==
    r \in Seq(Int) /\ Len(r) = Len(s) - w /\ \A i \in 1 .. Len(r) : r[i] = s[w + i]

(* The ring after w bytes of ring and data were stored, and what data is left. *)
LEMMA RemainderIsPiece ==
  ASSUME NEW d \in Seq(Int), NEW data \in Seq(Int), NEW w \in 0 .. Len(d) + Len(data),
         NEW ring, ring \in {d, <<>>}, ring # d => w = 0
  PROVE  LET left == SubSeq(ring, w + 1, Len(ring))
             rest == SubSeq(data, Max({w - Len(d), 0}) + 1, Len(data))
         IN  /\ left \in Seq(Int) /\ Piece(left, d \o data, w)
             /\ Piece(left \o rest, d \o data, w)
             /\ ring = d => RestOf(left \o rest, d \o data, w)
             /\ Len(left) <= Len(d)
<1> DEFINE all == d \o data
           m == Max({w - Len(d), 0})
           left == SubSeq(ring, w + 1, Len(ring))
           rest == SubSeq(data, m + 1, Len(data))
<1>1. /\ Len(d) \in Nat /\ Len(data) \in Nat /\ w \in Nat /\ w <= Len(d) + Len(data)
      /\ all \in Seq(Int) /\ Len(all) = Len(d) + Len(data)
  OBVIOUS
<1>2. \A i \in 1 .. Len(d) : all[i] = d[i]
  OBVIOUS
<1>3. \A i \in 1 .. Len(data) : all[Len(d) + i] = data[i]
  OBVIOUS
<1>4. m = IF w - Len(d) >= 0 THEN w - Len(d) ELSE 0
  <2>1. w - Len(d) \in Int /\ 0 \in Int
    BY <1>1
  <2> QED
    BY <2>1, MaxTwo, Zenon
<1> HIDE DEF all, m
<1>5. /\ rest \in Seq(Int) /\ Len(rest) = Len(data) - m
      /\ \A i \in 1 .. Len(rest) : rest[i] = data[m + i]
  <2>1. m \in Nat /\ m <= Len(data)
    BY <1>1, <1>4
  <2> HIDE DEF rest
  <2>2. rest = SubSeq(data, m + 1, Len(data))
    BY DEF rest
  <2> QED
    BY <1>1, <2>1, <2>2, LastBytes
<1> DEFINE kept == left \o rest
<1>6. ASSUME left \in Seq(Int)
      PROVE  /\ kept \in Seq(Int) /\ Len(kept) = Len(left) + Len(rest)
             /\ Len(kept) \in Nat /\ Len(left) \in Nat /\ Len(rest) \in Nat
             /\ \A i \in 1 .. Len(left) : kept[i] = left[i]
             /\ \A i \in Len(left) + 1 .. Len(left) + Len(rest) : kept[i] = rest[i - Len(left)]
  <2>1. kept = left \o rest
    OBVIOUS
  <2> HIDE DEF left, rest, kept
  <2>2. rest \in Seq(Int)
    BY <1>5
  <2>3. Joined(kept, left, rest)
    BY <1>6, <2>1, <2>2, Concatenation, Zenon
  <2> QED
    BY <2>3 DEF Joined
<1>7. CASE ring = d
  <2>1. /\ left \in Seq(Int) /\ Len(left) = (IF w <= Len(d) THEN Len(d) - w ELSE 0)
        /\ \A i \in 1 .. Len(left) : left[i] = d[w + i]
    <3>1. left = SubSeq(d, w + 1, Len(d))
      BY <1>7
    <3> HIDE DEF left
    <3> QED
      BY <1>1, <3>1, LastBytes
  <2> HIDE DEF left, rest, kept
  <2>2. /\ kept \in Seq(Int) /\ Len(kept) = Len(left) + Len(rest)
        /\ Len(kept) \in Nat /\ Len(left) \in Nat /\ Len(rest) \in Nat
        /\ \A i \in 1 .. Len(left) : kept[i] = left[i]
        /\ \A i \in Len(left) + 1 .. Len(left) + Len(rest) : kept[i] = rest[i - Len(left)]
    BY <1>6, <2>1
  <2>3. w + Len(kept) = Len(all) /\ w + Len(left) = Len(d) + m /\ Len(rest) = Len(data) - m /\ m \in Nat
    <3>1. /\ Len(rest) = Len(data) - m /\ Len(kept) = Len(left) + Len(rest)
          /\ Len(left) = (IF w <= Len(d) THEN Len(d) - w ELSE 0)
          /\ Len(all) = Len(d) + Len(data)
      BY <1>1, <1>5, <2>1, <2>2
    <3>2. Len(d) \in Nat /\ Len(data) \in Nat /\ w \in Nat /\ w <= Len(d) + Len(data)
      BY <1>1
    <3> DEFINE a == Len(d)  b == Len(data)  l == Len(left)  r == Len(rest)  k == Len(kept)
    <3>3. /\ a \in Nat /\ b \in Nat /\ w \in Nat /\ w <= a + b
          /\ m = (IF w - a >= 0 THEN w - a ELSE 0) /\ l = (IF w <= a THEN a - w ELSE 0)
          /\ r = b - m /\ k = l + r
      BY <1>4, <3>1, <3>2, Zenon
    <3> HIDE DEF a, b, l, r, k
    <3>4. w + k = a + b /\ w + l = a + m /\ m \in Nat
      BY <3>3
    <3> QED
      BY <3>1, <3>4, Zenon DEF a, b, l, k
  <2>4. ASSUME NEW i \in 1 .. Len(kept)
        PROVE  kept[i] = all[w + i]
    <3>1. CASE i <= Len(left)
      <4>1. i \in 1 .. Len(left) /\ w + i \in 1 .. Len(d)
        BY <1>1, <2>1, <2>2, <3>1
      <4>2. kept[i] = left[i] /\ left[i] = d[w + i]
        BY <2>1, <2>2, <4>1
      <4> QED
        BY <1>2, <4>1, <4>2
    <3>2. CASE i > Len(left)
      <4>1. i - Len(left) \in 1 .. Len(rest) /\ i \in Len(left) + 1 .. Len(left) + Len(rest)
        BY <2>2, <3>2
      <4>2. kept[i] = data[m + (i - Len(left))]
        BY <1>5, <2>2, <4>1
      <4>3. m + (i - Len(left)) \in 1 .. Len(data) /\ Len(d) + (m + (i - Len(left))) = w + i
        <5>1. i \in Int /\ i - Len(left) >= 1 /\ i - Len(left) <= Len(rest)
          BY <2>2, <4>1
        <5> QED
          <6> DEFINE l == Len(left)  r == Len(rest)  a == Len(d)  b == Len(data)
          <6>1. /\ l \in Nat /\ r \in Nat /\ a \in Nat /\ b \in Nat /\ m \in Nat /\ w \in Nat
                /\ w + l = a + m /\ r = b - m
                /\ i \in Int /\ i - l >= 1 /\ i - l <= r
            BY <1>1, <2>2, <2>3, <5>1, Zenon
          <6> HIDE DEF l, r, a, b
          <6>2. m + (i - l) \in 1 .. b /\ a + (m + (i - l)) = w + i
            BY <6>1
          <6> QED
            BY <6>2, Zenon DEF l, a, b
      <4>4. all[Len(d) + (m + (i - Len(left)))] = data[m + (i - Len(left))]
        BY <1>3, <4>3
      <4> QED
        BY <4>2, <4>3, <4>4
    <3> QED
      BY <2>2, <3>1, <3>2
  <2>5. Piece(kept, all, w)
    <3>1. w >= w /\ w + Len(kept) <= Len(all)
      BY <1>1, <2>2, <2>3
    <3> QED
      BY <1>1, <2>2, <2>4, <3>1 DEF Piece
  <2>6. RestOf(kept, all, w)
    <3>1. Len(kept) = Len(all) - w
      BY <1>1, <2>2, <2>3
    <3> QED
      BY <2>2, <2>4, <3>1 DEF RestOf
  <2>7. Piece(left, all, w)
    <3>1. ASSUME NEW i \in 1 .. Len(left)
          PROVE  left[i] = all[w + i]
      <4>1. w + i \in 1 .. Len(d)
        <5> DEFINE a == Len(d)  l == Len(left)
        <5>1. a \in Nat /\ w \in Nat /\ l \in Nat /\ l = (IF w <= a THEN a - w ELSE 0) /\ i \in 1 .. l
          BY <1>1, <2>1, <2>2, Zenon
        <5> HIDE DEF a, l
        <5>2. w + i \in 1 .. a
          BY <5>1
        <5> QED
          BY <5>2, Zenon DEF a
      <4>2. left[i] = d[w + i]
        BY <2>1
      <4> QED
        BY <1>2, <4>1, <4>2
    <3>2. w >= w /\ w + Len(left) <= Len(all)
      BY <1>1, <2>1, <2>2
    <3> QED
      BY <1>1, <2>1, <3>1, <3>2 DEF Piece
  <2>8. Len(left) <= Len(d)
    BY <1>1, <2>1
  <2> QED
    BY <2>1, <2>5, <2>6, <2>7, <2>8 DEF all, left, rest, m, kept
<1>8. CASE ring # d
  <2>1. ring = <<>> /\ w = 0 /\ m = 0
    BY <1>1, <1>4, <1>8
  <2>2. left = <<>> /\ left \in Seq(Int) /\ Len(left) = 0
    BY <2>1
  <2> HIDE DEF left, rest, kept
  <2>3. kept \in Seq(Int) /\ Len(kept) = Len(data) /\ \A i \in 1 .. Len(kept) : kept[i] = data[i]
    <3>1. /\ kept \in Seq(Int) /\ Len(kept) = Len(data) /\ Len(rest) = Len(data)
          /\ \A i \in 0 + 1 .. 0 + Len(rest) : kept[i] = rest[i - 0]
      BY <1>1, <1>5, <1>6, <2>1, <2>2
    <3>2. \A i \in 1 .. Len(rest) : rest[i] = data[0 + i]
      BY <1>5, <2>1
    <3> QED
      BY <1>1, <3>1, <3>2
  <2>4. Piece(kept, all, w)
    <3>1. Len(d) >= w /\ Len(d) + Len(kept) <= Len(all)
      BY <1>1, <2>1, <2>3
    <3>2. \A i \in 1 .. Len(kept) : kept[i] = all[Len(d) + i]
      BY <1>1, <1>3, <2>3
    <3> QED
      BY <1>1, <2>3, <3>1, <3>2 DEF Piece
  <2>5. Piece(left, all, w)
    <3>1. w \in 0 .. Len(all)
      BY <1>1
    <3> QED
      BY <1>1, <2>2, <3>1, EmptyPiece
  <2>6. Len(left) <= Len(d)
    BY <1>1, <2>2
  <2> QED
    BY <1>8, <2>2, <2>4, <2>5, <2>6 DEF all, left, rest, m, kept
<1> QED
  BY <1>7, <1>8

LEMMA WriteInOrder ==
  ASSUME NEW f, NEW n \in Nat, n > 0, FileInOrder(f, n),
         NEW len \in Nat, NEW data \in Seq(Int), Len(data) = len,
         \A i \in 1 .. len : data[i] = n + i - 1
  PROVE  FileInOrder(Write(f, data), n + len)
<1> DEFINE all == f.dirty \o data
           r == Through(f, data)
           g == r.fs
           w == r.written
           rest == SubSeq(data, Max({w - Len(f.dirty), 0}) + 1, Len(data))
           left == SubSeq(g.dirty, w + 1, Len(g.dirty))
<1>1. /\ f \in FileType /\ Chip(f.flash, f.address, n + len)
      /\ Stream(all, n + len) /\ Behind(all, f.flash)
      /\ FileInOrder([f EXCEPT !.dirty = all], n + len)
  BY Appended
<1>2. f.dirty \in Seq(Int) /\ Len(f.dirty) \in Nat /\ n + len \in Nat
  BY <1>1 DEF FileType
<1>3. Write(f, data) = IF Len(all) < AutoFlushLen THEN [f EXCEPT !.dirty = all]
                       ELSE Remainder(f, data, r, rest)
  BY Zenon DEF Write
<1>4. Wrote(f, all, g, w) /\ (g.dirty # f.dirty => w = 0)
  <2> HIDE DEF all
  <2>1. /\ Wrote(f, all, WriteBuffers(f, all, FALSE).fs, WriteBuffers(f, all, FALSE).written)
        /\ WriteBuffers(f, all, FALSE).fs.dirty # f.dirty => WriteBuffers(f, all, FALSE).written = 0
    BY <1>1, <1>2, AsyncWritten, Zenon
  <2>2. r = WriteBuffers(f, all, FALSE)
    BY Zenon DEF Through, all
  <2> HIDE DEF r
  <2> QED
    BY <2>1, <2>2, Zenon
<1>5. /\ left \in Seq(Int) /\ Piece(left, all, w) /\ Piece(left \o rest, all, w)
  <2>1. w \in 0 .. Len(f.dirty) + Len(data) /\ g.dirty \in {f.dirty, <<>>}
    <3>1. Len(all) = Len(f.dirty) + Len(data)
      BY <1>2, Concatenation, Zenon DEF Joined
    <3> QED
      BY <1>4, <3>1 DEF Wrote
  <2> HIDE DEF r, w, g
  <2> QED
    BY <1>2, <1>4, <2>1, RemainderIsPiece, Zenon
<1>6. Remainder(f, data, r, rest) \in {[g EXCEPT !.dirty = left], [g EXCEPT !.dirty = left \o rest]}
  <2>1. g \in FileType /\ w \in Nat
    <3>1. w \in 0 .. Len(all) /\ g \in FileType
      BY <1>4, Zenon DEF Wrote
    <3> HIDE DEF w, g, all
    <3> QED
      BY <3>1
  <2>2. AdvanceTail(g, w) = [g EXCEPT !.dirty = left]
    <3> HIDE DEF g, w
    <3> QED
      BY <2>1, RestOfRing, Zenon
  <2> DEFINE h == [g EXCEPT !.dirty = left]
  <2>3. Remainder(f, data, r, rest) \in {h, [h EXCEPT !.dirty = h.dirty \o rest]}
    BY <2>2, Zenon DEF Remainder
  <2>4. h.dirty = left /\ h = [g EXCEPT !.dirty = left]
    <3> HIDE DEF g, left
    <3> QED
      BY <2>1 DEF FileType
  <2>5. [h EXCEPT !.dirty = h.dirty \o rest] = [g EXCEPT !.dirty = left \o rest]
    <3> HIDE DEF g, left, rest
    <3> QED
      BY <2>1, <2>4 DEF FileType
  <2> QED
    BY <2>3, <2>5, Zenon
<1> HIDE DEF all, r, g, w, rest, left
<1>7. /\ FileInOrder([g EXCEPT !.dirty = left], n + len)
      /\ FileInOrder([g EXCEPT !.dirty = left \o rest], n + len)
  BY <1>1, <1>2, <1>4, <1>5, RestInOrder
<1> QED
  BY <1>1, <1>3, <1>6, <1>7, Zenon
-----------------------------------------------------------------------------
LEMMA EraseInOrder ==
  ASSUME NEW f, NEW n \in Nat, n > 0, FileInOrder(f, n)
  PROVE  FileInOrder(EraseCompletely(f), n)
<1> DEFINE e == EraseCompletely(f)
<1>1. /\ e \in FileType /\ e.dirty = <<>> /\ e.address = 0 /\ e.flash = [a \in Cells |-> 0]
  <2> DEFINE c == Cleared(f)  blank == Fresh.flash
  <2>1. c \in FileType /\ c.dirty = <<>>
    BY ClearedFields DEF FileInOrder
  <2>2. blank = [a \in Cells |-> 0]
    BY DEF Fresh, Erased
  <2>3. e = [c EXCEPT !.flash = blank, !.address = 0, !.busy = TRUE]
    BY Zenon DEF EraseCompletely
  <2> HIDE DEF e, c, blank
  <2>4. blank \in [Cells -> Int]
    BY <2>2
  <2> QED
    BY <2>1, <2>2, <2>3, <2>4 DEF FileType
<1> HIDE DEF e
<1>2. Stream(<<>>, n) /\ Behind(<<>>, e.flash)
  BY DEF Stream, Behind
<1>3. Chip(e.flash, 0, n)
  <2>1. e.flash \in [Cells -> Nat] /\ \A a \in Cells : e.flash[a] = 0 /\ a \in Nat
    BY <1>1, Constants DEF Cells
  <2> QED
    BY <2>1, Constants DEF Chip, Erased
<1>4. FileInOrder(e, n)
  BY <1>1, <1>2, <1>3 DEF FileInOrder
<1> QED
  BY <1>4 DEF e

LEMMA FreshInOrder == FileInOrder(Fresh, 1)
<1>1. /\ Fresh \in FileType /\ Fresh.dirty = <<>> /\ Fresh.address = 0
      /\ Fresh.flash = [a \in Cells |-> 0]
  BY DEF Fresh, FileType, Erased
<1>2. Stream(<<>>, 1) /\ Behind(<<>>, Fresh.flash)
  BY DEF Stream, Behind
<1>3. Chip(Fresh.flash, 0, 1)
  <2>1. Fresh.flash \in [Cells -> Nat] /\ \A a \in Cells : Fresh.flash[a] = 0 /\ a \in Nat
    BY <1>1, Constants DEF Cells
  <2> QED
    BY <2>1, Constants DEF Chip, Erased
<1> QED
  BY <1>1, <1>2, <1>3 DEF FileInOrder

LEMMA ReadyInOrder ==
  ASSUME NEW f, NEW n \in Nat, FileInOrder(f, n)
  PROVE  FileInOrder([f EXCEPT !.busy = FALSE], n)
<1> DEFINE g == [f EXCEPT !.busy = FALSE]
<1>1. g \in FileType /\ g.dirty = f.dirty /\ g.address = f.address /\ g.flash = f.flash
  BY DEF FileInOrder, FileType
<1> HIDE DEF g
<1>2. FileInOrder(g, n)
  BY <1>1 DEF FileInOrder
<1> QED
  BY <1>2 DEF g
-----------------------------------------------------------------------------
(* flashfsIdentifyStartOfFreeSpace(): if the blocks that look erased are those
   from k on, the binary search finds k.                                    *)
Narrowed(f, s) ==
    [range \in Blocks \X Blocks |->
        LET left == range[1]  right == range[2]  mid == (left + right) \div 2
        IN IF left >= right THEN right
           ELSE IF LooksErased(f, mid) THEN s[<<left, mid>>] ELSE s[<<mid + 1, right>>]]

LEMMA NarrowedValue ==
  ASSUME NEW f, NEW s, NEW l \in Blocks, NEW r \in Blocks, NEW m, m = (l + r) \div 2
  PROVE  Narrowed(f, s)[<<l, r>>] =
            IF l >= r THEN r ELSE IF LooksErased(f, m) THEN s[<<l, m>>] ELSE s[<<m + 1, r>>]
BY DEF Narrowed

LEMMA Halves ==
  ASSUME NEW l \in Blocks, NEW r \in Blocks, l < r, NEW m, m = (l + r) \div 2
  PROVE  m \in Blocks /\ m + 1 \in Blocks /\ l <= m /\ m < r /\ m < Size \div BlockSize
<1>1. Blocks \subseteq Nat /\ Size \div BlockSize \in Int
  BY Constants DEF Blocks
<1>2. l \in Nat /\ r \in Nat /\ m \in Int /\ l <= m /\ m < r
  BY <1>1
<1> QED
  BY <1>1, <1>2 DEF Blocks

(* A function with the equation of the search exists: the nearest of the ends
   to k.                                                                    *)
LEMMA SearchExists ==
  ASSUME NEW f, NEW k \in Nat, \A b \in Blocks : b < Size \div BlockSize => (LooksErased(f, b) <=> b >= k)
  PROVE  \E s : s = Narrowed(f, s)
<1> DEFINE near(l, r) == IF l >= r THEN r ELSE IF k < l THEN l ELSE IF k > r THEN r ELSE k
           s == [range \in Blocks \X Blocks |-> near(range[1], range[2])]
<1>1. ASSUME NEW l \in Blocks, NEW r \in Blocks
      PROVE  s[<<l, r>>] = near(l, r)
  OBVIOUS
<1>2. ASSUME NEW l \in Blocks, NEW r \in Blocks
      PROVE  Narrowed(f, s)[<<l, r>>] = near(l, r)
  <2> DEFINE m == (l + r) \div 2
  <2>1. m = (l + r) \div 2
    OBVIOUS
  <2> HIDE DEF m, s
  <2>2. Narrowed(f, s)[<<l, r>>] =
            IF l >= r THEN r ELSE IF LooksErased(f, m) THEN s[<<l, m>>] ELSE s[<<m + 1, r>>]
    BY <2>1, NarrowedValue
  <2>3. CASE l >= r
    BY <2>2, <2>3
  <2>4. CASE ~(l >= r)
    <3>1. l \in Nat /\ r \in Nat /\ l < r
      BY <2>4, Constants DEF Blocks
    <3>2. m \in Blocks /\ m + 1 \in Blocks /\ m \in Nat /\ l <= m /\ m < r /\ m < Size \div BlockSize
      <4>1. m \in Blocks /\ m + 1 \in Blocks /\ l <= m /\ m < r /\ m < Size \div BlockSize
        BY <2>1, <3>1, Halves
      <4> QED
        BY <4>1, Constants DEF Blocks
    <3>3. s[<<l, m>>] = near(l, m) /\ s[<<m + 1, r>>] = near(m + 1, r)
      BY <1>1, <3>2
    <3>4. Narrowed(f, s)[<<l, r>>] = IF m >= k THEN near(l, m) ELSE near(m + 1, r)
      BY <2>2, <2>4, <3>2, <3>3, Zenon
    <3> QED
      BY <3>1, <3>2, <3>4
  <2> QED
    BY <2>3, <2>4
<1>3. \A range \in Blocks \X Blocks : s[range] = Narrowed(f, s)[range]
  <2> SUFFICES ASSUME NEW range \in Blocks \X Blocks PROVE s[range] = Narrowed(f, s)[range]
    OBVIOUS
  <2> DEFINE l == range[1]  r == range[2]
  <2>1. l \in Blocks /\ r \in Blocks /\ range = <<l, r>>
    OBVIOUS
  <2> HIDE DEF l, r, s, near
  <2> QED
    BY <1>1, <1>2, <2>1, Zenon
<1>4. s = Narrowed(f, s)
  <2>1. s = [range \in Blocks \X Blocks |-> s[range]]
    <3> HIDE DEF near
    <3> QED
      OBVIOUS
  <2> HIDE DEF s
  <2>2. Narrowed(f, s) = [range \in Blocks \X Blocks |-> Narrowed(f, s)[range]]
    BY DEF Narrowed
  <2> HIDE DEF Narrowed
  <2> QED
    BY <1>3, <2>1, <2>2
<1> QED
  BY <1>4, Zenon

(* And each such function finds k.                                          *)
LEMMA SearchFinds ==
  ASSUME NEW f, NEW k \in Blocks, \A b \in Blocks : b < Size \div BlockSize => (LooksErased(f, b) <=> b >= k),
         NEW s, s = Narrowed(f, s)
  PROVE  s[<<0, Size \div BlockSize>>] = k
<1>0. Blocks \subseteq Nat /\ k \in Nat
  BY Constants DEF Blocks
<1> DEFINE Wrong == {d \in Nat : \E l, r \in Blocks :
                                    l <= k /\ k <= r /\ d = r - l /\ s[<<l, r>>] # k}
<1>1. Wrong = {}
  <2> SUFFICES ASSUME Wrong # {} PROVE FALSE
    OBVIOUS
  <2>1. PICK d \in Wrong : \A e \in Wrong : <<e, d>> \notin OpToRel(<, Nat)
    <3>1. Wrong \subseteq Nat
      OBVIOUS
    <3> HIDE DEF Wrong
    <3> QED
      BY <3>1, WFMin, NatLessThanWellFounded
  <2>2. ASSUME NEW e \in Wrong PROVE ~(e < d)
    <3> SUFFICES ASSUME e < d PROVE FALSE
      OBVIOUS
    <3>1. e \in Nat /\ d \in Nat
      OBVIOUS
    <3>2. <<e, d>> \in Nat \X Nat /\ <<e, d>>[1] < <<e, d>>[2]
      BY <3>1
    <3>3. <<e, d>> \in OpToRel(<, Nat)
      BY <3>2 DEF OpToRel
    <3> QED
      BY <2>1, <3>3, Zenon
  <2>3. PICK l \in Blocks, r \in Blocks : l <= k /\ k <= r /\ d = r - l /\ s[<<l, r>>] # k
    OBVIOUS
  <2>4. ASSUME NEW a \in Blocks, NEW b \in Blocks, a <= k, k <= b, b - a < d
        PROVE  s[<<a, b>>] = k
    <3> SUFFICES ASSUME s[<<a, b>>] # k PROVE FALSE
      OBVIOUS
    <3>1. b - a \in Nat
      BY <1>0, <2>4
    <3>2. b - a \in Wrong
      BY <2>4, <3>1
    <3> HIDE DEF Wrong
    <3> QED
      BY <2>2, <2>4, <3>2
  <2> DEFINE m == (l + r) \div 2
  <2>5. m = (l + r) \div 2
    OBVIOUS
  <2> HIDE DEF m, Wrong
  <2>6. s[<<l, r>>] =
            IF l >= r THEN r ELSE IF LooksErased(f, m) THEN s[<<l, m>>] ELSE s[<<m + 1, r>>]
    BY <2>5, NarrowedValue
  <2>7. l \in Nat /\ r \in Nat
    BY <1>0
  <2>8. CASE l >= r
    BY <1>0, <2>3, <2>6, <2>7, <2>8
  <2>9. CASE ~(l >= r)
    <3>1. m \in Blocks /\ m + 1 \in Blocks /\ m \in Nat /\ l <= m /\ m < r /\ m < Size \div BlockSize
      <4>1. m \in Blocks /\ m + 1 \in Blocks /\ l <= m /\ m < r /\ m < Size \div BlockSize
        BY <2>5, <2>7, <2>9, Halves
      <4> QED
        BY <1>0, <4>1
    <3>2. CASE m >= k
      <4>1. s[<<l, m>>] = k
        BY <2>3, <2>4, <2>7, <3>1, <3>2
      <4> QED
        BY <2>3, <2>6, <2>9, <3>1, <3>2, <4>1, Zenon
    <3>3. CASE ~(m >= k)
      <4>1. s[<<m + 1, r>>] = k
        <5>1. m + 1 <= k /\ k <= r /\ r - (m + 1) < d
          BY <1>0, <2>3, <2>7, <3>1, <3>3
        <5> QED
          BY <2>4, <3>1, <5>1
      <4> QED
        BY <2>3, <2>6, <2>9, <3>1, <3>3, <4>1, Zenon
    <3> QED
      BY <3>2, <3>3
  <2> QED
    BY <2>8, <2>9
<1> DEFINE last == Size \div BlockSize
<1>2. 0 \in Blocks /\ last \in Blocks /\ last \in Nat /\ 0 <= k /\ k <= last /\ last - 0 \in Nat
  BY Constants DEF Blocks
<1>3. last - 0 \notin Wrong
  BY <1>1
<1> HIDE DEF last
<1>4. s[<<0, last>>] = k
  BY <1>2, <1>3
<1> QED
  BY <1>4 DEF last

LEMMA StartFound ==
  ASSUME NEW f, NEW k \in Blocks, \A b \in Blocks : b < Size \div BlockSize => (LooksErased(f, b) <=> b >= k)
  PROVE  StartOfFreeSpace(f) = k * BlockSize
<1> DEFINE search == CHOOSE s : s = Narrowed(f, s)
<1>0. k \in Nat
  BY Constants DEF Blocks
<1>1. search = Narrowed(f, search)
  <2>1. \E s : s = Narrowed(f, s)
    BY <1>0, SearchExists
  <2> QED
    BY <2>1, Zenon
<1>2. StartOfFreeSpace(f) = search[<<0, Size \div BlockSize>>] * BlockSize
  BY DEF StartOfFreeSpace, Narrowed
<1> HIDE DEF search
<1>3. search[<<0, Size \div BlockSize>>] = k
  BY <1>1, SearchFinds
<1> QED
  BY <1>2, <1>3

(* The block where what is stored ends: blocks before it hold a byte at their
   start, blocks from it on none.                                           *)
LEMMA Multiple ==
  ASSUME NEW d \in Nat, d > 0, NEW b \in Nat
  PROVE  (b * d) % d = 0 /\ b * d \in Nat
<1> DEFINE x == b * d  q == x \div d  r == x % d
<1>1. x \in Nat
  OBVIOUS
<1>2. x = d * q + r /\ q \in Int /\ r \in Int /\ 0 <= r /\ r < d
  BY <1>1
<1>3. x = d * b
  OBVIOUS
<1> HIDE DEF x, q, r
<1>4. r = d * (b - q)
  BY <1>2, <1>3
<1>5. b - q = 0
  <2>1. CASE b - q >= 1
    <3>1. d * (b - q) >= d
      BY <1>2, <2>1
    <3> QED
      BY <1>2, <1>4, <3>1
  <2>2. CASE b - q <= -1
    <3>1. d * (b - q) <= -d
      BY <1>2, <2>2
    <3> QED
      BY <1>2, <1>4, <3>1
  <2> QED
    BY <1>2, <2>1, <2>2
<1>6. r = 0
  BY <1>2, <1>4, <1>5
<1> QED
  BY <1>1, <1>6 DEF x, r

LEMMA Monotone ==
  ASSUME NEW d \in Nat, NEW a \in Int, NEW b \in Int, a <= b
  PROVE  a * d <= b * d
OBVIOUS

LEMMA LastBlock ==
  ASSUME NEW address \in 0 .. Size
  PROVE  \E k \in Blocks : /\ k * BlockSize \in 0 .. Size /\ k * BlockSize >= address
                           /\ \A b \in Blocks : b < k => b * BlockSize < address
<1> USE Constants
<1> DEFINE d == BlockSize  last == Size \div d  q == address \div d
           k == IF address % d = 0 THEN q ELSE q + 1
<1>1. /\ d \in Nat /\ d > 0 /\ address \in Nat /\ address <= Size /\ Size \in Nat
      /\ last \in Nat /\ Size = last * d
      /\ q \in Nat /\ address = q * d + (address % d) /\ address % d \in Nat /\ address % d < d
  OBVIOUS
<1> DEFINE r == address % d
<1>2. r \in Nat /\ r < d /\ address = q * d + r /\ k = IF r = 0 THEN q ELSE q + 1
  BY <1>1
<1>3. Blocks = 0 .. last
  BY DEF Blocks
<1> HIDE DEF d, last, q, k, r
<1>4. k \in Nat /\ k * d >= address /\ (k - 1) * d < address
  <2>1. CASE r = 0
    <3>1. k = q /\ address = k * d
      BY <1>1, <1>2, <2>1
    <3>2. (k - 1) * d = k * d - d
      BY <1>1, <3>1
    <3> QED
      BY <1>1, <3>1, <3>2
  <2>2. CASE r # 0
    <3>1. k = q + 1 /\ k * d = q * d + d /\ (k - 1) * d = q * d
      BY <1>1, <1>2, <2>2
    <3>2. q * d \in Nat
      BY <1>1
    <3> QED
      BY <1>1, <1>2, <2>2, <3>1, <3>2
  <2> QED
    BY <2>1, <2>2
<1>5. k <= last
  <2> SUFFICES ASSUME k > last PROVE FALSE
    BY <1>1, <1>4
  <2>1. last * d <= (k - 1) * d
    <3>1. last <= k - 1 /\ k - 1 \in Int
      BY <1>1, <1>4
    <3> QED
      BY <1>1, <3>1, Monotone
  <2>2. last * d \in Int /\ (k - 1) * d \in Int
    BY <1>1, <1>4
  <2> QED
    BY <1>1, <1>4, <2>1, <2>2
<1>6. k \in Blocks
  BY <1>1, <1>3, <1>4, <1>5
<1>7. k * d \in 0 .. Size
  <2>1. k * d <= last * d
    BY <1>1, <1>4, <1>5, Monotone
  <2>2. k * d \in Nat
    BY <1>1, <1>4
  <2> QED
    BY <1>1, <2>1, <2>2
<1>8. ASSUME NEW b \in Blocks, b < k
      PROVE  b * d < address
  <2>1. b \in Nat /\ b <= k - 1 /\ k - 1 \in Int
    BY <1>1, <1>3, <1>4, <1>8
  <2>2. b * d <= (k - 1) * d
    BY <1>1, <2>1, Monotone
  <2>3. b * d \in Int /\ (k - 1) * d \in Int
    BY <1>1, <2>1
  <2> QED
    BY <1>1, <1>4, <2>2, <2>3
<1> QED
  BY <1>4, <1>6, <1>7, <1>8 DEF d

LEMMA BlocksOfChip ==
  ASSUME NEW f, NEW n, Chip(f.flash, f.address, n), NEW k \in Nat, k * BlockSize >= f.address,
         \A b \in Blocks : b < k => b * BlockSize < f.address
  PROVE  \A b \in Blocks : b < Size \div BlockSize => (LooksErased(f, b) <=> b >= k)
<1> USE Constants
<1> SUFFICES ASSUME NEW b \in Blocks, b < Size \div BlockSize
             PROVE  LooksErased(f, b) <=> b >= k
  OBVIOUS
<1> DEFINE d == BlockSize  last == Size \div d
<1>1. /\ b \in Nat /\ d \in Nat /\ d > 0 /\ last \in Nat /\ Size = last * d /\ b + 1 <= last
      /\ f.address \in Nat /\ Size \in Nat
  BY DEF Blocks, Chip
<1>2. b * d \in Nat /\ (b * d) % d = 0
  BY <1>1, Multiple
<1>3. b * d + d <= Size
  <2> HIDE DEF d, last
  <2>1. (b + 1) * d <= last * d
    BY <1>1, Monotone
  <2>2. (b + 1) * d = b * d + d
    BY <1>1
  <2> QED
    BY <1>1, <1>2, <2>1, <2>2
<1>4. ASSUME NEW i \in 0 .. TestSize - 1
      PROVE  b * d + i \in Cells
  <2>1. i \in Nat /\ i < d
    OBVIOUS
  <2> HIDE DEF d
  <2> QED
    BY <1>1, <1>2, <1>3, <2>1 DEF Cells
<1>5. CASE b >= k
  <2>1. b * d >= f.address
    <3>1. k * d <= b * d
      BY <1>1, <1>5, Monotone
    <3>2. k * d \in Int /\ k * d >= f.address
      OBVIOUS
    <3> HIDE DEF d
    <3> QED
      BY <1>1, <1>2, <3>1, <3>2
  <2>2. ASSUME NEW i \in 0 .. TestSize - 1
        PROVE  f.flash[b * d + i] = Erased
    <3>1. b * d + i >= f.address
      <4> HIDE DEF d
      <4> QED
        BY <1>1, <1>2, <2>1
    <3> HIDE DEF d
    <3> QED
      BY <1>4, <3>1 DEF Chip
  <2>3. LooksErased(f, b)
    BY <2>2 DEF LooksErased
  <2> QED
    BY <1>5, <2>3
<1>6. CASE ~(b >= k)
  <2>1. b * d < f.address
    BY <1>1, <1>6
  <2>2. 0 \in 0 .. TestSize - 1 /\ b * d + 0 = b * d
    BY <1>2
  <2>3. b * d \in Cells
    BY <1>4, <2>2
  <2>4. f.flash[b * d] # Erased
    BY <1>2, <2>1, <2>3 DEF Chip
  <2>5. ~LooksErased(f, b)
    BY <2>2, <2>4 DEF LooksErased
  <2> QED
    BY <1>6, <2>5
<1> QED
  BY <1>5, <1>6

LEMMA BootInOrder ==
  ASSUME NEW f, NEW n \in Nat, n > 0, FileInOrder(f, n)
  PROVE  FileInOrder(Boot(f), n)
<1>1. Chip(f.flash, f.address, n) /\ f.flash \in [Cells -> Nat] /\ f.address \in 0 .. Size
  BY DEF FileInOrder, Chip
<1>2. PICK k \in Blocks : /\ k * BlockSize \in 0 .. Size /\ k * BlockSize >= f.address
                          /\ \A b \in Blocks : b < k => b * BlockSize < f.address
  BY <1>1, LastBlock
<1>3. k \in Nat
  BY Constants DEF Blocks
<1>4. StartOfFreeSpace(f) = k * BlockSize
  BY <1>1, <1>2, <1>3, BlocksOfChip, StartFound
<1> DEFINE g == Boot(f)
<1>5. /\ g \in FileType /\ g.dirty = <<>> /\ g.flash = f.flash /\ g.address = k * BlockSize
  <2>1. g = [Fresh EXCEPT !.flash = f.flash, !.address = k * BlockSize]
    BY <1>4 DEF Boot
  <2>2. Fresh \in FileType /\ Fresh.dirty = <<>>
    BY FreshInOrder DEF FileInOrder, Fresh
  <2>3. f.flash \in [Cells -> Int] /\ k * BlockSize \in Nat
    BY <1>1, <1>2
  <2> HIDE DEF g
  <2> QED
    BY <2>1, <2>2, <2>3 DEF FileType
<1> HIDE DEF g
<1>6. Stream(<<>>, n) /\ Behind(<<>>, g.flash)
  BY DEF Stream, Behind
<1>7. Chip(f.flash, k * BlockSize, n)
  <2> SUFFICES ASSUME NEW a \in Cells
               PROVE  /\ a >= k * BlockSize => f.flash[a] = Erased
                      /\ a < k * BlockSize /\ a % BlockSize = 0 => f.flash[a] # Erased
    BY <1>1, <1>2 DEF Chip
  <2>1. a \in Nat /\ a < Size
    BY Constants DEF Cells
  <2>2. a >= k * BlockSize => f.flash[a] = Erased
    BY <1>1, <1>2, <2>1 DEF Chip
  <2>3. ASSUME a < k * BlockSize, a % BlockSize = 0
        PROVE  f.flash[a] # Erased
    <3> DEFINE b == a \div BlockSize
    <3>1. b \in Int /\ a = b * BlockSize /\ b >= 0
      BY <2>1, <2>3, Constants
    <3> HIDE DEF b
    <3>2. b < k
      <4> SUFFICES ASSUME k <= b PROVE FALSE
        BY <1>3, <3>1
      <4>1. k * BlockSize <= b * BlockSize
        BY <1>3, <3>1, Constants, Monotone
      <4> QED
        BY <1>2, <2>1, <2>3, <3>1, <4>1
    <3>3. b \in Blocks
      BY <1>3, <3>1, <3>2, Constants DEF Blocks
    <3>4. a < f.address
      BY <1>2, <3>1, <3>2, <3>3
    <3> QED
      BY <1>1, <2>3, <3>4 DEF Chip
  <2> QED
    BY <2>2, <2>3
<1>8. FileInOrder(g, n)
  BY <1>5, <1>6, <1>7 DEF FileInOrder
<1> QED
  BY <1>8 DEF g
-----------------------------------------------------------------------------
(* Nothing is lost as long as there is room. A log whose bytes have the numbers
   from .. n - 1 is held if each of them is at its place, on the chip or behind
   it in the ring; at the end of the volume nothing is promised.            *)
Holds(c, address, s, from, n) ==
    \A j \in from .. n - 1 :
        LET p == address + Len(s) - (n - j)
        IN  /\ p \in Nat
            /\ p < address => c[p] = j
            /\ p >= address => s[p - address + 1] = j
Held(f, from, n) == ~IsEOF(f) => Holds(f.flash, f.address, f.dirty, from, n)

(* The ring did not grow by more than k bytes, and the chip only behind what
   was stored.                                                              *)
Grown(f, g, k) ==
    /\ Len(g.dirty) <= Usable /\ Len(g.dirty) <= Len(f.dirty) + k
    /\ g.address >= f.address /\ \A a \in Cells : a < f.address => g.flash[a] = f.flash[a]

LEMMA ProgrammedCells ==
  ASSUME NEW c, NEW address, NEW n \in Nat, NEW s, NEW w \in 0 .. Len(s),
         Chip(c, address, n), Stream(s, n), address + w <= Size
  PROVE  \A a \in Cells :
            /\ a < address => Programmed(c, address, SubSeq(s, 1, w))[a] = c[a]
            /\ a >= address /\ a < address + w =>
                  Programmed(c, address, SubSeq(s, 1, w))[a] = s[a - address + 1]
<1> DEFINE data == SubSeq(s, 1, w)
<1>1. /\ address \in Nat /\ w \in Nat /\ s \in Seq(Int) /\ Len(s) \in Nat
      /\ c \in [Cells -> Nat] /\ Cells \subseteq Nat
  BY Constants DEF Chip, Stream, Cells
<1>2. Len(data) = w /\ \A i \in 1 .. w : data[i] = s[i]
  BY <1>1, FirstBytes
<1> HIDE DEF data
<1> SUFFICES ASSUME NEW a \in Cells
             PROVE  /\ a < address => Programmed(c, address, data)[a] = c[a]
                    /\ a >= address /\ a < address + w =>
                          Programmed(c, address, data)[a] = s[a - address + 1]
  BY DEF data
<1>3. CASE a < address
  <2>1. a \notin address .. address + Len(data) - 1
    BY <1>1, <1>2, <1>3
  <2>2. Programmed(c, address, data)[a] = c[a]
    BY <2>1 DEF Programmed
  <2> QED
    BY <1>1, <1>3, <2>2
<1>4. CASE a >= address /\ a < address + w
  <2>1. a \in address .. address + Len(data) - 1 /\ c[a] = Erased
    BY <1>1, <1>2, <1>4 DEF Chip
  <2>2. a - address + 1 \in 1 .. w
    BY <1>1, <1>4
  <2>3. Programmed(c, address, data)[a] = s[a - address + 1]
    BY <1>2, <2>1, <2>2 DEF Programmed
  <2> QED
    BY <1>1, <1>4, <2>3
<1> QED
  BY <1>3, <1>4

(* The bytes move from the ring to the chip and keep their places.          *)
LEMMA HoldsOnChip ==
  ASSUME NEW c, NEW address, NEW n \in Nat, NEW m \in Nat, NEW s, NEW w \in 0 .. Len(s), NEW from \in Nat,
         Chip(c, address, n), Stream(s, n), address + w <= Size,
         NEW r, RestOf(r, s, w), Holds(c, address, s, from, m)
  PROVE  Holds(Programmed(c, address, SubSeq(s, 1, w)), address + w, r, from, m)
<1> DEFINE d == Programmed(c, address, SubSeq(s, 1, w))
<1>1. /\ address \in Nat /\ w \in Nat /\ w <= Len(s) /\ Len(s) \in Nat /\ Len(r) = Len(s) - w
      /\ Size \in Nat /\ Cells = 0 .. Size - 1
      /\ \A i \in 1 .. Len(r) : r[i] = s[w + i]
  BY Constants DEF Chip, Stream, RestOf, Cells
<1>2. \A a \in Cells : /\ a < address => d[a] = c[a]
                       /\ a >= address /\ a < address + w => d[a] = s[a - address + 1]
  BY ProgrammedCells
<1> HIDE DEF d
<1> SUFFICES ASSUME NEW j \in from .. m - 1
             PROVE  LET p == (address + w) + Len(r) - (m - j)
                    IN  /\ p \in Nat
                        /\ p < address + w => d[p] = j
                        /\ p >= address + w => r[p - (address + w) + 1] = j
  BY DEF Holds, d
<1> DEFINE p == address + Len(s) - (m - j)
<1>3. (address + w) + Len(r) - (m - j) = p /\ j \in Int /\ j <= m - 1
  BY <1>1
<1>4. p \in Nat /\ (p < address => c[p] = j) /\ (p >= address => s[p - address + 1] = j)
  BY DEF Holds
<1>5. p < address + Len(s)
  BY <1>1, <1>3
<1> HIDE DEF p
<1>6. p < address + w => d[p] = j
  <2> SUFFICES ASSUME p < address + w PROVE d[p] = j
    OBVIOUS
  <2>1. p \in Cells
    BY <1>1, <1>4
  <2> QED
    BY <1>1, <1>2, <1>4, <2>1
<1>7. p >= address + w => r[p - (address + w) + 1] = j
  <2> SUFFICES ASSUME p >= address + w PROVE r[p - (address + w) + 1] = j
    OBVIOUS
  <2> DEFINE i == p - (address + w) + 1
  <2>1. i \in 1 .. Len(r) /\ w + i = p - address + 1
    BY <1>1, <1>4, <1>5
  <2> HIDE DEF i
  <2>2. r[i] = s[w + i] /\ p >= address
    BY <1>1, <1>4, <2>1
  <2> QED
    BY <1>4, <2>1, <2>2 DEF i
<1> QED
  BY <1>3, <1>4, <1>6, <1>7

(* New bytes take the places behind the old ones.                           *)
LEMMA HoldsMore ==
  ASSUME NEW c, NEW address \in Nat, NEW n \in Nat, NEW s \in Seq(Int), NEW from \in Nat,
         Holds(c, address, s, from, n), from <= n,
         NEW len \in Nat, NEW data \in Seq(Int), Len(data) = len,
         \A i \in 1 .. len : data[i] = n + i - 1
  PROVE  Holds(c, address, s \o data, from, n + len)
<1> DEFINE all == s \o data
<1>1. Joined(all, s, data)
  BY Concatenation
<1> HIDE DEF all
<1>2. /\ Len(all) = Len(s) + len /\ Len(s) \in Nat
      /\ \A i \in 1 .. Len(s) : all[i] = s[i]
      /\ \A i \in Len(s) + 1 .. Len(s) + len : all[i] = data[i - Len(s)]
  BY <1>1 DEF Joined
<1> SUFFICES ASSUME NEW j \in from .. (n + len) - 1
             PROVE  LET p == address + Len(all) - ((n + len) - j)
                    IN  /\ p \in Nat
                        /\ p < address => c[p] = j
                        /\ p >= address => all[p - address + 1] = j
  BY DEF Holds, all
<1> DEFINE p == address + Len(s) - (n - j)
<1>3. address + Len(all) - ((n + len) - j) = p /\ j \in Nat
  BY <1>2
<1>4. CASE j < n
  <2>1. j \in from .. n - 1
    BY <1>4
  <2>2. p \in Nat /\ (p < address => c[p] = j) /\ (p >= address => s[p - address + 1] = j)
    BY <2>1 DEF Holds
  <2>3. p >= address => p - address + 1 \in 1 .. Len(s)
    BY <1>2, <1>4, <2>2
  <2> HIDE DEF p
  <2>4. p >= address => all[p - address + 1] = j
    BY <1>2, <2>2, <2>3
  <2> QED
    BY <1>3, <2>2, <2>4
<1>5. CASE ~(j < n)
  <2>1. p \in Nat /\ p >= address /\ p - address + 1 = Len(s) + (j - n) + 1
    BY <1>2, <1>3, <1>5
  <2> HIDE DEF p
  <2> DEFINE k == p - address + 1
  <2>2. k \in Len(s) + 1 .. Len(s) + len /\ k - Len(s) \in 1 .. len /\ k - Len(s) = j - n + 1
    BY <1>2, <1>3, <1>5, <2>1
  <2> HIDE DEF k
  <2>3. all[k] = data[k - Len(s)]
    BY <1>2, <2>2
  <2>4. data[k - Len(s)] = n + (k - Len(s)) - 1
    BY <2>2
  <2>5. n + (k - Len(s)) - 1 = j
    BY <1>3, <2>2
  <2>6. all[k] = j
    BY <2>3, <2>4, <2>5
  <2>7. all[p - address + 1] = j
    BY <2>6, Zenon DEF k
  <2>8. p \in Nat /\ ~(p < address)
    BY <2>1
  <2> QED
    BY <1>3, <2>7, <2>8, Zenon
<1> QED
  BY <1>4, <1>5
-----------------------------------------------------------------------------
(* What each function of the file system keeps.                             *)
LEMMA RestKeeps ==
  ASSUME NEW f, NEW n \in Nat, NEW s, NEW g, NEW w, NEW r \in Seq(Int), NEW from \in Nat, NEW m \in Nat,
         f \in FileType, Chip(f.flash, f.address, n), Stream(s, n), Wrote(f, s, g, w)
  PROVE  LET h == [g EXCEPT !.dirty = r]
         IN  /\ h.dirty = r /\ h.address >= f.address /\ (IsEOF(h) <=> IsEOF(g))
             /\ IsEOF(f) => IsEOF(h)
             /\ \A a \in Cells : a < f.address => h.flash[a] = f.flash[a]
             /\ RestOf(r, s, w) /\ Holds(f.flash, f.address, s, from, m) => Held(h, from, m)
<1> DEFINE h == [g EXCEPT !.dirty = r]
<1>1. /\ w \in 0 .. Len(s) /\ f.address + w <= Size /\ g \in FileType
      /\ g.address = f.address + w /\ g.flash = Programmed(f.flash, f.address, SubSeq(s, 1, w))
  BY DEF Wrote
<1>2. h \in FileType /\ h.dirty = r /\ h.address = g.address /\ h.flash = g.flash
  BY <1>1, Rewritten
<1> HIDE DEF h
<1>3. f.address \in Nat /\ w \in Nat /\ Size \in Nat
  BY <1>1, Constants DEF FileType, Stream
<1>4. h.address >= f.address /\ (IsEOF(h) <=> IsEOF(g)) /\ (IsEOF(f) => IsEOF(h))
  BY <1>1, <1>2, <1>3 DEF IsEOF
<1>5. \A a \in Cells : a < f.address => h.flash[a] = f.flash[a]
  BY <1>1, <1>2, ProgrammedCells
<1>6. RestOf(r, s, w) /\ Holds(f.flash, f.address, s, from, m) => Held(h, from, m)
  <2>1. RestOf(r, s, w) /\ Holds(f.flash, f.address, s, from, m) =>
           Holds(Programmed(f.flash, f.address, SubSeq(s, 1, w)), f.address + w, r, from, m)
    BY <1>1, HoldsOnChip
  <2> QED
    BY <1>1, <1>2, <2>1, Zenon DEF Held
<1> QED
  BY <1>2, <1>4, <1>5, <1>6 DEF h

LEMMA FlushAsyncKeeps ==
  ASSUME NEW f, NEW n \in Nat, FileInOrder(f, n), Len(f.dirty) <= Usable, NEW from \in Nat,
         NEW m \in Nat
  PROVE  /\ Grown(f, FlushAsync(f), 0)
         /\ Held(f, from, m) => Held(FlushAsync(f), from, m)
<1>1. /\ f \in FileType /\ f.dirty \in Seq(Int) /\ Len(f.dirty) \in Nat /\ f.address \in Nat
      /\ Stream(f.dirty, n) /\ Chip(f.flash, f.address, n) /\ Behind(f.dirty, f.flash)
      /\ Usable \in Int
  BY Constants DEF FileInOrder, FileType, Usable
<1>2. CASE IsEmpty(f)
  BY <1>1, <1>2 DEF FlushAsync, Grown
<1>3. CASE ~IsEmpty(f)
  <2> DEFINE r == WriteBuffers(f, f.dirty, FALSE)
             g == r.fs
             w == r.written
             rest == SubSeq(g.dirty, w + 1, Len(g.dirty))
             h == [g EXCEPT !.dirty = rest]
  <2>1. /\ Wrote(f, f.dirty, g, w) /\ (g.dirty # f.dirty => w = 0)
        /\ ~IsEOF(g) => g.dirty = f.dirty
    BY <1>1, AsyncWritten, Zenon
  <2>2. FlushAsync(f) = AdvanceTail(g, w)
    BY <1>3 DEF FlushAsync
  <2> HIDE DEF r
  <2>3. g \in FileType /\ w \in 0 .. Len(f.dirty) /\ w \in Nat /\ g.dirty \in {f.dirty, <<>>}
    BY <1>1, <2>1 DEF Wrote
  <2>4. FlushAsync(f) = h /\ rest \in Seq(Int)
    BY <2>2, <2>3, RestOfRing
  <2>5. Len(rest) \in Nat /\ Len(rest) <= Len(f.dirty) /\ (g.dirty = f.dirty => RestOf(rest, f.dirty, w))
    <3>1. CASE g.dirty = f.dirty
      <4>0. rest = SubSeq(f.dirty, w + 1, Len(f.dirty))
        BY <3>1
      <4> HIDE DEF rest, w
      <4>1. /\ rest \in Seq(Int) /\ Len(rest) = Len(f.dirty) - w
            /\ \A i \in 1 .. Len(rest) : rest[i] = f.dirty[w + i]
        BY <1>1, <2>3, <4>0, LastBytes
      <4>2. Len(rest) \in Nat /\ Len(rest) <= Len(f.dirty)
        BY <1>1, <2>3, <4>1
      <4> QED
        BY <4>1, <4>2 DEF RestOf
    <3>2. CASE g.dirty # f.dirty
      <4>1. rest = <<>> /\ Len(rest) = 0
        BY <2>3, <3>2
      <4> HIDE DEF rest, g
      <4> QED
        BY <1>1, <3>2, <4>1
    <3> QED
      BY <3>1, <3>2
  <2> HIDE DEF g, w, rest
  <2>6. /\ h.dirty = rest /\ h.address >= f.address /\ (IsEOF(h) <=> IsEOF(g))
        /\ IsEOF(f) => IsEOF(h)
        /\ \A a \in Cells : a < f.address => h.flash[a] = f.flash[a]
        /\ RestOf(rest, f.dirty, w) /\ Holds(f.flash, f.address, f.dirty, from, m) => Held(h, from, m)
    BY <1>1, <2>1, <2>4, RestKeeps, Zenon
  <2> HIDE DEF h
  <2>7. Grown(f, h, 0)
    <3>1. Len(rest) <= Usable /\ Len(rest) <= Len(f.dirty) + 0
      BY <1>1, <2>5
    <3> QED
      BY <2>6, <3>1, Zenon DEF Grown
  <2>8. Held(f, from, m) => Held(h, from, m)
    BY <2>1, <2>5, <2>6, Zenon DEF Held
  <2> QED
    BY <2>4, <2>7, <2>8, Zenon
<1> QED
  BY <1>2, <1>3

LEMMA FlushSyncKeeps ==
  ASSUME NEW f, NEW n \in Nat, FileInOrder(f, n), Len(f.dirty) <= Usable, NEW from \in Nat,
         NEW m \in Nat
  PROVE  /\ Grown(f, FlushSync(f), 0)
         /\ Held(f, from, m) => Held(FlushSync(f), from, m)
<1>1. /\ f \in FileType /\ f.dirty \in Seq(Int) /\ Len(f.dirty) \in Nat /\ f.address \in Nat
      /\ Stream(f.dirty, n) /\ Chip(f.flash, f.address, n) /\ Behind(f.dirty, f.flash)
      /\ Usable \in Int
  BY Constants DEF FileInOrder, FileType, Usable
<1>2. CASE IsEmpty(f)
  BY <1>1, <1>2 DEF FlushSync, Grown
<1>3. CASE ~IsEmpty(f)
  <2> DEFINE r == WriteBuffers(f, f.dirty, TRUE)
             g == r.fs
             w == r.written
             h == [g EXCEPT !.dirty = <<>>]
  <2>1. /\ Wrote(f, f.dirty, g, w) /\ (~IsEOF(g) => w = Len(f.dirty))
    BY <1>1, BuffersWritten
  <2>2. FlushSync(f) = h
    BY <1>3 DEF FlushSync, Cleared
  <2> HIDE DEF r
  <2>3. <<>> \in Seq(Int) /\ Len(<<>>) = 0 /\ (w = Len(f.dirty) => RestOf(<<>>, f.dirty, w))
    BY <1>1 DEF RestOf
  <2> HIDE DEF g, w
  <2>4. /\ h.dirty = <<>> /\ h.address >= f.address /\ (IsEOF(h) <=> IsEOF(g))
        /\ IsEOF(f) => IsEOF(h)
        /\ \A a \in Cells : a < f.address => h.flash[a] = f.flash[a]
        /\ RestOf(<<>>, f.dirty, w) /\ Holds(f.flash, f.address, f.dirty, from, m) => Held(h, from, m)
    BY <1>1, <2>1, <2>3, RestKeeps, Zenon
  <2> HIDE DEF h
  <2>5. Grown(f, h, 0)
    <3>1. 0 <= Usable /\ 0 <= Len(f.dirty) + 0
      BY <1>1
    <3> QED
      BY <2>3, <2>4, <3>1, Zenon DEF Grown
  <2>6. Held(f, from, m) => Held(h, from, m)
    BY <2>1, <2>3, <2>4, Zenon DEF Held
  <2> QED
    BY <2>2, <2>5, <2>6, Zenon
<1> QED
  BY <1>2, <1>3

(* One byte more, if there is room for it.                                  *)
LEMMA WriteByteKeeps ==
  ASSUME NEW f, NEW n \in Nat, n > 0, FileInOrder(f, n), Len(f.dirty) <= Usable,
         NEW from \in Nat, from <= n
  PROVE  /\ Grown(f, WriteByte(f, n), 1)
         /\ Len(f.dirty) < Usable /\ Held(f, from, n) => Held(WriteByte(f, n), from, n + 1)
<1>1. /\ f \in FileType /\ f.dirty \in Seq(Int) /\ FileInOrder(f, n + 1) /\ Usable \in Int
      /\ Len(f.dirty) \in Nat /\ f.address \in Nat
  BY LaterNumbers, Constants DEF FileInOrder, FileType, Usable
<1> DEFINE byte == IF Len(f.dirty) = Usable THEN <<>> ELSE Append(f.dirty, n)
           stored == [f EXCEPT !.dirty = byte]
<1>2. byte \in Seq(Int) /\ Len(byte) \in Nat /\ Len(byte) <= Usable /\ Len(byte) <= Len(f.dirty) + 1
      /\ (Len(f.dirty) < Usable => byte = f.dirty \o <<n>>)
  <2>1. CASE Len(f.dirty) = Usable
    BY <1>1, <2>1
  <2>2. CASE Len(f.dirty) # Usable
    <3>1. Append(f.dirty, n) \in Seq(Int) /\ Len(Append(f.dirty, n)) = Len(f.dirty) + 1
          /\ Append(f.dirty, n) = f.dirty \o <<n>>
      BY <1>1
    <3>2. byte = Append(f.dirty, n)
      BY <2>2
    <3> HIDE DEF byte
    <3> QED
      BY <1>1, <2>2, <3>1, <3>2
  <2> QED
    BY <2>1, <2>2
<1>3. WriteByte(f, n) = IF Len(stored.dirty) >= AutoFlushLen THEN FlushAsync(stored) ELSE stored
  BY DEF WriteByte, FileType
<1> HIDE DEF byte
<1>4. stored \in FileType /\ stored.dirty = byte /\ stored.address = f.address /\ stored.flash = f.flash
  BY <1>1, <1>2, Rewritten
<1>5. FileInOrder(stored, n + 1)
  <2>1. CASE Len(f.dirty) < Usable
    <3>1. <<n>> \in Seq(Int) /\ Len(<<n>>) = 1 /\ \A i \in 1 .. 1 : <<n>>[i] = n + i - 1
      OBVIOUS
    <3>2. FileInOrder([f EXCEPT !.dirty = f.dirty \o <<n>>], n + 1)
      BY <3>1, Appended
    <3> QED
      BY <1>2, <2>1, <3>2
  <2>2. CASE ~(Len(f.dirty) < Usable)
    <3>1. byte = <<>>
      BY <1>1, <2>2 DEF byte
    <3>2. stored = Cleared(f)
      BY <3>1 DEF Cleared
    <3> QED
      BY <1>1, <3>2, ClearedInOrder
  <2> QED
    BY <2>1, <2>2
<1>6. Len(f.dirty) < Usable /\ Held(f, from, n) => Held(stored, from, n + 1)
  <2>1. <<n>> \in Seq(Int) /\ Len(<<n>>) = 1 /\ \A i \in 1 .. 1 : <<n>>[i] = n + i - 1
    OBVIOUS
  <2>2. Holds(f.flash, f.address, f.dirty, from, n) =>
          Holds(f.flash, f.address, f.dirty \o <<n>>, from, n + 1)
    BY <1>1, <2>1, HoldsMore
  <2> HIDE DEF stored
  <2> QED
    BY <1>2, <1>4, <2>2, Zenon DEF Held, IsEOF
<1> HIDE DEF stored
<1>7. Grown(f, stored, 1)
  BY <1>1, <1>2, <1>4 DEF Grown
<1>8. /\ Grown(stored, FlushAsync(stored), 0)
      /\ Held(stored, from, n + 1) => Held(FlushAsync(stored), from, n + 1)
  BY <1>2, <1>4, <1>5, FlushAsyncKeeps
<1>9. Grown(f, FlushAsync(stored), 1)
  <2>1. Len(FlushAsync(stored).dirty) <= Usable /\ Len(FlushAsync(stored).dirty) <= Len(f.dirty) + 1
    <3>1. /\ Len(FlushAsync(stored).dirty) <= Len(byte) + 0
          /\ Len(FlushAsync(stored).dirty) <= Usable
      BY <1>4, <1>8 DEF Grown
    <3>2. Len(FlushAsync(stored).dirty) \in Int
      <4>1. FileInOrder(FlushAsync(stored), n + 1)
        BY <1>5, FlushAsyncInOrder
      <4> QED
        BY <4>1 DEF FileInOrder, FileType
    <3> QED
      BY <1>1, <1>2, <3>1, <3>2
  <2> QED
    BY <1>4, <1>8, <2>1, Zenon DEF Grown
<1> QED
  BY <1>3, <1>6, <1>7, <1>8, <1>9, Zenon

(* Several bytes at once, if there is room for all of them.                 *)
LEMMA WriteKeeps ==
  ASSUME NEW f, NEW n \in Nat, n > 0, FileInOrder(f, n), Len(f.dirty) <= Usable,
         NEW len \in Nat, NEW data \in Seq(Int), Len(data) = len,
         \A i \in 1 .. len : data[i] = n + i - 1,
         NEW from \in Nat, from <= n
  PROVE  /\ Grown(f, Write(f, data), len)
         /\ Len(f.dirty) + len <= Usable /\ Held(f, from, n) => Held(Write(f, data), from, n + len)
<1> DEFINE all == f.dirty \o data
           r == Through(f, data)
           g == r.fs
           w == r.written
           rest == SubSeq(data, Max({w - Len(f.dirty), 0}) + 1, Len(data))
           left == SubSeq(g.dirty, w + 1, Len(g.dirty))
           kept == left \o rest
<1>1. /\ f \in FileType /\ Chip(f.flash, f.address, n + len)
      /\ Stream(all, n + len) /\ Behind(all, f.flash)
  BY Appended
<1>2. /\ f.dirty \in Seq(Int) /\ Len(f.dirty) \in Nat /\ n + len \in Nat /\ f.address \in Nat
      /\ Usable \in Nat /\ AutoFlushLen \in Nat /\ AutoFlushLen <= Usable
  BY <1>1, FlashAssumption DEF FileType, Usable
<1>3. all \in Seq(Int) /\ Len(all) = Len(f.dirty) + len
  BY <1>2, Concatenation, Zenon DEF Joined
<1>4. Write(f, data) = IF Len(all) < AutoFlushLen THEN [f EXCEPT !.dirty = all]
                       ELSE Remainder(f, data, r, rest)
  BY Zenon DEF Write
<1>5. /\ Wrote(f, all, g, w) /\ (g.dirty # f.dirty => w = 0)
      /\ ~IsEOF(g) => g.dirty = f.dirty
  <2> HIDE DEF all
  <2>1. /\ Wrote(f, all, WriteBuffers(f, all, FALSE).fs, WriteBuffers(f, all, FALSE).written)
        /\ WriteBuffers(f, all, FALSE).fs.dirty # f.dirty => WriteBuffers(f, all, FALSE).written = 0
        /\ ~IsEOF(WriteBuffers(f, all, FALSE).fs) => WriteBuffers(f, all, FALSE).fs.dirty = f.dirty
    BY <1>1, <1>2, AsyncWritten, Zenon
  <2>2. r = WriteBuffers(f, all, FALSE)
    BY Zenon DEF Through, all
  <2> HIDE DEF r
  <2> QED
    BY <2>1, <2>2, Zenon
<1>6. w \in 0 .. Len(f.dirty) + Len(data) /\ w \in Nat /\ g.dirty \in {f.dirty, <<>>} /\ g \in FileType
  <2>1. w \in 0 .. Len(all) /\ g \in FileType /\ g.dirty \in {f.dirty, <<>>}
    BY <1>5, Zenon DEF Wrote
  <2>2. w \in 0 .. Len(f.dirty) + Len(data)
    <3>1. Len(all) = Len(f.dirty) + Len(data)
      BY <1>3, Zenon
    <3> QED
      BY <2>1, <3>1, Zenon
  <2>3. w \in Nat
    <3> HIDE DEF w, all
    <3> QED
      BY <1>2, <1>3, <2>1
  <2> QED
    BY <2>1, <2>2, <2>3, Zenon
<1>7. /\ left \in Seq(Int) /\ Piece(kept, all, w) /\ Len(left) <= Len(f.dirty)
      /\ g.dirty = f.dirty => RestOf(kept, all, w)
  <2> HIDE DEF r, w, g
  <2> QED
    BY <1>2, <1>5, <1>6, RemainderIsPiece, Zenon
<1>8. Remainder(f, data, r, rest) = IF Len(all) - w > Usable THEN [g EXCEPT !.dirty = left]
                                    ELSE [g EXCEPT !.dirty = kept]
  <2>1. AdvanceTail(g, w) = [g EXCEPT !.dirty = left]
    <3> HIDE DEF g, w
    <3> QED
      BY <1>6, RestOfRing, Zenon
  <2> DEFINE h == [g EXCEPT !.dirty = left]
  <2>2. Remainder(f, data, r, rest) = IF Len(all) - w > Usable THEN h ELSE [h EXCEPT !.dirty = h.dirty \o rest]
    BY <2>1, Zenon DEF Remainder
  <2>3. h.dirty = left
    <3> HIDE DEF g, left
    <3> QED
      BY <1>6 DEF FileType
  <2>4. [h EXCEPT !.dirty = h.dirty \o rest] = [g EXCEPT !.dirty = kept]
    <3> HIDE DEF g, left, rest
    <3> QED
      BY <1>6, <2>3 DEF FileType
  <2> QED
    BY <2>2, <2>4, Zenon
<1>9. kept \in Seq(Int) /\ Len(kept) \in Nat /\ Len(kept) <= Len(all) - w /\ Len(left) \in Nat
  <2>1. kept \in Seq(Int) /\ \E k \in Nat : k >= w /\ k + Len(kept) <= Len(all)
    BY <1>7 DEF Piece
  <2>2. left \in Seq(Int) /\ Len(all) \in Int /\ w \in Nat
    BY <1>2, <1>3, <1>6, <1>7
  <2> HIDE DEF kept, all, w, left
  <2>3. Len(left) \in Nat /\ Len(kept) \in Nat
    BY <2>1, <2>2
  <2>4. PICK k \in Nat : k >= w /\ k + Len(kept) <= Len(all)
    BY <2>1
  <2>5. Len(kept) <= Len(all) - w
    BY <2>2, <2>3, <2>4
  <2> QED
    BY <2>1, <2>3, <2>5
<1> HIDE DEF all, r, g, w, rest, left, kept
(* As far as it went: all of it in the ring, or a part on the chip.         *)
<1>10. Len(f.dirty) + len <= Usable /\ Held(f, from, n) /\ ~IsEOF(f) =>
          Holds(f.flash, f.address, all, from, n + len)
  BY <1>2, HoldsMore DEF Held, all
<1>11. CASE Len(all) < AutoFlushLen
  <2> DEFINE h == [f EXCEPT !.dirty = all]
  <2>1. h \in FileType /\ h.dirty = all /\ h.address = f.address /\ h.flash = f.flash
    BY <1>1, <1>3, Rewritten
  <2> HIDE DEF h
  <2>2. Write(f, data) = h
    BY <1>4, <1>11 DEF h
  <2>3. Grown(f, h, len)
    BY <1>2, <1>3, <1>11, <2>1 DEF Grown
  <2>4. Len(f.dirty) + len <= Usable /\ Held(f, from, n) => Held(h, from, n + len)
    BY <1>10, <2>1, Zenon DEF Held, IsEOF
  <2> QED
    BY <2>2, <2>3, <2>4, Zenon
<1>12. ASSUME NEW d \in Seq(Int), Len(d) <= Usable, Len(d) <= Len(f.dirty) + len,
              NEW h, h = [g EXCEPT !.dirty = d]
       PROVE  /\ Grown(f, h, len)
              /\ IsEOF(f) => IsEOF(h)
              /\ IsEOF(h) <=> IsEOF(g)
              /\ RestOf(d, all, w) /\ Holds(f.flash, f.address, all, from, n + len) => Held(h, from, n + len)
  <2> DEFINE e == [g EXCEPT !.dirty = d]
  <2>1. /\ e.dirty = d /\ e.address >= f.address /\ (IsEOF(e) <=> IsEOF(g))
        /\ IsEOF(f) => IsEOF(e)
        /\ \A a \in Cells : a < f.address => e.flash[a] = f.flash[a]
        /\ RestOf(d, all, w) /\ Holds(f.flash, f.address, all, from, n + len) => Held(e, from, n + len)
    BY <1>1, <1>2, <1>5, RestKeeps, Zenon
  <2> HIDE DEF e
  <2>2. h = e /\ Len(d) <= Usable /\ Len(d) <= Len(f.dirty) + len
    BY <1>12 DEF e
  <2> QED
    BY <2>1, <2>2, Zenon DEF Grown
<1>13. CASE ~(Len(all) < AutoFlushLen)
  <2>1. CASE Len(all) - w > Usable
    <3> DEFINE h == [g EXCEPT !.dirty = left]
    <3>1. Write(f, data) = h
      BY <1>4, <1>8, <1>13, <2>1, Zenon
    <3>2. Len(left) <= Usable /\ Len(left) <= Len(f.dirty) + len /\ ~(Len(f.dirty) + len <= Usable)
      <4> DEFINE a == Len(f.dirty)  b == Len(left)  c == Len(all)
      <4>1. /\ a \in Nat /\ b \in Nat /\ c = a + len /\ w \in Nat /\ Usable \in Nat
            /\ a <= Usable /\ b <= a /\ c - w > Usable
        BY <1>2, <1>3, <1>6, <1>7, <1>9, <2>1, Zenon
      <4> HIDE DEF a, b, c
      <4>2. b <= Usable /\ b <= a + len /\ ~(a + len <= Usable)
        BY <4>1
      <4> QED
        BY <4>2, Zenon DEF a, b
    <3>3. left \in Seq(Int) /\ h = [g EXCEPT !.dirty = left]
      BY <1>7
    <3> HIDE DEF h
    <3>4. Grown(f, h, len)
      BY <1>12, <3>2, <3>3, Zenon
    <3> QED
      BY <3>1, <3>2, <3>4, Zenon
  <2>2. CASE ~(Len(all) - w > Usable)
    <3> DEFINE h == [g EXCEPT !.dirty = kept]
    <3>1. Write(f, data) = h
      BY <1>4, <1>8, <1>13, <2>2, Zenon
    <3>2. Len(kept) <= Usable /\ Len(kept) <= Len(f.dirty) + len
      BY <1>2, <1>3, <1>6, <1>9, <2>2, SMTT(30)
    <3>3. kept \in Seq(Int) /\ h = [g EXCEPT !.dirty = kept]
      BY <1>9
    <3> HIDE DEF h
    <3>4. /\ Grown(f, h, len)
          /\ IsEOF(f) => IsEOF(h)
          /\ IsEOF(h) <=> IsEOF(g)
          /\ RestOf(kept, all, w) /\ Holds(f.flash, f.address, all, from, n + len) => Held(h, from, n + len)
      BY <1>12, <3>2, <3>3, Zenon
    <3>5. Len(f.dirty) + len <= Usable /\ Held(f, from, n) => Held(h, from, n + len)
      BY <1>5, <1>7, <1>10, <3>4, Zenon DEF Held
    <3> QED
      BY <3>1, <3>4, <3>5, Zenon
  <2> QED
    BY <2>1, <2>2
<1> QED
  BY <1>11, <1>13

(* The chip becomes ready.                                                  *)
LEMMA ReadyKeeps ==
  ASSUME NEW f, NEW n \in Nat, FileInOrder(f, n), Len(f.dirty) <= Usable, NEW from \in Nat,
         NEW m \in Nat
  PROVE  LET g == [f EXCEPT !.busy = FALSE]
         IN  Grown(f, g, 0) /\ (Held(f, from, m) => Held(g, from, m))
<1> DEFINE g == [f EXCEPT !.busy = FALSE]
<1>1. /\ g.dirty = f.dirty /\ g.address = f.address /\ g.flash = f.flash
      /\ f.dirty \in Seq(Int) /\ Len(f.dirty) \in Nat /\ f.address \in Nat
  BY DEF FileInOrder, FileType
<1> HIDE DEF g
<1>2. Grown(f, g, 0)
  BY <1>1 DEF Grown
<1>3. Held(f, from, m) => Held(g, from, m)
  BY <1>1, Zenon DEF Held, IsEOF
<1> QED
  BY <1>2, <1>3 DEF g

LEMMA SameKeeps ==
  ASSUME NEW f, NEW n \in Nat, FileInOrder(f, n), Len(f.dirty) <= Usable
  PROVE  Grown(f, f, 0)
BY DEF Grown, FileInOrder, FileType
================================================================================
