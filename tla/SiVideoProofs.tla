---------------------------- MODULE SiVideoProofs ---------------------------
(***************************************************************************)
(* The memory map and the shift register for every block size, every size  *)
(* of memory that holds the three blocks, and every byte written.  The     *)
(* display for every width, every height that is a multiple of 8, and      *)
(* every place of the video RAM: handle_vram puts each bit at a pixel of   *)
(* its own, and that pixel is where the hardware would show the bit.       *)
(***************************************************************************)
EXTENDS SiVideo, I8080AluProofs

\* The register holds the two bytes last written and the amount, masked.
Remembers == shift0 = older /\ shift1 = newer /\ shift_offset = amount % 8

\* The cells of the ROM, as the file left them.
RomCells == \A x \in 0 .. Block - 1 : memory[x] = (x + 1) % 256

Inv == TypeOK /\ RomCells /\ Remembers

LEMMA MaskFact ==
  ASSUME NEW n \in Byte
  PROVE  n % 8 \in 0 .. 7
  BY ByteBounds, Z3

(* Below the ROM's end and in the RAM read_byte reads the address itself;  *)
(* the mirror is one block above.                                          *)
LEMMA Decoder ==
  /\ \A x \in 0 .. 2 * Block - 1 : ReadCell(x) = x
  /\ \A x \in Block .. 2 * Block - 1 : ReadCell(x + Block) = x
  /\ \A x \in Address : ReadCell(x) = -1 \/ ReadCell(x) \in 0 .. MemorySize - 1
  /\ \A x \in Address : \A y \in Block .. 2 * Block - 1 :
       ReadCell(x) = y <=> x = y \/ x = y + Block
  /\ \A x \in Address : Writable(x) => x \in 0 .. MemorySize - 1 /\ x >= Block
  /\ \A x \in Block .. 2 * Block - 1 : Writable(x)
  BY MemoryMapAssumption DEF MemoryMapAssumption, ReadCell, Address, Writable

LEMMA Start == Init => Inv
<1> SUFFICES ASSUME Init PROVE Inv
  OBVIOUS
<1>1. 0 \in Byte
  BY ByteBounds
<1>2. memory \in [0 .. MemorySize - 1 -> Byte]
  BY <1>1, ByteFacts, MemoryMapAssumption DEF Init, MemoryMapAssumption
<1>3. RomCells
  BY MemoryMapAssumption DEF Init, RomCells, MemoryMapAssumption
<1>4. TypeOK
  BY <1>1, <1>2 DEF Init, TypeOK
<1>5. Remembers
  BY DEF Init, Remembers
<1>6. QED  BY <1>3, <1>4, <1>5 DEF Inv

LEMMA WriteKeeps ==
  ASSUME Inv, NEW address \in Address, NEW value \in Values, write_byte(address, value)
  PROVE  Inv'
<1>1. UNCHANGED shiftVars /\ value \in Byte
  BY MemoryMapAssumption DEF write_byte, MemoryMapAssumption
<1>2. memory' \in [0 .. MemorySize - 1 -> Byte]
  BY <1>1 DEF write_byte, Inv, TypeOK
<1>3. RomCells'
  <2> SUFFICES ASSUME NEW x \in 0 .. Block - 1 PROVE memory'[x] = memory[x]
    BY DEF Inv, RomCells
  <2>1. x \in 0 .. MemorySize - 1
    BY MemoryMapAssumption DEF MemoryMapAssumption
  <2>2. CASE Writable(address)
    <3>1. x # address
      BY <2>2, Decoder, MemoryMapAssumption DEF MemoryMapAssumption
    <3>2. QED  BY <2>1, <2>2, <3>1 DEF write_byte, Inv, TypeOK
  <2>3. CASE ~Writable(address)
    BY <2>3 DEF write_byte
  <2>4. QED  BY <2>2, <2>3
<1>4. QED
  BY <1>1, <1>2, <1>3 DEF Inv, TypeOK, Remembers, shiftVars

LEMMA OutKeeps ==
  ASSUME Inv, NEW value \in Byte, OutData(value) \/ OutOffset(value)
  PROVE  Inv'
<1>1. value % 8 \in 0 .. 7
  BY MaskFact
<1>2. memory' = memory
  BY DEF OutData, OutOffset
<1>3. TypeOK'
  BY <1>1, <1>2 DEF Inv, TypeOK, OutData, OutOffset
<1>4. Remembers'
  BY DEF Inv, Remembers, OutData, OutOffset
<1>5. QED  BY <1>2, <1>3, <1>4 DEF Inv, RomCells

LEMMA StepKeeps == Inv /\ [Next]_vars => Inv'
<1> SUFFICES ASSUME Inv, [Next]_vars PROVE Inv'
  OBVIOUS
<1>1. CASE UNCHANGED vars
  BY <1>1 DEF vars, shiftVars, Inv, TypeOK, RomCells, Remembers
<1>2. CASE \E address \in Address, value \in Values : write_byte(address, value)
  BY <1>2, WriteKeeps
<1>3. CASE (\E value \in Values : OutData(value)) \/ (\E value \in Amounts : OutOffset(value))
  BY <1>3, OutKeeps, MemoryMapAssumption DEF MemoryMapAssumption
<1>4. QED  BY <1>1, <1>2, <1>3 DEF Next

LEMMA Invariance == Spec => []Inv
  BY Start, StepKeeps, PTL DEF Spec

(* Every cell is a byte, every register its width.                         *)
THEOREM MachineTypes == Spec => []TypeOK
<1>1. Inv => TypeOK  BY DEF Inv
<1>2. QED  BY <1>1, Invariance, PTL

(* No write changes what the processor reads of the ROM.                   *)
THEOREM RomIsKept == Spec => []RomKept
<1>1. Inv => RomKept
  <2> SUFFICES ASSUME Inv, NEW x \in 0 .. Block - 1
               PROVE  read_byte(memory, x) = (x + 1) % 256
    BY DEF RomKept
  <2>1. x \in 0 .. 2 * Block - 1 /\ x # -1
    BY MemoryMapAssumption DEF MemoryMapAssumption
  <2>2. QED  BY <2>1, Decoder DEF read_byte, Inv, RomCells
<1>2. QED  BY <1>1, Invariance, PTL

\* What every read returns after a write in the RAM.
LEMMA ReadsAfter ==
  ASSUME Inv, NEW address \in Block .. 2 * Block - 1, NEW value \in Values,
         write_byte(address, value), NEW x \in Address
  PROVE  read_byte(memory', x) = IF x \in {address, address + Block} THEN value
                                 ELSE read_byte(memory, x)
<1>1. memory' = [memory EXCEPT ![address] = value]
  BY Decoder DEF write_byte
<1>2. address \in 0 .. MemorySize - 1 /\ address # -1
  BY MemoryMapAssumption DEF MemoryMapAssumption
<1>3. ReadCell(x) = -1 \/ ReadCell(x) \in 0 .. MemorySize - 1
  BY Decoder
<1>4. ReadCell(x) = address <=> x \in {address, address + Block}
  BY Decoder
<1>5. QED
  BY <1>1, <1>2, <1>3, <1>4 DEF read_byte, Inv, TypeOK

(* A write in the RAM changes the reads of its address and of its mirror,  *)
(* and no other.                                                           *)
THEOREM WritesAreLocal == Spec => WritesLand
<1> DEFINE Lands ==
      \A address \in Block .. 2 * Block - 1, value \in Values :
        write_byte(address, value) =>
          /\ read_byte(memory', address) = value
          /\ read_byte(memory', address + Block) = value
          /\ \/ memory' = memory
             \/ \A x \in Address \ {address, address + Block} :
                  read_byte(memory', x) = read_byte(memory, x)
<1>1. Inv => Lands
  <2> SUFFICES ASSUME Inv, NEW address \in Block .. 2 * Block - 1, NEW value \in Values,
                      write_byte(address, value)
               PROVE  /\ read_byte(memory', address) = value
                      /\ read_byte(memory', address + Block) = value
                      /\ \A x \in Address \ {address, address + Block} :
                           read_byte(memory', x) = read_byte(memory, x)
    OBVIOUS
  <2>1. address \in Address /\ address + Block \in Address
    BY MemoryMapAssumption DEF MemoryMapAssumption, Address
  <2>2. \A x \in Address :
          read_byte(memory', x) = IF x \in {address, address + Block} THEN value
                                  ELSE read_byte(memory, x)
    BY ReadsAfter
  <2>3. QED  BY <2>1, <2>2
<1>2. Inv /\ [Next]_vars => [Lands]_vars
  BY <1>1
<1>3. QED  BY <1>2, Invariance, PTL DEF Spec, WritesLand

(* The shift register, by the shift amounts one by one.                    *)
LEMMA Shifting ==
  ASSUME NEW n \in Byte, NEW o \in Byte, NEW k \in 0 .. 7
  PROVE  ((256 * n + o) \div Weight[9 - k]) % 256
           = (((256 * n + o) * Weight[1 + k]) \div 256) % 256
<1> DEFINE s == 256 * n + o
<1>0. s \in Int
  BY ByteBounds
<1> HIDE DEF s
<1>1. /\ s \div 256 = (s * 1) \div 256 /\ s \div 128 = (s * 2) \div 256
      /\ s \div 64 = (s * 4) \div 256 /\ s \div 32 = (s * 8) \div 256
      /\ s \div 16 = (s * 16) \div 256 /\ s \div 8 = (s * 32) \div 256
      /\ s \div 4 = (s * 64) \div 256 /\ s \div 2 = (s * 128) \div 256
  BY <1>0, Z3
<1>2. s \div Weight[9 - k] = (s * Weight[1 + k]) \div 256
  <2>1. k \in {0, 1, 2, 3, 4, 5, 6, 7}
    OBVIOUS
  <2>2. /\ Weight[1] = 1 /\ Weight[2] = 2 /\ Weight[3] = 4 /\ Weight[4] = 8
        /\ Weight[5] = 16 /\ Weight[6] = 32 /\ Weight[7] = 64 /\ Weight[8] = 128
        /\ Weight[9] = 256
    BY DEF Weight
  <2>3. QED  BY <1>1, <2>1, <2>2
<1>3. QED  BY <1>2 DEF s

(* Port 3 returns the window of the last two bytes that port 2 selects.    *)
THEOREM Shifter == Spec => []ShifterShifts
<1>1. Inv => ShifterShifts
  BY Shifting DEF Inv, TypeOK, Remembers, ShifterShifts, shifted
<1>2. QED  BY <1>1, Invariance, PTL

-----------------------------------------------------------------------------
(* Products and divisions by a variable.                                   *)
LEMMA Product ==
  ASSUME NEW a \in Nat, NEW b \in Nat
  PROVE  a * b \in Nat
  BY SMT

LEMMA Monotone ==
  ASSUME NEW a \in Int, NEW b \in Int, NEW d \in Nat, a <= b
  PROVE  a * d <= b * d
<1>1. (b - a) * d \in Nat
  BY Product, b - a \in Nat
<1>2. (b - a) * d = b * d - a * d
  BY Z3
<1>3. QED  BY <1>1, <1>2, Z3

LEMMA Division ==
  ASSUME NEW n \in Nat, NEW d \in Nat \ {0}
  PROVE  /\ n \div d \in Nat /\ n % d \in 0 .. d - 1
         /\ n = (n \div d) * d + (n % d)
<1>1. n % d \in 0 .. d - 1
  BY Z3
<1>2. n = (n \div d) * d + (n % d)
  BY Z3
<1>3. n \div d \in Int
  BY Z3
<1>4. n \div d >= 0
  BY Z3
<1>5. QED  BY <1>1, <1>2, <1>3, <1>4

(* A number has one quotient and one remainder.                            *)
LEMMA Unique ==
  ASSUME NEW d \in Nat \ {0}, NEW a \in Int, NEW b \in Int,
         NEW r \in 0 .. d - 1, NEW s \in 0 .. d - 1, a * d + r = b * d + s
  PROVE  a = b /\ r = s
<1>1. ASSUME NEW x \in Int, NEW y \in Int, x < y
      PROVE  x * d + d <= y * d
  <2>1. (x + 1) * d <= y * d
    BY <1>1, Monotone
  <2>2. (x + 1) * d = x * d + d
    BY Z3
  <2>3. x * d \in Int /\ y * d \in Int
    BY Z3
  <2>4. QED  BY <2>1, <2>2, <2>3, Z3
<1>2. a * d \in Int /\ b * d \in Int
  BY Z3
<1>3. ~(a < b) /\ ~(b < a)
  BY <1>1, <1>2, Z3
<1>4. a = b
  BY <1>3, Z3
<1>5. QED  BY <1>2, <1>4, Z3

(* The same by 8, and what is left of a multiple of 8 by another.          *)
LEMMA Octets ==
  ASSUME NEW i \in Nat, NEW k \in 0 .. 7, NEW n \in Nat
  PROVE  8 * i + k = n <=> i = n \div 8 /\ k = n % 8
  BY Z3

LEMMA Multiple ==
  ASSUME NEW i \in Nat, NEW t \in Nat, NEW y \in Nat, 8 * i = 8 * t + y
  PROVE  y % 8 = 0
<1>1. y = 8 * (i - t)
  BY Z3
<1>2. QED  BY <1>1, Z3

-----------------------------------------------------------------------------
(* The bytes of a column of the screen.                                    *)
Bytes == SI_SCREEN_HEIGHT \div 8

LEMMA Screen ==
  /\ SI_SCREEN_WIDTH \in Nat \ {0} /\ Bytes \in Nat \ {0}
  /\ SI_SCREEN_HEIGHT = 8 * Bytes /\ SI_SCREEN_BITS = SI_SCREEN_WIDTH * Bytes
<1>1. SI_SCREEN_WIDTH \in Nat \ {0} /\ SI_SCREEN_BITS = SI_SCREEN_WIDTH * Bytes
  BY VideoAssumption DEF VideoAssumption, Bytes
<1>2. SI_SCREEN_HEIGHT \in Nat \ {0} /\ SI_SCREEN_HEIGHT % 8 = 0
  BY VideoAssumption DEF VideoAssumption
<1>3. Bytes \in Nat \ {0} /\ SI_SCREEN_HEIGHT = 8 * Bytes
  BY <1>2, Z3 DEF Bytes
<1>4. QED  BY <1>1, <1>3

(* Column and height are the quotient and the remainder of the bit's       *)
(* number by the height of the screen, and lie on the screen.              *)
LEMMA Placed ==
  ASSUME NEW i \in VideoByte, NEW k \in 0 .. 7
  PROVE  /\ column(i) \in 0 .. SI_SCREEN_WIDTH - 1
         /\ xoff(i) + k \in 0 .. SI_SCREEN_HEIGHT - 1
         /\ 8 * i + k = column(i) * SI_SCREEN_HEIGHT + (xoff(i) + k)
<1> DEFINE H == SI_SCREEN_HEIGHT
           W == SI_SCREEN_WIDTH
<1>1. i \in Nat /\ i < W * Bytes /\ H \in Nat \ {0} /\ W \in Nat \ {0}
  BY Screen DEF VideoByte
<1>2. /\ column(i) \in Nat /\ xoff(i) \in 0 .. H - 1
      /\ 8 * i = column(i) * H + xoff(i)
  BY <1>1, Division, 8 * i \in Nat DEF column, xoff
<1>3. column(i) * H = 8 * (column(i) * Bytes) /\ column(i) * Bytes \in Nat
  BY <1>2, Screen, Product, Z3
<1>4. xoff(i) % 8 = 0
  BY <1>1, <1>2, <1>3, Multiple
<1>5. xoff(i) + k \in 0 .. H - 1
  BY <1>2, <1>4, Screen, Z3
<1>6. column(i) < W
  <2>1. SUFFICES ASSUME W <= column(i) PROVE FALSE
    BY <1>1, <1>2
  <2>2. W * Bytes <= column(i) * Bytes
    BY <1>1, <1>2, <2>1, Monotone, Screen
  <2>3. W * Bytes \in Nat
    BY <1>1, Screen, Product
  <2>4. QED  BY <1>1, <1>2, <1>3, <2>2, <2>3, Z3
<1>7. QED
  <2>1. column(i) * H \in Int
    BY <1>3, Z3
  <2>2. QED  BY <1>1, <1>2, <1>5, <1>6, <2>1, Z3

(* The byte and the bit that belong at a pixel of the screen.              *)
Height(cy) == SI_SCREEN_HEIGHT - 1 - cy
Number(cx, cy) == cx * SI_SCREEN_HEIGHT + Height(cy)

LEMMA Belongs ==
  ASSUME NEW cx \in 0 .. SI_SCREEN_WIDTH - 1, NEW cy \in 0 .. SI_SCREEN_HEIGHT - 1
  PROVE  /\ Number(cx, cy) \in Nat
         /\ Number(cx, cy) \div 8 \in VideoByte
         /\ Number(cx, cy) % 8 \in 0 .. 7
         /\ Height(cy) \in 0 .. SI_SCREEN_HEIGHT - 1
<1> DEFINE H == SI_SCREEN_HEIGHT
           W == SI_SCREEN_WIDTH
           n == Number(cx, cy)
<1>1. H \in Nat \ {0} /\ W \in Nat \ {0} /\ Bytes \in Nat \ {0} /\ H = 8 * Bytes
  BY Screen
<1>2. Height(cy) \in 0 .. H - 1 /\ cx * H \in Nat
  BY <1>1, Product DEF Height
<1>3. n \in Nat
  BY <1>2 DEF Number
<1>4. (cx + 1) * Bytes <= W * Bytes
  BY <1>1, Monotone
<1>5. (cx + 1) * Bytes = cx * Bytes + Bytes /\ cx * H = 8 * (cx * Bytes)
  BY <1>1, Z3
<1>6. cx * Bytes \in Nat /\ W * Bytes \in Nat
  BY <1>1, Product
<1>7. n < 8 * SI_SCREEN_BITS /\ SI_SCREEN_BITS \in Nat
  <2> DEFINE u == cx * Bytes
             v == W * Bytes
  <2>1. u + Bytes <= v /\ n = 8 * u + Height(cy) /\ SI_SCREEN_BITS = v
        /\ u \in Nat /\ v \in Nat
    BY <1>4, <1>5, <1>6, Screen DEF Number
  <2> HIDE DEF u, v, n
  <2>2. QED  BY <1>1, <1>2, <2>1, Z3
<1> HIDE DEF n
<1>8. n \div 8 \in 0 .. SI_SCREEN_BITS - 1 /\ n % 8 \in 0 .. 7
  BY <1>3, <1>7, Z3
<1>9. QED  BY <1>2, <1>3, <1>8 DEF VideoByte, n

(* handle_vram puts that bit at that pixel, and no other bit.              *)
LEMMA OneWriter ==
  ASSUME NEW cx \in 0 .. SI_SCREEN_WIDTH - 1, NEW cy \in 0 .. SI_SCREEN_HEIGHT - 1,
         NEW i \in VideoByte, NEW k \in 0 .. 7
  PROVE  off(i, k) = cy * SI_SCREEN_WIDTH + cx
           <=> i = Number(cx, cy) \div 8 /\ k = Number(cx, cy) % 8
<1> DEFINE H == SI_SCREEN_HEIGHT
           W == SI_SCREEN_WIDTH
           n == Number(cx, cy)
<1>1. /\ column(i) \in 0 .. W - 1 /\ xoff(i) + k \in 0 .. H - 1
      /\ 8 * i + k = column(i) * H + (xoff(i) + k)
  BY Placed
<1>2. n \in Nat /\ n = cx * H + Height(cy) /\ Height(cy) \in 0 .. H - 1
  BY Belongs DEF Number
<1>3. W \in Nat \ {0} /\ H \in Nat \ {0} /\ i \in Nat
  BY Screen DEF VideoByte
<1>4. row(i, k) \in 0 .. H - 1 /\ row(i, k) = Height(xoff(i) + k)
  <2> DEFINE x == xoff(i) + k
  <2>1. x \in 0 .. H - 1 /\ row(i, k) = H - x - 1
    BY <1>1 DEF row
  <2> HIDE DEF x
  <2>2. row(i, k) \in 0 .. H - 1 /\ row(i, k) = H - 1 - x
    BY <1>3, <2>1
  <2>3. QED  BY <2>2 DEF Height, x
<1>5. off(i, k) = cy * W + cx <=> row(i, k) = cy /\ column(i) = cx
  <2>1. off(i, k) = row(i, k) * W + column(i)
    BY DEF off
  <2>2. off(i, k) = cy * W + cx => row(i, k) = cy /\ column(i) = cx
    <3> DEFINE r == row(i, k)
               q == column(i)
    <3>1. r \in Int /\ q \in 0 .. W - 1 /\ cy \in Int
      BY <1>1, <1>3, <1>4
    <3> HIDE DEF r, q
    <3>2. r * W + q = cy * W + cx => r = cy /\ q = cx
      BY <1>3, <3>1, Unique
    <3>3. QED  BY <2>1, <3>2 DEF r, q
  <2>3. QED  BY <2>1, <2>2
<1>6. row(i, k) = cy <=> xoff(i) + k = Height(cy)
  <2> DEFINE x == xoff(i) + k
  <2>1. x \in 0 .. H - 1 /\ row(i, k) = H - 1 - x
    BY <1>1, <1>4 DEF Height
  <2> HIDE DEF x
  <2>2. row(i, k) = cy <=> x = Height(cy)
    BY <1>3, <2>1 DEF Height
  <2>3. QED  BY <2>2 DEF x
<1>7. 8 * i + k = n <=> column(i) = cx /\ xoff(i) + k = Height(cy)
  <2> DEFINE q == column(i)
             x == xoff(i) + k
             y == Height(cy)
  <2>1. /\ 8 * i + k = q * H + x /\ n = cx * H + y
        /\ q \in Int /\ cx \in Int /\ x \in 0 .. H - 1 /\ y \in 0 .. H - 1
    BY <1>1, <1>2, <1>3
  <2> HIDE DEF q, x, y, n
  <2>2. q * H + x = cx * H + y <=> q = cx /\ x = y
    BY <1>3, <2>1, Unique
  <2>3. 8 * i + k = n <=> q = cx /\ x = y
    BY <2>1, <2>2
  <2>4. QED  BY <2>3 DEF q, x, y
<1> HIDE DEF n
<1>8. 8 * i + k = n <=> i = n \div 8 /\ k = n % 8
  <2>1. i \in Nat /\ n \in Nat
    BY <1>2, <1>3
  <2>2. QED  BY <2>1, Octets
<1>9. QED  BY <1>5, <1>6, <1>7, <1>8 DEF n

(* What handle_vram leaves in the buffer at a pixel.                       *)
LEMMA Drawn ==
  ASSUME NEW cx \in 0 .. SI_SCREEN_WIDTH - 1, NEW cy \in 0 .. SI_SCREEN_HEIGHT - 1
  PROVE  LET p == cy * SI_SCREEN_WIDTH + cx
             i == Number(cx, cy) \div 8
             k == Number(cx, cy) % 8
         IN  /\ p \in Pixel
             /\ redrawn[p] = color(memory[SI_VRAM_OFFSET + i], i, k)
<1> DEFINE p == cy * SI_SCREEN_WIDTH + cx
           i == Number(cx, cy) \div 8
           k == Number(cx, cy) % 8
           B == {b \in VideoByte \X (0 .. 7) : off(b[1], b[2]) = p}
<1>1. i \in VideoByte /\ k \in 0 .. 7
  BY Belongs
<1>2. \A j \in VideoByte, l \in 0 .. 7 : off(j, l) = p <=> j = i /\ l = k
  BY OneWriter
<1>3. p \in Pixel
  <2> DEFINE H == SI_SCREEN_HEIGHT
             W == SI_SCREEN_WIDTH
  <2>1. H \in Nat \ {0} /\ W \in Nat \ {0}
    BY VideoAssumption DEF VideoAssumption
  <2>2. (cy + 1) * W <= H * W /\ (cy + 1) * W = cy * W + W /\ cy * W \in Nat
    BY <2>1, Monotone, Product, Z3
  <2>3. H * W = W * H /\ W * H \in Nat
    BY <2>1, Product, Z3
  <2>4. QED  BY <2>1, <2>2, <2>3 DEF Pixel
<1> HIDE DEF i, k, p
<1>4. B = {<<i, k>>}
  BY <1>1, <1>2
<1>5. writer[p] = <<i, k>>
  <2>1. writer[p] = IF B = {} THEN <<>>
                    ELSE CHOOSE b \in B : \A d \in B : 8 * d[1] + d[2] <= 8 * b[1] + b[2]
    BY <1>3 DEF writer
  <2>2. 8 * i + k \in Int
    BY <1>1, Screen DEF VideoByte
  <2>3. \A d \in B : 8 * d[1] + d[2] <= 8 * <<i, k>>[1] + <<i, k>>[2]
    BY <1>4, <2>2
  <2>4. QED  BY <1>4, <2>1, <2>3
<1>6. writer[p] # <<>> /\ writer[p][1] = i /\ writer[p][2] = k
  BY <1>5
<1>7. redrawn[p] = color(memory[SI_VRAM_OFFSET + i], i, k)
  <2>1. redrawn[p] =
          IF writer[p] = <<>> THEN video_buffer[p]
          ELSE color(memory[SI_VRAM_OFFSET + writer[p][1]], writer[p][1], writer[p][2])
    BY <1>3 DEF redrawn
  <2>2. QED  BY <1>6, <2>1
<1>8. QED  BY <1>3, <1>7 DEF i, k, p

(* Every colour of a set bit can be told from that of a clear one.         *)
LEMMA SetBits ==
  ASSUME NEW cb, NEW i, NEW k
  PROVE  color(cb, i, k) # BLACK <=> Bit(cb, k)
  BY DEF color, set_pixel, BLACK, WHITE, GREEN, RED

(* memcpy into a texture whose rows have width pixels.                     *)
LEMMA Copied ==
  ASSUME NEW buffer, NEW width \in Nat, NEW cx \in 0 .. SI_SCREEN_WIDTH - 1,
         NEW cy \in 0 .. SI_SCREEN_HEIGHT - 1
  PROVE  copied(buffer, width)[cy * SI_SCREEN_WIDTH + cx]
           = LET from == cy * width + cx
             IN  IF from \in Pixel THEN buffer[from] ELSE OUTSIDE
<1> DEFINE W == SI_SCREEN_WIDTH
           p == cy * W + cx
<1>1. p \in Pixel
  BY Drawn
<1>2. W \in Nat \ {0} /\ cy \in Nat /\ p \in Nat
  BY <1>1, Screen, Product
<1>3. p \div W \in Nat /\ p % W \in 0 .. W - 1 /\ p = (p \div W) * W + (p % W)
  BY <1>2, Division
<1>4. p \div W = cy /\ p % W = cx
  <2> DEFINE q == p \div W
             r == p % W
  <2>1. q \in Int /\ r \in 0 .. W - 1 /\ q * W + r = cy * W + cx
    BY <1>3
  <2> HIDE DEF q, r
  <2>2. q = cy /\ r = cx
    BY <1>2, <2>1, Unique
  <2>3. QED  BY <2>2 DEF q, r
<1> HIDE DEF p
<1>5. copied(buffer, width)[p] = LET from == (p \div W) * width + (p % W)
                                  IN  IF from \in Pixel THEN buffer[from] ELSE OUTSIDE
  BY <1>1 DEF copied
<1>6. QED  BY <1>4, <1>5 DEF p

(* A place of the buffer is a pixel of the screen.                         *)
LEMMA OnScreen ==
  ASSUME NEW p \in Pixel
  PROVE  /\ p % SI_SCREEN_WIDTH \in 0 .. SI_SCREEN_WIDTH - 1
         /\ p \div SI_SCREEN_WIDTH \in 0 .. SI_SCREEN_HEIGHT - 1
         /\ p = (p \div SI_SCREEN_WIDTH) * SI_SCREEN_WIDTH + (p % SI_SCREEN_WIDTH)
<1> DEFINE W == SI_SCREEN_WIDTH
           H == SI_SCREEN_HEIGHT
           q == p \div W
           r == p % W
<1>1. W \in Nat \ {0} /\ H \in Nat \ {0}
  BY VideoAssumption DEF VideoAssumption
<1>2. W * H \in Nat /\ H * W = W * H
  BY <1>1, Product, Z3
<1>3. p \in Nat /\ p < H * W
  BY <1>2 DEF Pixel
<1>4. q \in Nat /\ r \in 0 .. W - 1 /\ p = q * W + r
  BY <1>1, <1>3, Division
<1> HIDE DEF q, r
<1>5. q < H
  <2>1. SUFFICES ASSUME H <= q PROVE FALSE
    BY <1>1, <1>4
  <2>2. H * W <= q * W
    BY <1>1, <1>4, <2>1, Monotone
  <2>3. q * W \in Nat
    BY <1>1, <1>4, Product
  <2>4. QED  BY <1>2, <1>3, <1>4, <2>2, <2>3
<1>6. QED  BY <1>1, <1>4, <1>5 DEF q, r

\* Lit, of any frame.
LitIn(f, cx, cy) == Bit(f[Number(cx, cy) \div 8], Number(cx, cy) % 8)

(* What the two loops leave at a pixel is lit as the hardware's is.        *)
LEMMA DrawnLit ==
  ASSUME NEW cx \in 0 .. SI_SCREEN_WIDTH - 1, NEW cy \in 0 .. SI_SCREEN_HEIGHT - 1,
         frame' = [i \in VideoByte |-> memory[SI_VRAM_OFFSET + i]]
  PROVE  (redrawn[cy * SI_SCREEN_WIDTH + cx] # BLACK) = LitIn(frame', cx, cy)
<1> DEFINE p == cy * SI_SCREEN_WIDTH + cx
           i == Number(cx, cy) \div 8
           k == Number(cx, cy) % 8
<1>1. redrawn[p] = color(memory[SI_VRAM_OFFSET + i], i, k)
  BY Drawn
<1>2. frame'[i] = memory[SI_VRAM_OFFSET + i]
  BY Belongs
<1>3. LitIn(frame', cx, cy) = Bit(frame'[i], k)
  BY DEF LitIn
<1> HIDE DEF p, i, k
<1>4. redrawn[p] # BLACK <=> Bit(frame'[i], k)
  BY <1>1, <1>2, SetBits
<1>5. (redrawn[p] # BLACK) = Bit(frame'[i], k)
  BY <1>4 DEF Bit
<1>6. QED  BY <1>3, <1>5 DEF p

-----------------------------------------------------------------------------
(* The display only reads the memory: whatever is proved of the machine    *)
(* holds of the machine with its display.                                  *)
THEOREM DisplayOnlyReads == VideoSpec => Spec
<1>1. VideoInit => Init
  BY DEF VideoInit
<1>2. [VideoNext]_allVars => [Next]_vars
  BY DEF VideoNext, handle_vram, allVars
<1>3. QED  BY <1>1, <1>2, PTL DEF VideoSpec, Spec

LEMMA DrawingShows ==
  ASSUME handle_vram, PictureIsMemory
  PROVE  PictureIsMemory'
<1>1. CASE UNCHANGED <<texture, frame, pitch>>
  BY <1>1 DEF PictureIsMemory, Lit
<1>2. CASE /\ pitch' \in Pitches /\ texture' = copied(video_buffer', pitch')
           /\ frame' = [i \in VideoByte |-> memory[SI_VRAM_OFFSET + i]]
  <2> SUFFICES ASSUME NEW cx \in 0 .. SI_SCREEN_WIDTH - 1,
                      NEW cy \in 0 .. SI_SCREEN_HEIGHT - 1
               PROVE  LET p == cy * SI_SCREEN_WIDTH + cx
                          from == cy * pitch' + cx
                      IN  /\ pitch' = SI_SCREEN_WIDTH =>
                               (texture'[p] # BLACK) = LitIn(frame', cx, cy)
                          /\ pitch' > SI_SCREEN_WIDTH =>
                               IF from \in Pixel
                               THEN (texture'[p] # BLACK)
                                      = LitIn(frame', from % SI_SCREEN_WIDTH,
                                              from \div SI_SCREEN_WIDTH)
                               ELSE texture'[p] = OUTSIDE
    BY DEF PictureIsMemory, Lit, LitIn, Number, Height
  <2> DEFINE p == cy * SI_SCREEN_WIDTH + cx
             from == cy * pitch' + cx
  <2>1. texture'[p] = IF from \in Pixel THEN redrawn[from] ELSE OUTSIDE
    <3>1. pitch' \in Nat /\ texture' = copied(redrawn, pitch')
      BY <1>2, VideoAssumption DEF VideoAssumption, handle_vram
    <3>2. QED  BY <3>1, Copied
  <2>2. p \in Pixel
    BY Drawn
  <2>3. pitch' = SI_SCREEN_WIDTH => (texture'[p] # BLACK) = LitIn(frame', cx, cy)
    <3>1. (redrawn[p] # BLACK) = LitIn(frame', cx, cy)
      BY <1>2, DrawnLit
    <3>2. QED  BY <2>1, <2>2, <3>1
  <2>4. from \in Pixel =>
          (redrawn[from] # BLACK) = LitIn(frame', from % SI_SCREEN_WIDTH, from \div SI_SCREEN_WIDTH)
    <3> HIDE DEF from
    <3>1. SUFFICES ASSUME from \in Pixel
                   PROVE  (redrawn[from] # BLACK)
                            = LitIn(frame', from % SI_SCREEN_WIDTH, from \div SI_SCREEN_WIDTH)
      OBVIOUS
    <3> DEFINE sx == from % SI_SCREEN_WIDTH
               sy == from \div SI_SCREEN_WIDTH
    <3>2. /\ sx \in 0 .. SI_SCREEN_WIDTH - 1 /\ sy \in 0 .. SI_SCREEN_HEIGHT - 1
          /\ from = sy * SI_SCREEN_WIDTH + sx
      BY <3>1, OnScreen
    <3> HIDE DEF sx, sy
    <3>3. (redrawn[from] # BLACK) = LitIn(frame', sx, sy)
      BY <1>2, <3>2, DrawnLit
    <3>4. QED  BY <3>3 DEF sx, sy
  <2> HIDE DEF p, from
  <2>5. pitch' > SI_SCREEN_WIDTH =>
          IF from \in Pixel
          THEN (texture'[p] # BLACK)
                 = LitIn(frame', from % SI_SCREEN_WIDTH, from \div SI_SCREEN_WIDTH)
          ELSE texture'[p] = OUTSIDE
    BY <2>1, <2>4
  <2>6. QED  BY <2>3, <2>5 DEF p, from
<1>3. QED  BY <1>1, <1>2 DEF handle_vram

(* On a screen of any size and whatever pitches SDL may have, the picture  *)
(* SDL was given last shows every bit of the video RAM at its own pixel,   *)
(* all as they were at one moment, if the texture's rows were then as long *)
(* as the screen's; and if they were longer, what the picture shows        *)
(* instead, pixel by pixel, as far as the buffer goes.                     *)
THEOREM PictureShown == VideoSpec => []PictureIsMemory
<1>1. VideoInit => PictureIsMemory
  BY DEF VideoInit, PictureIsMemory
<1>2. PictureIsMemory /\ [VideoNext]_allVars => PictureIsMemory'
  <2> SUFFICES ASSUME PictureIsMemory, [VideoNext]_allVars PROVE PictureIsMemory'
    OBVIOUS
  <2>1. CASE handle_vram
    BY <2>1, DrawingShows
  <2>2. CASE ~handle_vram
    BY <2>2 DEF VideoNext, allVars, videoVars, PictureIsMemory, Lit
  <2>3. QED  BY <2>1, <2>2
<1>3. QED  BY <1>1, <1>2, PTL DEF VideoSpec
=============================================================================
