--------------------------------- MODULE Cpu ---------------------------------
(***************************************************************************)
(* The KR580VM80A (i8080.cpp) with the memory it sees (memory.h, hal.cpp): *)
(* all 256 opcodes, their flags and times, and the Kvaz and Barkar paging  *)
(* through which every access goes.                                        *)
(*                                                                         *)
(* The opcodes are decoded by their octal digits, 8*8*q + 8*y + z, as the  *)
(* chip does it, where the code has a switch of 256 cases.  The program is *)
(* arbitrary: any opcode may stand at PC.  A state is one record, because  *)
(* an instruction is a function of it.                                     *)
(***************************************************************************)
EXTENDS InstructionTimes, FiniteSets

CONSTANTS
  Values,    \* bytes that A and an operand may have at first
  Controls,  \* bytes that port 0x10 may have been given
  BootSizes, \* sizes of the boot ROM, 0 when it is detached
  Stacks,    \* where SP may point at first
  Inputs,    \* bytes a port may return
  MaxSteps   \* instructions of a behaviour

Byte == 0..(2^8 - 1)
Word == 0..(2^16 - 1)

VARIABLES cpu, steps

(* What the constants are: bytes, sizes of a ROM and places in 64 KB. *)
ValuesFit == /\ Values \subseteq Byte /\ Controls \subseteq Byte /\ Inputs \subseteq Byte
             /\ BootSizes \subseteq Nat /\ Stacks \subseteq Word

Lo(w) == w % 256
Hi(w) == (w \div 256) % 256
Bit(x, i) == (x \div 2^i) % 2
Truth(b) == IF b THEN 1 ELSE 0

\* A byte as the set of its ones, and back.
Ones(x) == {i \in 0..7 : Bit(x, i) = 1}
Octet(S) == Truth(0 \in S) + 2 * Truth(1 \in S) + 4 * Truth(2 \in S) + 8 * Truth(3 \in S)
            + 16 * Truth(4 \in S) + 32 * Truth(5 \in S) + 64 * Truth(6 \in S)
            + 128 * Truth(7 \in S)

-----------------------------------------------------------------------------
(* Memory *)

\* The windows of the screen page: the bit of port 0x10, and the addresses.
Windows == {[bit |-> 5, at |-> 40960..57343],
            [bit |-> 6, at |-> 32768..40959],
            [bit |-> 7, at |-> 57344..65535]}

\* What control_write() makes of the byte given to port 0x10.
Paging(w8) == [stack |-> Bit(w8, 4) = 1, map |-> {i \in 5..7 : Bit(w8, i) = 1},
               page_map |-> (w8 % 4) + 1, page_stack |-> ((w8 \div 4) % 4) + 1]

\* bigram_select(): the address in the 64 KB of the machine and the four pages.
Bank(pg, addr, stackrq) ==
  LET a == addr % 65536 IN
  IF pg.stack /\ stackrq THEN a + 65536 * pg.page_stack
  ELSE IF \E w \in Windows : w.bit \in pg.map /\ a \in w.at
       THEN a + 65536 * pg.page_map
       ELSE a

\* tobank(): the four screen planes are interleaved byte by byte.
ToBank(a) == 32768 * (a \div 32768) + ((4 * a) % 32768) + ((a \div 8192) % 4)

BootByte == 118

Read(x, addr, stackrq) ==
  LET big == Bank(x.paging, addr, stackrq)
      at  == ToBank(big) IN
  IF big < x.boot THEN BootByte
  ELSE IF at \in DOMAIN x.bytes THEN x.bytes[at] ELSE 0

\* A write goes under the boot ROM.
Write(x, addr, value, stackrq) ==
  LET at == ToBank(Bank(x.paging, addr, stackrq)) IN
  [x EXCEPT !.bytes = [a \in DOMAIN @ \cup {at} |-> IF a = at THEN value ELSE @[a]]]

ReadWord(x, addr, stackrq) == Read(x, addr, stackrq) + 256 * Read(x, addr + 1, stackrq)
WriteWord(x, addr, w, stackrq) ==
  Write(Write(x, addr, Lo(w), stackrq), addr + 1, Hi(w), stackrq)

-----------------------------------------------------------------------------
(* Registers B C D E H L and A by their number 0..5 and 7; 6 is the byte at *)
(* HL.  Register pairs BC, DE, HL, SP by theirs.                            *)

HL == 2

\* Slip: SP counts past its sixteen bits.
SetPairUnwrapped(x, p, w) ==
  IF p = 3 THEN [x EXCEPT !.sp = w]
  ELSE [x EXCEPT !.r[2 * p] = Hi(w), !.r[2 * p + 1] = Lo(w)]

Pair(x, p) == IF p = 3 THEN x.sp ELSE 256 * x.r[2 * p] + x.r[2 * p + 1]
SetPair(x, p, w) ==
  IF p = 3 THEN [x EXCEPT !.sp = w % 65536]
  ELSE [x EXCEPT !.r[2 * p] = Hi(w), !.r[2 * p + 1] = Lo(w)]

Get(x, i) == IF i = 6 THEN Read(x, Pair(x, HL), FALSE) ELSE x.r[i]
Put(x, i, v) == IF i = 6 THEN Write(x, Pair(x, HL), v, FALSE) ELSE [x EXCEPT !.r[i] = v]
A(x) == x.r[7]

Skip(x, n) == [x EXCEPT !.pc = (@ + n) % 65536]
Data8(x) == Read(x, x.pc, FALSE)
Data16(x) == ReadWord(x, x.pc, FALSE)
Took(x, cyc, v) == [x EXCEPT !.cyc = cyc, !.v = v]

Push(x, w) ==
  LET sp == (x.sp - 2) % 65536 IN WriteWord([x EXCEPT !.sp = sp], sp, w, TRUE)
Popped(x) == ReadWord(x, x.sp, TRUE)
Drop(x) == [x EXCEPT !.sp = (@ + 2) % 65536]
Ret(x) == [Drop(x) EXCEPT !.pc = Popped(x)]

\* CALL pushes the return address before it reads the target.
Call(x) ==
  LET y == Push(x, (x.pc + 2) % 65536) IN [y EXCEPT !.pc = Data16(y)]

-----------------------------------------------------------------------------
(* Flags and arithmetic *)

Parity(x) == Truth(Cardinality(Ones(x)) % 2 = 0)

\* S, Z and P of a result, with the half carry; the carry is left alone.
Flagged(x, res, h) ==
  [x EXCEPT !.s = Bit(res, 7), !.z = Truth(res = 0), !.p = Parity(res), !.h = h]

HalfCarryTable == <<0, 0, 1, 0, 1, 0, 1, 1>>
SubHalfCarryTable == <<0, 1, 1, 1, 0, 0, 0, 1>>

\* Slip: the table is read with the sum in place of the operand.
IndexSwapped(a, val, res) == 4 * Bit(a, 3) + Bit(val, 3) + 2 * Bit(res, 3)

\* The index into these tables: bit 3 of A, of the operand and of the result.
Index(a, val, res) == 4 * Bit(a, 3) + 2 * Bit(val, 3) + Bit(res, 3)

Sum(x, val, c) ==
  LET w == A(x) + val + c
      h == HalfCarryTable[Index(A(x), val, w) + 1] IN
  [Flagged(Put(x, 7, w % 256), w % 256, h) EXCEPT !.c = Bit(w, 8)]

\* CMP: the flags of a subtraction, A as it was.
Compare(x, val, c) ==
  LET w == (A(x) - val - c) % 65536
      h == 1 - SubHalfCarryTable[Index(A(x), val, w) + 1] IN
  [Flagged(x, w % 256, h) EXCEPT !.c = Bit(w, 8)]
Difference(x, val, c) == Put(Compare(x, val, c), 7, (A(x) - val - c) % 256)

Logic(x, res, h) == [Flagged(Put(x, 7, res), res, h) EXCEPT !.c = 0]

\* The eight operations of the accumulator by their octal digit.
Alu(x, k, val) ==
  LET a == Ones(A(x))
      b == Ones(val) IN
  CASE k = 0 -> Sum(x, val, 0)
    [] k = 1 -> Sum(x, val, x.c)
    [] k = 2 -> Difference(x, val, 0)
    [] k = 3 -> Difference(x, val, x.c)
    [] k = 4 -> Logic(x, Octet(a \cap b), Truth(Bit(A(x), 3) + Bit(val, 3) > 0))
    [] k = 5 -> Logic(x, Octet((a \cup b) \ (a \cap b)), 0)
    [] k = 6 -> Logic(x, Octet(a \cup b), 0)
    [] k = 7 -> Compare(x, val, 0)

Inr(x, i) ==
  LET v == (Get(x, i) + 1) % 256 IN Flagged(Put(x, i, v), v, Truth(v % 16 = 0))
Dcr(x, i) ==
  LET v == (Get(x, i) - 1) % 256 IN Flagged(Put(x, i, v), v, Truth(v % 16 # 15))

Dad(x, w) ==
  LET sum == Pair(x, HL) + w IN
  [SetPair(x, HL, sum % 65536) EXCEPT !.c = sum \div 65536]

\* Slip: the low digit's own carry into the high one is forgotten.
DaaUncarried(x) ==
  LET low  == x.h = 1 \/ A(x) % 16 > 9
      high == x.c = 1 \/ A(x) \div 16 > 9 IN
  [Sum(x, (IF low THEN 6 ELSE 0) + (IF high THEN 96 ELSE 0), 0)
     EXCEPT !.c = Truth(high)]

Daa(x) ==
  LET low  == x.h = 1 \/ A(x) % 16 > 9
      high == \/ x.c = 1
              \/ A(x) \div 16 > 9
              \/ A(x) \div 16 >= 9 /\ A(x) % 16 > 9 IN
  [Sum(x, (IF low THEN 6 ELSE 0) + (IF high THEN 96 ELSE 0), 0)
     EXCEPT !.c = Truth(high)]

Psw(x) == 256 * A(x) + 128 * x.s + 64 * x.z + 16 * x.h + 4 * x.p + 2 + x.c
SetPsw(x, w) ==
  [Put(x, 7, Hi(w)) EXCEPT !.s = Bit(w, 7), !.z = Bit(w, 6), !.h = Bit(w, 4),
                           !.p = Bit(w, 2), !.c = Bit(w, 0)]

-----------------------------------------------------------------------------
(* The instructions, one operator for each row of cases; x is the machine   *)
(* with PC already behind the opcode.                                       *)

\* NZ Z NC C PO PE P M
Condition(x, y) ==
  LET flag == CASE y \div 2 = 0 -> x.z [] y \div 2 = 1 -> x.c
                [] y \div 2 = 2 -> x.p [] y \div 2 = 3 -> x.s IN
  flag = y % 2

\* LXI and DAD
PairImmediate(x, y) ==
  IF y % 2 = 0 THEN Took(SetPair(Skip(x, 2), y \div 2, Data16(x)), 10, 12)
  ELSE Took(Dad(x, Pair(x, y \div 2)), 10, 12)

\* STAX LDAX SHLD LHLD STA LDA
LoadStore(x, y) ==
  LET p == y \div 2
      at == Data16(x) IN
  CASE y \in {0, 2} -> Took(Write(x, Pair(x, p), A(x), FALSE), 7, 8)
    [] y \in {1, 3} -> Took(Put(x, 7, Read(x, Pair(x, p), FALSE)), 7, 8)
    [] y = 4 -> Took(Skip(WriteWord(x, at, Pair(x, HL), FALSE), 2), 16, 20)
    [] y = 5 -> Took(Skip(SetPair(x, HL, ReadWord(x, at, FALSE)), 2), 16, 20)
    [] y = 6 -> Took(Skip(Write(x, at, A(x), FALSE), 2), 13, 16)
    [] y = 7 -> Took(Skip(Put(x, 7, Read(x, at, FALSE)), 2), 13, 16)

\* INX and DCX
PairCount(x, y) ==
  Took(SetPair(x, y \div 2, Pair(x, y \div 2) + (IF y % 2 = 0 THEN 1 ELSE -1)), 5, 8)

\* INR, DCR and MVI
Count(x, y) == IF y = 6 THEN Took(Inr(x, y), 10, 12) ELSE Took(Inr(x, y), 5, 8)
CountDown(x, y) == IF y = 6 THEN Took(Dcr(x, y), 10, 12) ELSE Took(Dcr(x, y), 5, 8)
MoveImmediate(x, y) ==
  LET to == Put(Skip(x, 1), y, Data8(x)) IN
  IF y = 6 THEN Took(to, 10, 12) ELSE Took(to, 7, 8)

\* RLC RRC RAL RAR DAA CMA STC CMC
Accumulator(x, y) ==
  LET left(in)  == [Put(x, 7, ((2 * A(x)) % 256) + in) EXCEPT !.c = Bit(A(x), 7)]
      right(in) == [Put(x, 7, A(x) \div 2 + 128 * in) EXCEPT !.c = A(x) % 2] IN
  Took(CASE y = 0 -> left(Bit(A(x), 7))
         [] y = 1 -> right(A(x) % 2)
         [] y = 2 -> left(x.c)
         [] y = 3 -> right(x.c)
         [] y = 4 -> Daa(x)
         [] y = 5 -> Put(x, 7, 255 - A(x))
         [] y = 6 -> [x EXCEPT !.c = 1]
         [] y = 7 -> [x EXCEPT !.c = 1 - @], 4, 4)

\* MOV and HLT, which stays where it is
Move(x, y, z) ==
  IF y = 6 /\ z = 6 THEN Took(Skip(x, -1), 4, 4)
  ELSE LET to == Put(x, y, Get(x, z)) IN
       IF 6 \in {y, z} THEN Took(to, 7, 8) ELSE Took(to, 5, 8)

AluRegister(x, y, z) ==
  LET to == Alu(x, y, Get(x, z)) IN IF z = 6 THEN Took(to, 7, 8) ELSE Took(to, 4, 4)

ConditionalRet(x, y) ==
  IF Condition(x, y) THEN Took(Ret(x), 11, 16) ELSE Took(x, 5, 8)
ConditionalJump(x, y) ==
  Took(IF Condition(x, y) THEN [x EXCEPT !.pc = Data16(x)] ELSE Skip(x, 2), 10, 12)
ConditionalCall(x, y) ==
  IF Condition(x, y) THEN Took(Call(x), 17, 24) ELSE Took(Skip(x, 2), 11, 16)

\* POP, and RET twice, PCHL, SPHL
Unstack(x, y) ==
  CASE y \in {0, 2, 4} -> Took(SetPair(Drop(x), y \div 2, Popped(x)), 11, 12)
    [] y = 6 -> Took(SetPsw(Drop(x), Popped(x)), 10, 12)
    [] y \in {1, 3} -> Took(Ret(x), 10, 12)
    [] y = 5 -> Took([x EXCEPT !.pc = Pair(x, HL)], 5, 8)
    [] y = 7 -> Took([x EXCEPT !.sp = Pair(x, HL)], 5, 8)

\* Slip: XTHL takes its new HL from the memory it has just written.
XthlWritesFirst(x) ==
  LET y == WriteWord(x, x.sp, Pair(x, HL), TRUE) IN SetPair(y, HL, Popped(y))

Xthl(x) == SetPair(WriteWord(x, x.sp, Pair(x, HL), TRUE), HL, Popped(x))

\* JMP twice, OUT, IN, XTHL, XCHG, DI, EI.  An OUT to port 0x10 is committed
\* within the instruction (commit_time), before the next one reads anything.
Miscellaneous(x, y, in) ==
  CASE y \in {0, 1} -> Took([x EXCEPT !.pc = Data16(x)], 10, 12)
    [] y = 2 -> Took(IF Data8(x) = 16 THEN [Skip(x, 1) EXCEPT !.paging = Paging(A(x))]
                     ELSE Skip(x, 1), 10, 12)
    [] y = 3 -> Took(Put(Skip(x, 1), 7, in), 10, 12)
    [] y = 4 -> Took(Xthl(x), 18, 24)
    [] y = 5 -> Took(SetPair(SetPair(x, HL, Pair(x, 1)), 1, Pair(x, HL)), 4, 4)
    [] y = 6 -> Took([x EXCEPT !.iff = FALSE, !.ei_pending = 0, !.inte = FALSE], 4, 4)
    [] y = 7 -> Took([x EXCEPT !.iff = FALSE, !.ei_pending = 2, !.inte = TRUE], 4, 4)

\* PUSH, and CALL four times
Stack(x, y) ==
  CASE y \in {0, 2, 4} -> Took(Push(x, Pair(x, y \div 2)), 11, 16)
    [] y = 6 -> Took(Push(x, Psw(x)), 11, 16)
    [] OTHER -> Took(Call(x), 17, 24)

Rst(x, y) == Took([Push(x, x.pc) EXCEPT !.pc = 8 * y], 11, 16)

\* 0x00 to 0x3f, and 0xc0 to 0xff
Low(x, y, z) ==
  CASE z = 0 -> Took(x, 4, 4)
    [] z = 1 -> PairImmediate(x, y)
    [] z = 2 -> LoadStore(x, y)
    [] z = 3 -> PairCount(x, y)
    [] z = 4 -> Count(x, y)
    [] z = 5 -> CountDown(x, y)
    [] z = 6 -> MoveImmediate(x, y)
    [] z = 7 -> Accumulator(x, y)
High(x, y, z, in) ==
  CASE z = 0 -> ConditionalRet(x, y)
    [] z = 1 -> Unstack(x, y)
    [] z = 2 -> ConditionalJump(x, y)
    [] z = 3 -> Miscellaneous(x, y, in)
    [] z = 4 -> ConditionalCall(x, y)
    [] z = 5 -> Stack(x, y)
    [] z = 6 -> Took(Alu(Skip(x, 1), y, Data8(x)), 7, 8)
    [] z = 7 -> Rst(x, y)

\* i8080_execute(): the digits of the opcode, and the countdown of EI.
Execute(x, op, in) ==
  LET y == (op \div 8) % 8
      z == op % 8
      done == CASE op \in 0..63    -> Low(x, y, z)
                [] op \in 64..127  -> Move(x, y, z)
                [] op \in 128..191 -> AluRegister(x, y, z)
                [] op \in 192..255 -> High(x, y, z, in)
      woken == done.ei_pending = 1 IN
  [done EXCEPT !.ei_pending = IF @ = 0 THEN 0 ELSE @ - 1,
               !.iff = @ \/ woken, !.inte = @ \/ woken]

\* i8080_instruction(): the opcode at PC is op.
Instruction(x, op, in) == [Execute(Skip(x, 1), op, in) EXCEPT !.op = op]

-----------------------------------------------------------------------------
(* Any state a program can set up: the registers are arbitrary, the operand  *)
(* is in B, D, L's cell and behind the opcode, and the stack lies in RAM     *)
(* that the screen page, the stack page or the boot ROM may cover.           *)
Start(a, val, c, h, w8, boot, sp) ==
  LET r == [i \in 0..7 |-> <<val, a, 224, 255, 144, val, 0, a>>[i + 1]]
      x == [r |-> r, s |-> Bit(val, 7), z |-> Truth(val = 0), h |-> h,
            p |-> Parity(val), c |-> c, sp |-> sp, pc |-> 256, op |-> 0,
            cyc |-> 4, v |-> 4, iff |-> FALSE, inte |-> FALSE, ei_pending |-> 0,
            paging |-> Paging(w8), boot |-> boot, bytes |-> [at \in {0} |-> 0]] IN
  Write(WriteWord(x, 257, 256 * a + val, FALSE), Pair(x, HL), val, FALSE)

Init ==
  /\ steps = 0
  /\ \/ \E a, val \in Values, c, h \in 0..1 :
          cpu = Start(a, val, c, h, 0, 0, 40962)
     \/ \E w8 \in Controls, boot \in BootSizes, sp \in Stacks, c \in 0..1 :
          cpu = Start(153, 16, c, 0, w8, boot, sp)

Step(op, in) ==
  /\ steps < MaxSteps
  /\ steps' = steps + 1
  /\ cpu' = Instruction(cpu, op, in)

Next == \E op \in Byte : \E in \in (IF op = 219 THEN Inputs ELSE {0}) : Step(op, in)

vars == <<cpu, steps>>
Spec == Init /\ [][Next]_vars

-----------------------------------------------------------------------------
(* Properties *)

(* Registers, flags and addresses keep their width in every instruction, and  *)
(* no instruction takes a time that Machine does not know.                    *)
TypeOK ==
  /\ \A i \in 0..7 : cpu.r[i] \in Byte
  /\ {cpu.s, cpu.z, cpu.h, cpu.p, cpu.c} \subseteq 0..1
  /\ cpu.sp \in Word /\ cpu.pc \in Word /\ cpu.op \in Byte
  /\ cpu.ei_pending \in 0..1 /\ {cpu.iff, cpu.inte} \subseteq BOOLEAN
  /\ \A at \in DOMAIN cpu.bytes : at \in 0..(5 * 2^16 - 1) /\ cpu.bytes[at] \in Byte
  /\ <<cpu.cyc, cpu.v>> \in Timings

\* The operation and the operand of the instruction y has just executed on x.
IsAlu(op) == op \in 128..191 \/ (op > 191 /\ op % 8 = 6)
Operand(x, op) == IF op > 191 THEN Data8(Skip(x, 1)) ELSE Get(x, op % 8)

(* The flags of an arithmetic instruction are those of the arithmetic: carry    *)
(* and half carry are the carries (for a subtraction, the borrows inverted in   *)
(* the half carry) out of bits 7 and 3, carry in included, whatever path        *)
(* through the two tables led there; S, Z and P are those of the result.        *)
FlagsTell(x, k, val, y) ==
  LET a   == A(x)
      in  == IF k \in {1, 3} THEN x.c ELSE 0
      res == CASE k \in {0, 1} -> (a + val + in) % 256
               [] k \in {2, 3, 7} -> (a - val - in) % 256
               [] OTHER -> A(y) IN
  /\ A(y) = (IF k = 7 THEN a ELSE res)
  /\ k \in {0, 1} => /\ y.c = 1 <=> a + val + in > 255
                    /\ y.h = 1 <=> (a % 16) + (val % 16) + in > 15
  /\ k \in {2, 3, 7} => /\ y.c = 1 <=> a < val + in
                       /\ y.h = 1 <=> a % 16 >= (val % 16) + in
  /\ k \in {4, 5, 6} => y.c = 0
  /\ y.s = 1 <=> res > 127
  /\ y.z = 1 <=> res = 0
  /\ y.p = Parity(res)

ArithmeticFlags ==
  LET op == cpu'.op IN
  IsAlu(op) => FlagsTell(cpu, (op \div 8) % 8, Operand(cpu, op), cpu')

FlagsAreArithmetic == [][ArithmeticFlags]_vars

Bcd(n) == 16 * (n \div 10) + (n % 10)

(* DAA after ADC adds decimally: two numbers of two digits and the carry give  *)
(* the two last digits of their sum in A and its hundreds in the carry.        *)
AddsDecimally(x) ==
  \A m \in {n \in 0..99 : A(x) = Bcd(n)}, n \in 0..99 :
    LET y == Daa(Alu(x, 1, Bcd(n)))
        sum == m + n + x.c IN
    A(y) = Bcd(sum % 100) /\ y.c = sum \div 100

DecimalAddition == steps = 0 => AddsDecimally(cpu)

Registers(x) == <<x.r, x.s, x.z, x.h, x.p, x.c, x.sp, x.pc>>
Then(x, op) == Execute(x, op, 0)

(* What goes onto the stack comes back: POP undoes PUSH, RET undoes CALL and    *)
(* RST, XTHL undoes itself, with SP anywhere and under every paging, unless     *)
(* the boot ROM covers the stack.  And as long as no window is open, a stack on *)
(* its own page is out of the reach of data accesses.                           *)
StackComesBack(x) ==
  (\A i \in -2..1 : Bank(x.paging, x.sp + i, TRUE) >= x.boot) =>
    /\ \A y \in {0, 2, 4, 6} :
         Registers(Then(Then(x, 197 + 8 * y), 193 + 8 * y)) = Registers(x)
    /\ Registers(Then(Then(x, 205), 201)) = Registers(Skip(x, 2))
    /\ \A y \in 0..7 : Registers(Then(Then(x, 199 + 8 * y), 201)) = Registers(x)
    /\ LET y == Then(Then(x, 227), 227) IN
       Registers(y) = Registers(x) /\ Popped(y) = Popped(x)
    /\ x.paging.stack /\ x.paging.map = {} =>
         \A addr \in {x.sp - 2, x.sp - 1} :
           Read(Then(x, 197), addr, FALSE) = Read(x, addr, FALSE)

StackRoundTrip == steps = 0 => StackComesBack(cpu)

=============================================================================
