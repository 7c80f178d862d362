----------------------------- MODULE MCZ80Cpu ------------------------------
(***************************************************************************)
(* Z80Cpu on routines every Z80 programmer has written: sums of any        *)
(* length, decimal sums, moves of overlapping blocks, searches, products   *)
(* and quotients, comparisons, recursion, a trap that keeps all registers, *)
(* records behind IX and IY.  Each says what it leaves behind for all of   *)
(* its inputs; what it computes passes through many instructions and the   *)
(* flags between them.                                                     *)
(*                                                                         *)
(* Some of them run under interrupts, which come at every moment.          *)
(*                                                                         *)
(* The memory has 128 bytes: code from 0, the handler of interrupts at 56, *)
(* data from X = 80, two cells that say how many interrupts come, the NMI  *)
(* handler at 102, and the stack from the end downwards (SP is 0xFFFF      *)
(* after the reset).                                                       *)
(***************************************************************************)
EXTENDS Z80Cpu

X == 80
Y == X + 4
R == X + 8
N == X + 12
T == X + 14      \* two counters, of interrupts and of NMIs
Come == 100

Bytes(at, code) == [a \in at .. at + Len(code) - 1 |-> code[a - at + 1]]
Laid(parts) == [a \in 0 .. Top - 1 |->
  LET at == {p \in parts : a \in DOMAIN p}
  IN  IF at = {} THEN 0 ELSE (CHOOSE p \in at : TRUE)[a]]
Loaded(code, data) == Laid({Bytes(0, code), Bytes(X, data)})

MCRequests(m) == [INT |-> m[Come], NMI |-> m[Come + 1]]
Two(m, a) == m[a] + 256 * m[a + 1]

Runs(codes) ==
  \E code \in codes : \A k \in 1 .. Len(code) : loaded[k - 1] = code[k]

(* The routine has ended; it is one of these, alone or under interrupts. *)
Watched(code) == <<\hFB>> \o code \o <<\h18, \hFD>>      \* EI; end: JR end
Ended(codes) == halted /\ (Runs(codes) \/ Runs({Watched(code) : code \in codes}))

ByBytes(code) ==
  <<\h21, \h54, \h00, \h11, \h50, \h00,   \* LD HL,Y; LD DE,X
    \h06, \h02, \hB7,                     \* LD B,2; OR A
    \h1A, code,                           \* loop: LD A,(DE); ADC A,(HL)
    \h12, \h23, \h13,                     \* LD (DE),A; INC HL; INC DE
    \h10, \hF9, \h9F, \h32, \h58, \h00,   \* DJNZ loop; SBC A,A; LD (R),A
    \h76                                  \* HALT
  >>

AddBytes == ByBytes(\h8E)
SubBytes == ByBytes(\h9E)      \* SBC A,(HL)

ByWords(code) ==
  <<\hB7, \h2A, \h50, \h00,               \* OR A; LD HL,(X)
    \hED, \h5B, \h54, \h00, \hED, code,   \* LD DE,(Y); ADC HL,DE
    \h22, \h50, \h00, \h9F,               \* LD (X),HL; SBC A,A
    \h32, \h58, \h00, \h76                \* LD (R),A; HALT
  >>

AddWords == ByWords(\h5A)
SubWords == ByWords(\h52)      \* SBC HL,DE

Decimal(code) ==
  <<\h21, \h54, \h00, \h3A, \h50, \h00,   \* LD HL,Y; LD A,(X)
    code, \h27, \h32, \h50, \h00, \h9F,   \* ADD A, (HL); DAA; LD (X),A; SBC A,A
    \h32, \h58, \h00, \h76                \* LD (R),A; HALT
  >>

AddDecimal == Decimal(\h86)
SubDecimal == Decimal(\h96)    \* SUB (HL)

MoveBlock ==
  <<\h2A, \h58, \h00,                     \* LD HL,(R)
    \hED, \h5B, \h5A, \h00,               \* LD DE,(R+2)
    \hED, \h4B, \h5C, \h00, \hB7,         \* LD BC,(N); OR A
    \hED, \h52, \h19, \h38, \h03,         \* SBC HL,DE; ADD HL,DE; JR C,up
    \hED, \hB0, \h76,                     \* LDIR; HALT
    \h09, \h2B, \hEB,                     \* up: ADD HL,BC; DEC HL; EX DE,HL
    \h09, \h2B, \hEB, \hED, \hB8,         \* ADD HL,BC; DEC HL; EX DE,HL; LDDR
    \h76                                  \* HALT
  >>

Copy0(code, from, to) ==
  <<\h21, from, \h00, \h11, to, \h00,     \* LD HL,X; LD DE,Y
    \h7E, \hED, code, \hB7,               \* loop: LD A,(HL); LDI; OR A
    \h20, \hFA, \h76                      \* JR NZ,loop; HALT
  >>

CopyString == Copy0(\hA0, X, Y)
CopyBack == Copy0(\hA8, X + 3, Y + 3)      \* LDD

Search(code, from, back) ==
  <<\h3A, \h5C, \h00, \h21, from, \h00,   \* LD A,(N); LD HL,first
    \h01, \h04, \h00, \hED, code,         \* LD BC,4; CPIR
    \h20, \h05, back, \h22, \h58, \h00,   \* JR NZ,none; DEC HL; LD (R),HL
    \h76,                                 \* HALT
    \h21, \h00, \h00, \h22, \h58, \h00,   \* none: LD HL,0; LD (R),HL
    \h76                                  \* HALT
  >>

SearchUp == Search(\hB1, X, \h2B)
SearchDown == Search(\hB9, X + 3, \h23)   \* CPDR, INC HL

Same(code, x, y1, step) ==
  <<\h21, x, \h00, \h11, y1, \h00,        \* LD HL,x; LD DE,y
    \h01, \h04, \h00,                     \* LD BC,4
    \h1A, \hED, code, \h20, \h04,         \* loop: LD A,(DE); CPI; JR NZ,differ
    step, \hEA, \h09, \h00,               \* INC DE; JP PE,loop
    \h76                                  \* differ: HALT
  >>

SameUp == Same(\hA1, X, Y, \h13)
SameDown == Same(\hA9, X + 3, Y + 3, \h1B)  \* CPD, DEC DE

Multiply ==
  <<\h2A, \h50, \h00, \h5D, \h16, \h00,   \* LD HL,(X); LD E,L; LD D,0
    \h2E, \h00, \h06, \h08,               \* LD L,0; LD B,8
    \h29, \h30, \h01,                     \* loop: ADD HL,HL; JR NC,skip
    \h19,                                 \* ADD HL,DE
    \h10, \hFA, \h22, \h58, \h00, \h76    \* skip: DJNZ loop; LD (R),HL; HALT
  >>

Divide ==
  <<\h2A, \h50, \h00, \h3A, \h54, \h00,   \* LD HL,(X); LD A,(Y)
    \h4F, \hAF, \h06, \h10,               \* LD C,A; XOR A; LD B,16
    \h29, \h17, \h38, \h03,               \* loop: ADD HL,HL; RLA; JR C,sub
    \hB9, \h38, \h02,                     \* CP C; JR C,next
    \h91, \h2C,                           \* sub: SUB C; INC L
    \h10, \hF5, \h22, \h58, \h00,         \* next: DJNZ loop; LD (R),HL
    \h32, \h5C, \h00, \h76                \* LD (N),A; HALT
  >>

CompareBytes ==
  <<\h21, \h54, \h00, \h3A, \h50, \h00,   \* LD HL,Y; LD A,(X)
    \h0E, \h00, \hBE, \h30, \h02,         \* LD C,0; CP (HL); JR NC,signed
    \hCB, \hC1,                           \* SET 0,C
    \hEA, \h15, \h00, \hFA, \h18, \h00,   \* signed: JP PE,over; JP M,less
    \h18, \h05,                           \* JR done
    \hFA, \h1A, \h00,                     \* over: JP M,done
    \hCB, \hC9,                           \* less: SET 1,C
    \h79, \h32, \h58, \h00, \h76          \* done: LD A,C; LD (R),A; HALT
  >>

Fibonacci ==
  <<\h3A, \h50, \h00, \hCD, \h0A, \h00,   \* LD A,(X); CALL fib
    \h22, \h58, \h00, \h76,               \* LD (R),HL; HALT
    \hFE, \h02, \h30, \h04, \h26, \h00,   \* fib: CP 2; JR NC,rec; LD H,0
    \h6F, \hC9,                           \* LD L,A; RET
    \hC5, \h47, \h3D,                     \* rec: PUSH BC; LD B,A; DEC A
    \hCD, \h0A, \h00, \hE5, \h78,         \* CALL fib; PUSH HL; LD A,B
    \hD6, \h02, \hCD, \h0A, \h00, \hD1,   \* SUB 2; CALL fib; POP DE
    \h19, \hC1, \hC9                      \* ADD HL,DE; POP BC; RET
  >>

Trap ==
  <<\h31, \h50, \h00, \hF1, \hC1, \hD1,   \* LD SP,X; POP AF; POP BC; POP DE
    \hE1, \hDD, \hE1, \hFD, \hE1,         \* POP HL; POP IX; POP IY
    \h31, \h00, \h00, \hDF, \h76, \h00,   \* LD SP,0; RST 18h; HALT; NOP
    \h00, \h00, \h00, \h00, \h00, \h00,   \* NOP; NOP; NOP; NOP; NOP; NOP
    \h00,                                 \* NOP
    \hF5, \h00, \hD9, \h08,               \* h: PUSH AF; NOP; EXX; EX AF,AF'
    \h21, \h34, \h12, \hFD, \hE5,         \* LD HL,1234h; PUSH IY
    \hDD, \hE5, \hDD, \h21, \h78, \h56,   \* PUSH IX; LD IX,5678h
    \hDD, \hE3, \hFD, \h21, \h00, \h00,   \* EX (SP),IX; LD IY,0
    \hFD, \h39, \hC1, \hC5, \hE5,         \* ADD IY,SP; POP BC; PUSH BC; PUSH HL
    \h3C, \hFD, \hF9, \hD1, \hFD, \hE1,   \* INC A; LD SP,IY; POP DE; POP IY
    \h08, \hD9, \hAF, \hF1, \hC9          \* EX AF,AF'; EXX; XOR A; POP AF; RET
  >>

Records ==
  <<\hDD, \h21, \h54, \h00,               \* LD IX,Y
    \hFD, \h2A, \h58, \h00,               \* LD IY,(R)
    \hDD, \hCB, \hFC, \h26,               \* SLA (IX-4)
    \hDD, \hCB, \hFD, \h16,               \* RL (IX-3)
    \hFD, \h7E, \h01, \hFD, \h86, \h02,   \* LD A,(IY+1); ADD A,(IY+2)
    \hFD, \h77, \hFF, \hFD, \h34, \h01,   \* LD (IY-1),A; INC (IY+1)
    \hFD, \h66, \h01,                     \* LD H,(IY+1)
    \hDD, \h36, \h01, \h52,               \* LD (IX+1),52h
    \hDD, \hCB, \h01, \hD8,               \* SET 3,(IX+1),B
    \hFD, \hCB, \h03, \h9E,               \* RES 3,(IY+3)
    \hDD, \hCB, \h01, \h5E, \h28, \h07,   \* BIT 3,(IX+1); JR Z,end
    \hDD, \h74, \h02, \h21, \h38, \h00,   \* LD (IX+2),H; LD HL,end
    \hE9,                                 \* JP (HL)
    \h76                                  \* end: HALT
  >>

ShiftDigits ==
  <<\h21, \h50, \h00, \h3A, \h5C, \h00,   \* LD HL,X; LD A,(N)
    \hED, \h6F, \h23, \hED, \h6F,         \* RLD; INC HL; RLD
    \h32, \h58, \h00, \hED, \h67, \h2B,   \* LD (R),A; RRD; DEC HL
    \hED, \h67, \h32, \h59, \h00, \h76    \* RRD; LD (R+1),A; HALT
  >>

Mirror(out, in) ==
  <<\h3A, \h50, \h00, \h4F, \h06, \h08,   \* LD A,(X); LD C,A; LD B,8
    \h11, \h00, \h00,                     \* LD DE,0
    \hCB, out, \h30, \h01, \h1C,          \* loop: SRL C; JR NC,skip; INC E
    \hCB, in, \h10, \hF7, \hB7,           \* skip: RL D; DJNZ loop; OR A
    \hE2, \h18, \h00, \hCB, \hFB,         \* JP PO,odd; SET 7,E
    \hED, \h53, \h58, \h00, \h76          \* odd: LD (R),DE; HALT
  >>

MirrorAt(out, in) ==
  <<\hDD, \h21, \h54, \h00,               \* LD IX,Y
    \hFD, \h21, \h58, \h00, \h06, \h08,   \* LD IY,R; LD B,8
    \hDD, \hCB, \h00, out,                \* loop: SRL (IX+0)
    \hFD, \hCB, \h00, in, \h10, \hF6,     \* RL (IY+0),D; DJNZ loop
    \h76                                  \* HALT
  >>

SignMagnitude ==
  <<\h3A, \h50, \h00, \hCB, \h7F,         \* LD A,(X); BIT 7,A
    \h28, \h04, \hED, \h44, \hCB, \hFF,   \* JR Z,plus; NEG; SET 7,A
    \h32, \h58, \h00, \h4F, \hE6, \h80,   \* plus: LD (R),A; LD C,A; AND 80h
    \h79, \h28, \h06, \hCB, \hBF, \h2F,   \* LD A,C; JR Z,done; RES 7,A; CPL
    \h37, \hCE, \h00,                     \* SCF; ADC A,0
    \h32, \h59, \h00, \h76                \* done: LD (R+1),A; HALT
  >>

(* Under interrupts a routine goes on behind its HALT. *)
MoveWatched ==
  <<\hFB, \h2A, \h58, \h00,               \* EI; LD HL,(R)
    \hED, \h5B, \h5A, \h00,               \* LD DE,(R+2)
    \hED, \h4B, \h5C, \h00, \hB7,         \* LD BC,(N); OR A
    \hED, \h52, \h19, \h38, \h05,         \* SBC HL,DE; ADD HL,DE; JR C,up
    \hED, \hB0,                           \* LDIR
    \h76, \h18, \hFD,                     \* end: HALT; JR end
    \h09, \h2B, \hEB,                     \* up: ADD HL,BC; DEC HL; EX DE,HL
    \h09, \h2B, \hEB, \hED, \hB8,         \* ADD HL,BC; DEC HL; EX DE,HL; LDDR
    \h18, \hF3                            \* JR end
  >>

Ports(code, from) ==
  <<\h21, from, \h00,                     \* LD HL,first
    \hED, \h4B, \h5C, \h00, \hED, code,   \* LD BC,(N); OTIR
    \h22, \h58, \h00, \h76                \* LD (R),HL; HALT
  >>

PortsUp == Ports(\hB3, X)
PortsDown == Ports(\hBB, X + 3)
PortsIn == Ports(\hB2, X)
PortsInDown == Ports(\hBA, X + 3)

PortByPort(code, from) ==
  <<\h21, from, \h00,                     \* LD HL,first
    \hED, \h4B, \h5C, \h00,               \* LD BC,(N)
    \hED, code, \h20, \hFC,               \* loop: OUTI; JR NZ,loop
    \h22, \h58, \h00, \h76                \* LD (R),HL; HALT
  >>

PortBytes ==
  <<\hED, \h4B, \h5C, \h00,               \* LD BC,(N)
    \h3A, \h50, \h00, \hD3, \h12,         \* LD A,(X); OUT (12h),A
    \hED, \h79, \hED, \h71, \h37,         \* OUT (C),A; OUT (C),0; SCF
    \hED, \h70, \h28, \h10,               \* IN F,(C); JR Z,bad
    \hF2, \h22, \h00, \hE2, \h22, \h00,   \* JP P,bad; JP PO,bad
    \h30, \h08, \hED, \h50, \hDB, \h12,   \* JR NC,bad; IN D,(C); IN A,(12h)
    \hA2, \h32, \h58, \h00,               \* AND D; LD (R),A
    \h76                                  \* bad: HALT
  >>

Refresh ==
  <<\h3A, \h50, \h00, \hED, \h4F,         \* LD A,(X); LD R,A
    \hDD, \h21, \h54, \h00,               \* LD IX,Y
    \hDD, \hCB, \h00, \hC6,               \* SET 0,(IX+0)
    \h21, \h50, \h00, \h11, \h54, \h00,   \* LD HL,X; LD DE,Y
    \hED, \h4B, \h5C, \h00, \hED, \hB0,   \* LD BC,(N); LDIR
    \hED, \hFF, \hDD, \hDD, \h23,         \* ED FF; DD, INC IX
    \hED, \h5F, \h32, \h58, \h00, \h76    \* LD A,R; LD (R),A; HALT
  >>

IntHandler ==
  <<\h08, \hE5, \h21, \h5E, \h00,         \* EX AF,AF'; PUSH HL; LD HL,T
    \h34, \hE1, \h08, \hFB,               \* INC (HL); POP HL; EX AF,AF'; EI
    \hED, \h4D                            \* RETI
  >>

CheckHandler ==
  <<\h08, \hE5, \h21, \h5E, \h00,         \* EX AF,AF'; PUSH HL; LD HL,T
    \h34, \h2A, \h50, \h00, \h7D, \h94,   \* INC (HL); LD HL,(X); LD A,L; SUB H
    \h28, \h03, \h32, \h58, \h00,         \* JR Z,ok; LD (R),A
    \hE1, \h08, \hFB, \hED, \h4D          \* ok: POP HL; EX AF,AF'; EI; RETI
  >>

NmiHandler ==
  <<\hE5, \h2A, \h5F, \h00, \h23,         \* PUSH HL; LD HL,(T+1); INC HL
    \h22, \h5F, \h00, \hE1, \hED, \h45    \* LD (T+1),HL; POP HL; RETN
  >>

WaitTwice ==
  <<\hFB, \h76, \h3A, \h5E, \h00,         \* EI; HALT; LD A,(T)
    \h32, \h58, \h00,                     \* LD (R),A
    \h76, \h18, \hFD                      \* end: HALT; JR end
  >>

IsEnabled(first) ==
  <<first, \h0E, \h01, \hED, \h57,        \* EI or DI; LD C,1; LD A,I
    \hEA, \h0E, \h00, \hED, \h57,         \* JP PE,on; LD A,I
    \hEA, \h0E, \h00, \h0D,               \* JP PE,on; DEC C
    \h79, \h32, \h58, \h00,               \* on: LD A,C; LD (R),A
    \h76, \h18, \hFD                      \* end: HALT; JR end
  >>

Critical ==
  <<\hED, \h56, \hFB, \h11, \h02, \h02,   \* IM 1; EI; LD DE,0202h
    \hF3, \hED, \h53, \h50, \h00, \h14,   \* DI; LD (X),DE; INC D
    \h1C, \h7B, \h32, \h50, \h00, \h7A,   \* INC E; LD A,E; LD (X),A; LD A,D
    \h32, \h51, \h00, \hFB,               \* LD (X+1),A; EI
    \h76, \h18, \hFD                      \* end: HALT; JR end
  >>

Vectored ==
  <<\hED, \h46, \h3A, \h50, \h00,         \* IM 0; LD A,(X)
    \hED, \h47, \hED, \h5E, \hFB,         \* LD I,A; IM 2; EI
    \h76, \h18, \hFD                      \* end: HALT; JR end
  >>

-----------------------------------------------------------------------------
(* Inputs: bytes at the boundaries of sign and carry, and a few within.    *)
Edge == {0, 1, 127, 128, 255}
Digits2 == {\h00, \h01, \h05, \h09, \h10, \h19, \h45, \h50, \h54, \h90, \h95, \h99}
Pattern == {0, 1, 2, 7, 64, 85, 127, 128, 129, 200, 254, 255}
Shifts == {<<\h39, \h12>>, <<\h21, \h1A>>, <<\h09, \h12>>, <<\h01, \h1A>>,
           <<\h29, \h12>>, <<\h31, \h1A>>}
Indirect(code) == 8 * (code \div 8) + 6

Sums == {Loaded(code, <<a, b, 0, 0, c, d>>) :
           code \in {AddBytes, SubBytes, AddWords, SubWords},
           a \in Edge, b \in {0, 127, 128, 255}, c \in Edge, d \in {0, 127, 128, 255}}
DecimalSums == {Loaded(code, <<a, 0, 0, 0, b>>) :
                  code \in {AddDecimal, SubDecimal}, a \in Digits2, b \in Digits2}
Blocks ==
  {Loaded(MoveBlock, <<1, 2, 3, 4, 5, 6, 7, 8, X + s, 0, X + d, 0, n, 0>>) :
     s \in 0 .. 4, d \in 0 .. 4, n \in 1 .. 4}
  \cup {Loaded(CopyString, s) : s \in {<<7, 8, 9, 0>>, <<7, 0, 9, 0>>, <<0, 8, 9, 0>>}}
  \cup {Loaded(CopyBack, s) : s \in {<<0, 7, 8, 9>>, <<0, 7, 0, 9>>, <<0, 7, 8, 0>>}}
Searches ==
  {Loaded(code, s \o <<0, 0, 0, 0, 0, 0, 0, 0, 7>>) :
     code \in {SearchUp, SearchDown}, s \in [1 .. 4 -> {7, 9}]}
  \cup {Loaded(code, <<1, 2, 3, 4>> \o s) :
          code \in {SameUp, SameDown}, s \in [1 .. 4 -> 1 .. 4]}
Products == {Loaded(Multiply, <<a, b>>) : a \in Pattern, b \in Edge}
            \cup {Loaded(Divide, <<a, b, 0, 0, c>>) :
                    a \in Edge, b \in {0, 3, 255}, c \in {1, 3, 127, 128, 255}}
Comparisons == {Loaded(CompareBytes, <<a, 0, 0, 0, b>>) : a \in Pattern, b \in Pattern}
Recursions == {Loaded(Fibonacci, <<n>>) : n \in 0 .. 4}
Traps == {Loaded(Trap, <<f, 1, 2, 3, 4, 5, 6, 7, 8, 9, 10, 11>>) :
            f \in {0, 1, 64, 128, 132, 215}}
RecordSets == {Loaded(Records, <<a, b, 0, 0, 0, c, 200, d, Y, 0>>) :
                 a \in Edge, b \in Edge, c \in Edge, d \in {0, 8, 255}}
BitStrings == {Loaded(Mirror(s[1], s[2]), <<a>>) : s \in Shifts, a \in Pattern}
              \cup {Loaded(MirrorAt(Indirect(s[1]), s[2]), <<0, 0, 0, 0, a>>) :
                      s \in Shifts, a \in Edge}
              \cup {Loaded(SignMagnitude, <<a>>) : a \in Pattern}
              \cup {Loaded(ShiftDigits, <<a, b, 0, 0, 0, 0, 0, 0, 0, 0, 0, 0, c>>) :
                      a \in {0, 18, 171}, b \in {0, 52, 205}, c \in {5, 86}}

(* A routine with its handlers, and how many interrupts come. *)
Attended(code, data, at, handler, come) ==
  Laid({Bytes(0, code), Bytes(X, data), Bytes(at, handler), Bytes(102, NmiHandler),
        Bytes(Come, come)})
Once(code, data) == Attended(code, data, 56, IntHandler, <<1, 1>>)
Attendances ==
  {Once(Watched(AddBytes), <<200, 127, 0, 0, 100, 128>>),
   Once(Watched(SubWords), <<0, 1, 0, 0, 1, 255>>),
   Once(Watched(AddDecimal), <<\h45, 0, 0, 0, \h58>>),
   Once(Watched(Multiply), <<200, 129>>),
   Once(Watched(CopyString), <<7, 8, 9, 0>>),
   Once(WaitTwice, <<>>), Once(IsEnabled(\hFB), <<>>), Once(IsEnabled(\hF3), <<>>)}
  \cup {Once(MoveWatched, <<1, 2, 3, 4, 5, 6, 7, 8, X + s, 0, X + 2 - s, 0, 3, 0>>) :
          s \in {0, 2}}
  \cup {Attended(Critical, <<>>, 56, CheckHandler, <<n, 1>>) : n \in {1, 2}}
  \cup {Laid({Bytes(0, Vectored), Bytes(X, <<i>>), Bytes(56, <<\h76>>), Bytes(127, <<64>>),
              Bytes(64, IntHandler), Bytes(102, NmiHandler), Bytes(Come, <<1, 1>>)}) :
          i \in {0, 255}}

PortSets ==
  {Loaded(code, <<1, 128, 255, 4, 0, 0, 0, 0, 0, 0, 0, 0, 7, n>>) :
     n \in {1, 2, 4},
     code \in {PortsUp, PortsDown, PortsIn, PortsInDown}
               \cup {PortByPort(s[1], s[2]) : s \in {<<\hA3, X>>, <<\hAB, X + 3>>,
                                                     <<\hA2, X>>, <<\hAA, X + 3>>}}}
  \cup {Loaded(PortBytes, <<a, 0, 0, 0, 0, 0, 0, 0, 0, 0, 0, 0, 7, 9>>) : a \in Edge}
Refreshes == {Loaded(Refresh, <<a, 2, 3, 0, 0, 0, 0, 0, 0, 0, 0, 0, n, 0>>) :
                a \in Pattern, n \in {1, 3}}

MCPrograms == Sums \cup DecimalSums \cup Blocks \cup Searches \cup Products
              \cup Comparisons \cup Recursions \cup Traps \cup RecordSets \cup BitStrings
              \cup PortSets \cup Refreshes \cup Attendances

-----------------------------------------------------------------------------
(* A byte at a time or by words, with ADC and ADD or SBC and SUB: the sum  *)
(* and the difference of two numbers, and the carry or borrow.             *)
(* Multiplication by shifts and additions and division by shifts and       *)
(* subtractions are exact, with the carries ADD HL, RLA and CP pass on.    *)
(* DAA makes of a binary sum or difference of two decimal digits each the  *)
(* decimal one, with the decimal carry.                                    *)
ArithmeticExact ==
  LET x == Two(loaded, X)
      n == Two(loaded, Y)
      over == 65536 * (mem[R] \div 255)
      dec(b) == 10 * High(b) + Low(b)
      decOver == 100 * (mem[R] \div 255)
  IN  /\ Ended({AddBytes, AddWords}) => Two(mem, X) + over = x + n
      /\ Ended({SubBytes, SubWords}) => Two(mem, X) - over = x - n
      /\ Ended({Multiply}) => Two(mem, R) = loaded[X] * loaded[X + 1]
      /\ Ended({Divide}) => /\ x = Two(mem, R) * loaded[Y] + mem[N]
                            /\ mem[N] < loaded[Y]
      /\ Ended({AddDecimal, SubDecimal}) => High(mem[X]) < 10 /\ Low(mem[X]) < 10
      /\ Ended({AddDecimal}) =>
           dec(mem[X]) + decOver = dec(loaded[X]) + dec(loaded[Y])
      /\ Ended({SubDecimal}) =>
           dec(mem[X]) - decOver = dec(loaded[X]) - dec(loaded[Y])

(* A block is moved as it was, overlaps or not: LDIR and LDDR take the     *)
(* bytes in the order that reads each before it is overwritten.  Strings   *)
(* are copied up to their end.                                             *)
BlocksMoved ==
  /\ halted /\ Runs({MoveBlock, MoveWatched}) =>
       LET from == Two(loaded, R)
           to == Two(loaded, R + 2)
           n == loaded[N]
       IN  \A a \in 0 .. T - 1 :
             mem[a] = loaded[IF to <= a /\ a < to + n THEN a - to + from ELSE a]
  /\ Ended({CopyString}) =>
       \A k \in 0 .. 3 : mem[Y + k] = IF \E i \in 0 .. k - 1 : loaded[X + i] = 0
                                      THEN 0 ELSE loaded[X + k]
  /\ Ended({CopyBack}) =>
       \A k \in 0 .. 3 : mem[Y + k] = IF \E i \in k + 1 .. 3 : loaded[X + i] = 0
                                      THEN 0 ELSE loaded[X + k]

(* After CP, C says which byte is less unsigned, and S with V which is     *)
(* less signed.  CPIR and CPDR stop right behind the first match in their  *)
(* direction; a comparison of two blocks with CPI or CPD ends with Z if    *)
(* they agree.                                                             *)
ComparisonsExact ==
  LET found == {a \in X .. X + 3 : loaded[a] = loaded[N]}
      same == \A k \in 0 .. 3 : loaded[X + k] = loaded[Y + k]
  IN  /\ Ended({CompareBytes}) =>
           /\ Bit(mem[R], 0) = 1 <=> loaded[X] < loaded[Y]
           /\ Bit(mem[R], 1) = 1 <=> Signed(loaded[X]) < Signed(loaded[Y])
      /\ Ended({SearchUp}) =>
           IF found = {} THEN Two(mem, R) = 0
           ELSE Two(mem, R) \in found /\ \A a \in found : Two(mem, R) <= a
      /\ Ended({SearchDown}) =>
           IF found = {} THEN Two(mem, R) = 0
           ELSE Two(mem, R) \in found /\ \A a \in found : Two(mem, R) >= a
      /\ Ended({SameUp, SameDown}) => ("Z" \in F <=> same)

(* What is saved comes back.  A routine that calls itself twice finds its  *)
(* registers on the stack again, and the stack is as it was in the end; a  *)
(* handler that saves what it uses, on the stack or in the other bank,     *)
(* returns with every register and flag as before.                         *)
StateRestored ==
  /\ Ended({Fibonacci}) =>
       /\ Two(mem, R) = <<0, 1, 1, 2, 3>>[1 + loaded[X]]
       /\ Pair("SP") = 65535 /\ Pair("BC") = 65535
  /\ Ended({Trap}) =>
       /\ F = FlagsOf(loaded[X]) /\ r.A = loaded[X + 1]
       /\ Pair("BC") = Two(loaded, X + 2) /\ Pair("DE") = Two(loaded, X + 4)
       /\ Pair("HL") = Two(loaded, X + 6) /\ Pair("IX") = Two(loaded, X + 8)
       /\ Pair("IY") = Two(loaded, X + 10) /\ Pair("SP") = 0
       /\ alt.A = 0 /\ alt.B = \h56 /\ alt.C = \h78 /\ alt.H = \h12

(* Fields of two records that overlap, before and behind IX and IY, are    *)
(* read and written where the other index finds them; H next to an indexed *)
(* operand is still H, and a bit instruction copies its result.            *)
RecordsExact ==
  Ended({Records}) =>
    /\ Two(mem, X) = (2 * Two(loaded, X)) % 65536
    /\ mem[Y - 1] = (loaded[Y + 1] + loaded[Y + 2]) % 256
    /\ mem[Y + 1] = \h5A /\ r.B = \h5A
    /\ mem[Y + 2] = (loaded[Y + 1] + 1) % 256
    /\ mem[Y + 3] = loaded[Y + 3] - 8 * Bit(loaded[Y + 3], 3)
    /\ Pair("IX") = Y /\ Pair("IY") = Y

(* A byte taken apart bit by bit and put together in the other order is    *)
(* its mirror image, its ones are counted, and P/V is their parity;        *)
(* negations and digit shifts forth and back are exact.                    *)
BitsExact ==
  LET v == loaded[X]
      ones == Cardinality({k \in 0 .. 7 : Bit(v, k) = 1})
  IN  /\ Ended({Mirror(s[1], s[2]) : s \in Shifts}) =>
           /\ mem[R + 1] = OfBits([k \in 0 .. 7 |-> Bit(v, 7 - k)])
           /\ mem[R] = ones + 128 * ((ones + 1) % 2)
      /\ Ended({MirrorAt(Indirect(s[1]), s[2]) : s \in Shifts}) =>
           /\ mem[R] = OfBits([k \in 0 .. 7 |-> Bit(loaded[Y], 7 - k)])
           /\ r.D = mem[R]
      /\ Ended({SignMagnitude}) =>
           /\ mem[R] = IF Signed(v) < 0 /\ v # 128 THEN 128 - Signed(v) ELSE v
           /\ mem[R + 1] = IF v = 128 THEN 0 ELSE v
      /\ Ended({ShiftDigits}) =>
           /\ mem = [loaded EXCEPT ![R] = mem[R], ![R + 1] = mem[R + 1]]
           /\ mem[R] = 16 * High(loaded[N]) + High(loaded[X + 1])
           /\ mem[R + 1] = loaded[N]

(* A block goes out to its ports byte by byte, in order, with the bytes    *)
(* still to come as the upper half of the port; a block that comes in is   *)
(* what the ports show.  B and Z say when it is over, and single bytes go  *)
(* to and come from the port of BC, or of A and n.                         *)
PortsExact ==
  LET n == loaded[N + 1]
      c == loaded[N]
      up(k) == loaded[X + k - 1]
      down(k) == loaded[X + 4 - k]
      out(from(_)) == [k \in 1 .. n |-> <<256 * (n - k) + c, from(k)>>]
      end == r.B = 0 /\ r.C = c /\ "Z" \in F
  IN  /\ Ended({PortsUp, PortByPort(\hA3, X)}) =>
           end /\ sent = out(up) /\ Two(mem, R) = X + n
      /\ Ended({PortsDown, PortByPort(\hAB, X + 3)}) =>
           end /\ sent = out(down) /\ Two(mem, R) = X + 3 - n
      /\ Ended({PortsIn, PortByPort(\hA2, X)}) =>
           end /\ \A k \in 0 .. 3 : mem[X + k] = IF k < n THEN 255 ELSE loaded[X + k]
      /\ Ended({PortsInDown, PortByPort(\hAA, X + 3)}) =>
           end /\ \A k \in 0 .. 3 : mem[X + k] = IF k > 3 - n THEN 255 ELSE loaded[X + k]
      /\ Ended({PortBytes}) =>
           LET a == loaded[X]
           IN  /\ sent = <<<<256 * a + 18, a>>, <<256 * n + c, a>>, <<256 * n + c, 0>>>>
               /\ mem[R] = 255

(* The lower seven bits of R count every opcode and every prefix fetched,  *)
(* those of each round of a repeated instruction too, but not operands or  *)
(* what is behind a displacement; the upper one stays as it was loaded.    *)
RefreshExact ==
  Ended({Refresh}) =>
    /\ mem[R] % 128 = (loaded[X] + 15 + 2 * loaded[N]) % 128
    /\ mem[R] \div 128 = loaded[X] \div 128
    /\ Pair("IX") = Y + 1

(* Every interrupt runs its handler once, whatever it interrupts (a HALT,  *)
(* a round of LDIR, the handler of another), and then the routine goes on  *)
(* where it was, with its stack and its interrupts as before.  Handlers of *)
(* maskable interrupts never nest, as EI waits for the RETI behind it.     *)
(* What is written between DI and EI is never seen half.  LD A,I asked     *)
(* twice tells whether interrupts are on, even if one comes in between.    *)
HandlersBalanced ==
  loaded[102] = NmiHandler[1] =>
    LET came == [k \in DOMAIN requests |-> Requests(loaded)[k] - requests[k]]
    IN  /\ r.SP >= 65535 - 8
        /\ halted =>
             /\ mem[T] = came.INT /\ mem[T + 1] = came.NMI
             /\ r.SP = 65535
             /\ {ctl.IFF1, ctl.IFF2} = {~Runs({IsEnabled(\hF3)})}
             /\ Runs({IsEnabled(\hFB)}) => mem[R] = 1
             /\ Runs({IsEnabled(\hF3)}) => mem[R] = 0
             /\ Runs({Critical}) => mem[R] = 0
             /\ Runs({WaitTwice}) =>
                  IF r.PC = 1 THEN came.INT = 0 ELSE came.INT + came.NMI > 0

(* Every routine reaches its HALT, and none leaves it for good. *)
Terminates == <>[]halted
=============================================================================
