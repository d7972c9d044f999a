----------------------------- MODULE MCDatapath ------------------------------
(***************************************************************************)
(* Instances of Datapath for TLC: an assembler, words at the boundaries of *)
(* bytes and signs, and short programs that bring them to every            *)
(* instruction, together with command lines and binaries of every size.    *)
(***************************************************************************)
EXTENDS DatapathProperties

(* An assembler. *)

Encode(top, rs2, rs1, f3, rd, op) ==
  << op + 128 * (rd % 2),
     (rd \div 2) + 16 * f3 + 128 * (rs1 % 2),
     (rs1 \div 2) + 16 * (rs2 % 16),
     (rs2 \div 16) + 2 * top >>

AsR(op, top, f3, rd, rs1, rs2) == Encode(top, rs2, rs1, f3, rd, op)
AsI(op, f3, rd, rs1, imm) ==
  LET u == imm % 4096 IN Encode(u \div 32, u % 32, rs1, f3, rd, op)
AsS(f3, rs1, rs2, imm) ==
  LET u == imm % 4096 IN Encode(u \div 32, rs2, rs1, f3, u % 32, 35)
AsB(f3, rs1, rs2, imm) ==
  LET u == imm % 8192
  IN  Encode(64 * (u \div 4096) + ((u \div 32) % 64), rs2, rs1, f3,
             2 * ((u \div 2) % 16) + ((u \div 2048) % 2), 99)
AsU(op, rd, imm) ==
  Encode(imm \div 8192, (imm \div 256) % 32, (imm \div 8) % 32, imm % 8, rd, op)
AsJ(rd, imm) ==
  LET u == imm % 2^21
      Digit(i) == (u \div 2^i) % 2
  IN  AsU(111, rd, ((u \div 4096) % 256) + 256 * Digit(11) + 512 * ((u \div 2) % 1024)
                   + 2^19 * Digit(20))

\* lw rd, offset(x0): the data stands behind the program.
Lw(rd, offset) == AsI(3, 2, rd, 0, offset)
Nop == AsI(19, 0, 0, 0, 0)

-----------------------------------------------------------------------------
(* Command lines. *)

Arg(option, contains, text, number, digits) ==
  [option |-> option, contains |-> {option} \cup contains, text |-> text,
   number |-> number, digits |-> digits]

Base == Arg("base-isa", {}, "RV32I", <<>>, <<>>)
Size(n) == Arg("memory-size", {}, "n", <<n>>, <<>>)
Threads(n) == Arg("hardware-threads", {}, "n", <<n>>, <<>>)
Binary(contains) == Arg("binary", contains, "prog", <<>>, <<>>)
T == Arg("extensions", {}, "T", <<>>, <<>>)
HaltAt(digits) == Arg("halt", {}, "digits", <<>>, digits)
PauseArg == Arg("pause", {}, "", <<>>, <<>>)

Asked(size) == <<Base, Size(size), Threads(1), Binary({})>>

Run(command, contents) ==
  [argv |-> command, location |-> "prog", contents |-> contents]

\* The program of these words, in a memory that has room for more bytes.
Program(words, more) ==
  LET contents == FlattenSeq(words) IN Run(Asked(Len(contents) + more), contents)

-----------------------------------------------------------------------------
(* Operands at the boundaries of bytes and signs. *)

Edges ==
  { <<0, 0, 0, 0>>, <<1, 0, 0, 0>>, <<31, 0, 0, 0>>, <<32, 0, 0, 0>>, <<0, 128, 0, 0>>,
    <<254, 0, 1, 0>>, <<0, 255, 0, 0>>, <<255, 255, 255, 127>>, <<0, 0, 0, 128>>,
    <<4, 0, 0, 128>>, <<0, 7, 255, 255>>, <<255, 255, 255, 255>>, <<24, 1, 127, 255>> }

\* op x3, x1, x2 for every operation on two registers, reserved ones included,
\* every branch, and two where an erratum does not show: SUB to x0, and BLT to
\* the next instruction.
RegisterOps ==
  {AsR(51, 0, f3, 3, 1, 2) : f3 \in 0 .. 7} \cup {AsR(51, 32, f3, 31, 1, 2) : f3 \in {0, 4, 5}}
  \cup {AsB(f3, 1, 2, 8) : f3 \in 0 .. 7}
  \cup {AsR(51, 32, 0, 0, 1, 2), AsB(4, 1, 2, 4)}

RegisterRuns ==
  {Program(<<Lw(1, 12), Lw(2, 16), op, a, b>>, 5) :
     op \in RegisterOps, a \in Edges, b \in Edges}

Immediates == {0, 1, 4, 31, 127, 1055, 1024, 2047, -2048, -128, -1}

ImmediateOps ==
  {AsI(19, f3, 3, 1, imm) : f3 \in 0 .. 7, imm \in Immediates}
  \cup {AsI(127, f3, rd, 1, 0) : f3 \in 0 .. 2, rd \in {0, 3}}
  \cup {AsI(103, f3, 3, 1, imm) : f3 \in {0, 1}, imm \in {0, 1, 2, -1, -24}}
  \cup {AsI(op, f3, 3, 1, imm) : op \in {15, 115}, f3 \in {0, 1}, imm \in {0, 1, 2}}

ImmediateRuns ==
  {[Program(<<Lw(1, 8), op, a>>, 5) EXCEPT !.argv = Append(@, T)] :
     op \in ImmediateOps, a \in Edges}

-----------------------------------------------------------------------------
(* Immediates bit by bit: most of these jumps and accesses leave memory. *)

Signed(bits) == {0} \cup {2^i : i \in 0 .. bits - 2} \cup {-(2^i) : i \in 0 .. bits - 1}

ScatteredWords ==
  {AsJ(21, imm) : imm \in {i \in Signed(21) : i % 2 = 0}}
  \cup {AsB(0, 0, 10, imm) : imm \in {i \in Signed(13) : i % 2 = 0}}
  \cup {AsU(op, 1, imm % 2^20) : op \in {55, 23}, imm \in Signed(20)}
  \cup {AsS(f3, 0, 21, imm) : f3 \in 0 .. 3, imm \in Signed(12)}
  \cup {AsI(3, f3, 10, 0, imm) : f3 \in 0 .. 7, imm \in Signed(12)}
  \cup {<<op, 2, 0, 0>> : op \in {0, 127, 3}}

ScatteredRuns == {Program(<<Nop, Nop, word>>, 62) : word \in ScatteredWords}

\* Accesses around the last bytes of memory: 16 bytes of program and data, and
\* more behind; the address is in x1.
EdgeAccesses ==
  {AsS(f3, 1, 2, imm) : f3 \in 0 .. 3, imm \in {0, 1, 2, 3, 4, 5}}
  \cup {AsI(3, f3, 2, 1, imm) : f3 \in {0, 1, 2, 4, 5}, imm \in {0, 1, 2, 3, 4, 5}}
  \cup {AsI(103, 0, 0, 1, imm) : imm \in {0, 1, 4}}

EdgeRuns ==
  {Program(<<Lw(1, 12), AsI(19, 0, 2, 0, 200), access, <<16, 0, 0, 0>> >>, more) :
     access \in EdgeAccesses, more \in {1, 4, 5}}

-----------------------------------------------------------------------------
(* Command lines, halt addresses and binaries of every size. *)

Digits ==
  {<<0, 8>>, <<0, 8, 0, 0>>, <<0, 8, 0, 0, 0, 0>>, <<0, 4, 0, 0, 0, 0, 0, 1>>, <<0, 8, 0>>,
   <<NoDigit, NoDigit>>, <<0, 8, 0, NoDigit>>, <<4, NoDigit, 0, 0, NoDigit, 0>>}

CommandLines ==
  {Asked(32), <<Size(32), Binary({"halt"}), Threads(1), Size(24), Base, PauseArg>>,
   <<Base, Size(32), Threads(1), Binary({"memory-size"})>>,
   <<Base, Size(32), Binary({})>>, <<Size(32), Threads(1), Binary({})>>, <<>>,
   <<Base, Size(32), Threads(65536), Binary({})>>,
   Append(Asked(32), Arg("help", {}, "", <<>>, <<>>)),
   <<Base, Arg("memory-size", {}, "big", <<>>, <<>>), Threads(1), Binary({})>>,
   <<Base, Size(32), Threads(1), Arg("binary", {}, "elsewhere", <<>>, <<>>)>>,
   Asked(32) \o <<HaltAt(<<0, 4>>), Arg("memory-size", {}, "", <<>>, <<>>), HaltAt(<<0, 8>>),
                  Arg("halt", {}, "", <<>>, <<>>)>>}
  \cup {Append(Asked(32), HaltAt(digits)) : digits \in Digits}

CommandRuns ==
  {Run(command, FlattenSeq(<<Nop, Nop, Nop>>) \o Zeros(zeros)) :
     command \in CommandLines, zeros \in {0, 11, 12, 19, 20}}

\* The last four bytes of memory are an instruction.
LastWordRun == Run(Asked(12), Nop \o Nop \o <<19, 0, 0>>)

InterfaceRuns ==
  {Run(<<Base, Size(size), Threads(3), Binary({}), PauseArg>>, Nop) : size \in {5, 130}}

AllRuns ==
  RegisterRuns \cup ImmediateRuns \cup ScatteredRuns \cup EdgeRuns
  \cup CommandRuns \cup InterfaceRuns \cup {LastWordRun}

\* What a user may type after memA, memW and hID: the last ones fit no int.
SomeNumbers ==
  {-6, -2, 0, 2, 3, 5, 6, 200} \cup {UInt \div 2, UInt + 2, 3 - UInt, 2 * UInt - 2}

=============================================================================
