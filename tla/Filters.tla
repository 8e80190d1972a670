------------------------------- MODULE Filters -------------------------------
(* The filters of a 7z folder (Delta.c, Bra.c, Bra86.c, Bcj2.c): differences *)
(* of bytes, and addresses in branch instructions, which an archiver makes   *)
(* absolute and these functions relative again.  A filter is one function of *)
(* both directions (encoding), as the macros of Bra.c have it.  Words have   *)
(* their full widths; an instruction is [top, imm], its first byte and the   *)
(* other 24 bits.                                                            *)
EXTENDS Integers, Sequences
LOCAL INSTANCE SequencesExt

\* BR_CONVERT_VAL, in a field of that many bits.
ConvertVal(v, c, bits, encoding) == (IF encoding THEN v + c ELSE v - c) % 2^bits
\* A number between -2^(bits-1) and 2^(bits-1), as so many bits have it, counted from the least.
FromLeast(v, bits, wide) == (v + 2^(bits - 1)) % 2^wide

-----------------------------------------------------------------------------
(* Delta.c.                                                                  *)

\* In place: the byte before is decoded already. state has the bytes before the data, all 0 at first.
Delta_Init(delta) == [i \in 1..delta |-> 0]
Delta_Decode(state, data) ==
  LET decoded[i \in DOMAIN data] == (data[i] + (IF i <= Len(state) THEN state[i] ELSE decoded[i - Len(state)])) % 256
  IN [i \in DOMAIN data |-> decoded[i]]
Delta_Encode(state, data) == [i \in DOMAIN data |-> (data[i] - (state \o data)[i]) % 256]

-----------------------------------------------------------------------------
(* Bra.c.                                                                    *)

Imm(w, bits) == ((w.top % 2^(bits - 24)) * 2^24) + w.imm
WithImm(op, v, bits) == [top |-> (op * 2^(bits - 24)) + (v \div 2^24), imm |-> v % 2^24]
OpOf(w, bits) == w.top \div 2^(bits - 24)

\* bl: 26 bits of words; adrp: 21 bits of pages, of which 18 are converted.
BranchConv_ARM64(w, pc, encoding) ==
  LET far == FromLeast(w.imm \div 32, 16, 19)
      page == ConvertVal((4 * far) + ((w.top - 144) \div 32), pc \div 4096, 18, encoding)
  IN IF OpOf(w, 26) = 37 THEN WithImm(37, ConvertVal(Imm(w, 26), pc \div 4, 26, encoding), 26)
     ELSE IF w.top \notin {144, 176, 208, 240} \/ far >= 2^16 THEN w
     ELSE [top |-> 144 + (32 * (page % 4)),
           imm |-> (((((page \div 4) - 2^15) % 2^19) * 32) + (w.imm % 32))]

\* bl, relative to the second instruction behind it.
BranchConv_ARM(w, pc, encoding) ==
  IF w.top # 235 THEN w ELSE [w EXCEPT !.imm = ConvertVal(@, (pc + 8) \div 4, 24, encoding)]

\* bl without the absolute bit.
BranchConv_PPC(w, pc, encoding) ==
  IF OpOf(w, 26) # 18 \/ w.imm % 4 # 1 THEN w ELSE WithImm(18, ConvertVal(Imm(w, 26), pc, 26, encoding), 26)

\* call: 30 bits of words, of which 23 are converted when the others are the sign.
BranchConv_SPARC(w, pc, encoding) ==
  LET v == FromLeast(Imm(w, 30), 23, 30)
  IN IF OpOf(w, 30) # 1 \/ v >= 2^23 THEN w
     ELSE WithImm(1, (ConvertVal(v, pc \div 4, 23, encoding) - 2^22) % 2^30, 30)

\* bl of Thumb, two halfwords: the first that is one is converted, and both are behind it.
BranchConv_ARMT(program, encoding) ==
  LET Half(s, i) ==
        IF s.skip \/ i = Len(program) \/ program[i] \div 2048 # 30 \/ program[i + 1] \div 2048 # 31 THEN [s EXCEPT !.skip = FALSE]
        ELSE LET v == ConvertVal(((program[i] % 2048) * 2048) + (program[i + 1] % 2048), (2 * (i - 1) + 4) \div 2, 22, encoding)
             IN [skip |-> TRUE, out |-> [s.out EXCEPT ![i] = (30 * 2048) + (v \div 2048), ![i + 1] = (31 * 2048) + (v % 2048)]]
  IN FoldLeft(Half, [skip |-> FALSE, out |-> program], [i \in DOMAIN program |-> i]).out

\* A bundle has three slots; its template says which of them may be branches.
FirstBranch(template) == IF template \in {22, 23} THEN 1 ELSE IF template \in {18, 19} THEN 2 ELSE IF template \in {16, 17, 24, 25, 28, 29} THEN 3 ELSE 4
\* The 21 bits of an address of bundles lie apart, 20 and a sign; one carry reaches the other over
\* the bits between them.
ConvertSlot(slot, bundle, encoding) ==
  LET pc == (2 * bundle) % 2^22
      v == (slot.sign * 2^24) + (2 * slot.imm)
      x == IF encoding THEN v + pc ELSE (v - pc) + 2^22
      y == ((x \div 2^24) * 2^24) + (x % 2^22) + (7 * 2^21)
  IN IF slot.op # 5 \/ slot.kind # 0 THEN slot
     ELSE [slot EXCEPT !.sign = (y \div 2^24) % 2, !.imm = (y % 2^21) \div 2]
BranchConv_IA64(b, bundle, encoding) ==
  [b EXCEPT !.slots = [i \in DOMAIN @ |-> IF i < FirstBranch(b.template) THEN @[i] ELSE ConvertSlot(@[i], bundle, encoding)]]

-----------------------------------------------------------------------------
(* Bra86.c: call and jump, and an operand that is a small signed number.     *)
(* mask says which of the three bytes before were opcodes, none: 0.          *)

IsOpcode(byte) == byte \in {232, 233}
MsByte(byte) == byte \in {0, 255}
Operand(b, i) == b[i] + (b[i + 1] * 2^8) + (b[i + 2] * 2^16) + (((b[i + 3] + 1) % 256) * 2^24)
WithOperand(b, i, v) ==
  LET bytes == <<v % 256, (v \div 2^8) % 256, (v \div 2^16) % 256, ((v \div 2^24) - 1) % 256>>
  IN [k \in DOMAIN b |-> IF k \in i..i + 3 THEN bytes[k - i + 1] ELSE b[k]]
\* A mutant: opcodes before the operand are not looked at.
Converted86Once(v, mask, pc, encoding) == ConvertVal(v, pc, 25, encoding)
\* The operand may not become one that looks like an operand of an opcode before it.
Converted86(v, mask, pc, encoding) ==
  LET once == ConvertVal(v, pc, 25, encoding)
      n == 2^(8 * ((mask \div 2) + 1))
      flipped == once - (once % n) + (n - 1 - (once % n))
  IN IF mask = 0 \/ ~MsByte((once \div 2^(8 * (mask \div 2))) % 256) THEN once ELSE ConvertVal(flipped, pc, 25, encoding)

BranchConvSt_X86(bytes, encoding) ==
  LET Byte(s, i) ==
        LET mask == s.mask
            b == s.b
            isOperand == /\ mask <= 4 /\ mask # 3
                         /\ mask > 0 => ~MsByte(b[i + 1 + (mask \div 2)])
                         /\ MsByte(b[i + 4])
        IN IF s.skip > 0 THEN [s EXCEPT !.skip = @ - 1]
           ELSE IF ~IsOpcode(b[i]) THEN [s EXCEPT !.mask = @ \div 2]
           ELSE IF i + 4 > Len(b) THEN [s EXCEPT !.skip = Len(b)]
           ELSE IF ~isOperand THEN [s EXCEPT !.mask = (@ \div 2) + 4]
           ELSE [mask |-> 0, skip |-> 4, b |-> WithOperand(b, i + 1, Converted86(Operand(b, i + 1), mask, i + 4, encoding))]
  IN FoldLeft(Byte, [mask |-> 0, skip |-> 0, b |-> bytes], [i \in DOMAIN bytes |-> i]).b

-----------------------------------------------------------------------------
(* Bcj2.c: a main stream, the operands of calls and of jumps in two more,    *)
(* and the answers to "is it an address?" in a fourth one.  Bytes are what   *)
(* they begin; a byte of an operand may be any.                              *)

Bcj2Bytes == {"call", "jump", "0f", "8x", "other"}
Bcj2Init(main, call, jump, rc, size) ==
  [kind |-> "bcj2", at |-> "start", main |-> main, call |-> call, jump |-> jump, rc |-> rc, size |-> size,
   out |-> <<>>, last |-> "other", ip |-> 0, asked |-> {}, addresses |-> {}]
Stops(b, state) == [b EXCEPT !.at = state]

\* Five bytes begin the range coder, the first of them 0, and the others not all 255.
Bcj2Start(b) ==
  IF b.rc < 5 THEN {Stops(b, "RC"), Stops(b, "ERROR")} ELSE {Stops([b EXCEPT !.rc = @ - 5], at) : at \in {"loop", "ERROR"}}
\* The range is small now, or it is not.
Normalised(b) == {b} \cup (IF b.rc = 0 THEN {Stops(b, "RC")} ELSE {[b EXCEPT !.rc = @ - 1]})
IsBranch(last, byte) == byte \in {"call", "jump"} \/ (last = "0f" /\ byte = "8x")
\* Bytes are copied up to a branch, to the end of the main stream or to the end of the output.
Scanned(b) ==
  LET room == IF Len(b.main) < b.size - Len(b.out) THEN Len(b.main) ELSE b.size - Len(b.out)
      Before(k) == IF k = 1 THEN b.last ELSE b.main[k - 1]
      branches == {k \in 1..room : IsBranch(Before(k), b.main[k])}
      n == IF branches = {} THEN room ELSE CHOOSE k \in branches : \A j \in branches : k <= j
      after == [b EXCEPT !.main = SubSeq(@, n + 1, Len(@)), !.out = @ \o SubSeq(b.main, 1, n), !.ip = @ + n,
                         !.last = IF n = 0 THEN @ ELSE b.main[n]]
  IN IF branches # {} THEN [after EXCEPT !.at = "ask", !.asked = @ \cup {Len(after.out)}]
     ELSE Stops(after, IF after.main = <<>> THEN "MAIN" ELSE "ORIG")
\* Where the decoder stops behind a branch, the range is made larger if a byte is left.
Trailing(b) == {b} \cup (IF b.rc = 0 THEN {} ELSE {[b EXCEPT !.rc = @ - 1]})
\* The operand, as much of it as there is room for.
Address(b, top) ==
  LET n == IF b.size - Len(b.out) < 4 THEN b.size - Len(b.out) ELSE 4
      from == IF b.last = "call" THEN "call" ELSE "jump"
      after == [b EXCEPT ![from] = @ - 4, !.ip = @ + 4, !.out = @ \o SubSeq(<<"other", "other", "other", top>>, 1, n),
                         !.last = top, !.addresses = @ \cup {<<Len(b.out), b.ip + 4>>}, !.at = "loop"]
  IN IF b[from] = 0 THEN Trailing(Stops(b, from)) ELSE IF n = 4 THEN {after} ELSE Trailing(Stops(after, "ORIG"))

Bcj2Dec_Decode(b) ==
  IF b.at = "start" THEN Bcj2Start(b)
  ELSE IF b.at = "loop" THEN {IF n.at = "loop" THEN Scanned(n) ELSE n : n \in Normalised(b)}
  ELSE {Stops(b, "loop")} \cup UNION {Address(b, top) : top \in Bcj2Bytes}
Bcj2Running(b) == b.at \in {"start", "loop", "ask"}
\* SzFolder_Decode2: every stream is used up, the output is full and the main stream the last to be asked for.
Bcj2Finished(b) == b.at = "MAIN" /\ b.main = <<>> /\ b.call = 0 /\ b.jump = 0 /\ b.rc = 0 /\ Len(b.out) = b.size
=============================================================================
