---------------------------------- MODULE Asm ----------------------------------
(***************************************************************************)
(* The assembler (kernel/asm.c).  A source line is given as tokenize_line  *)
(* leaves it: an operation and its arguments.  An argument is a register,  *)
(* a memory operand, or any other word, which stands for the number        *)
(* local_parse_int makes of it (0 if it does not start with digits) and,   *)
(* as a label, for itself.                                                 *)
(***************************************************************************)
EXTENDS Integers, Sequences, SequencesExt, FiniteSetsExt

CONSTANTS
    MaxLabels,  \* MAX_LABELS
    MaxFixups,  \* MAX_LINES, the number of jumps that can be patched
    CodeSize    \* CODE_BUF_SIZE

Reg(n) == [kind |-> "reg", n |-> n]
Mem(n, disp) == [kind |-> "mem", n |-> n, disp |-> disp]
Word(text, v) == [kind |-> "word", text |-> text, v |-> v]

Jumps == [jmp |-> 235, je |-> 116, jne |-> 117, jl |-> 124, jge |-> 125, jg |-> 127, jle |-> 126]
Alu == [add |-> [rr |-> 1, ext |-> 0], sub |-> [rr |-> 41, ext |-> 5], cmp |-> [rr |-> 57, ext |-> 7]]

-----------------------------------------------------------------------------
(* The encoders: the bytes of one instruction.                             *)
Byte(v, i) == LET shifted[k \in 0 .. i] == IF k = 0 THEN v ELSE shifted[k - 1] \div 256 IN shifted[i] % 256
emit_imm32(v) == [i \in 1 .. 4 |-> Byte(v, i - 1)]
emit_imm64(v) == [i \in 1 .. 8 |-> Byte(v, i - 1)]

(* REX.W with R for the reg field and B for the rm field.                  *)
Rex(reg, rm) == 72 + (IF reg >= 8 THEN 4 ELSE 0) + (IF rm >= 8 THEN 1 ELSE 0)
ModRm(mod, reg, rm) == 64 * mod + 8 * (reg % 8) + (rm % 8)

enc_mov_reg_imm64(dst, imm) == <<Rex(0, dst), 184 + (dst % 8)>> \o emit_imm64(imm)
enc_mov_reg_reg(dst, src) == <<Rex(src, dst), 137, ModRm(3, src, dst)>>
enc_alu_reg_reg(opcode, dst, src) == <<Rex(src, dst), opcode, ModRm(3, src, dst)>>
enc_alu_reg_imm32(ext, dst, imm) == <<Rex(0, dst), 129, ModRm(3, ext, dst)>> \o emit_imm32(imm)
enc_push_pop(base, reg) == (IF reg >= 8 THEN <<65>> ELSE <<>>) \o <<base + (reg % 8)>>
enc_mov_mem(load, reg, mem) ==
    <<Rex(reg, mem.n), IF load THEN 139 ELSE 137, ModRm(2, reg, mem.n)>>
    \o (IF mem.n % 8 = 4 THEN <<36>> ELSE <<>>) \o emit_imm32(mem.disp)

(* The instruction of a line that is neither a label nor a jump; no bytes  *)
(* if there is an error in it.                                             *)
Mov(a, b) ==
    CASE a.kind = "mem" -> IF b.kind = "reg" THEN enc_mov_mem(FALSE, b.n, a) ELSE <<>>
      [] a.kind = "reg" /\ b.kind = "mem" -> enc_mov_mem(TRUE, a.n, b)
      [] a.kind = "reg" /\ b.kind = "reg" -> enc_mov_reg_reg(a.n, b.n)
      [] a.kind = "reg" /\ b.kind = "word" -> enc_mov_reg_imm64(a.n, b.v)
      [] a.kind = "word" -> <<>>

(* A memory operand where a number is expected counts as a word: 0.        *)
AluOp(op, a, b) ==
    CASE a.kind # "reg" -> <<>>
      [] a.kind = "reg" /\ b.kind = "reg" -> enc_alu_reg_reg(Alu[op].rr, a.n, b.n)
      [] OTHER -> enc_alu_reg_imm32(Alu[op].ext, a.n, IF b.kind = "word" THEN b.v ELSE 0)

Instruction(line) ==
    LET n == Len(line.args) IN
    CASE line.op = "mov" -> IF n = 2 THEN Mov(line.args[1], line.args[2]) ELSE <<>>
      [] line.op \in DOMAIN Alu -> IF n = 2 THEN AluOp(line.op, line.args[1], line.args[2]) ELSE <<>>
      [] line.op \in {"push", "pop"} ->
           IF n >= 1 /\ line.args[1].kind = "reg"
           THEN enc_push_pop(IF line.op = "push" THEN 80 ELSE 88, line.args[1].n) ELSE <<>>
      [] line.op \in {"int80", "syscall"} -> <<205, 128>>
      [] line.op = "ret" -> <<195>>
      [] OTHER -> <<>>

-----------------------------------------------------------------------------
(* struct assembler_state.  error is the line of the first error, 0 for    *)
(* none.  Bytes that do not fit are dropped.                               *)
Empty == [code |-> <<>>, labels |-> <<>>, fixups |-> <<>>, error |-> 0]

emit(st, bytes) ==
    LET all == st.code \o bytes
    IN  [st EXCEPT !.code = SubSeq(all, 1, IF Len(all) < CodeSize THEN Len(all) ELSE CodeSize)]

KeepsLast(st, n) == [st EXCEPT !.error = n]
fail(st, n) == IF st.error = 0 THEN [st EXCEPT !.error = n] ELSE st

find_label(st, name) == {l \in ToSet(st.labels) : l.name = name}

add_label(st, name, n) ==
    IF find_label(st, name) # {} \/ Len(st.labels) >= MaxLabels THEN fail(st, n)
    ELSE [st EXCEPT !.labels = Append(@, [name |-> name, offset |-> Len(st.code)])]

(* The displacement counts from the byte after the jump.                   *)
FromJump(st) == Len(st.code)
AfterJump(st) == Len(st.code) + 2
AddJump(st, op, name, n) ==
    LET jump == emit(st, <<Jumps[op], 0>>) IN
    IF Len(st.fixups) >= MaxFixups THEN jump
    ELSE [jump EXCEPT !.fixups = Append(@, [patch |-> Len(st.code) + 2, label |-> name,
                                            next |-> AfterJump(st), line |-> n])]

(* Pass 1, one line.                                                       *)
PassOne(st, line, n) ==
    CASE line.op = ":" -> add_label(st, line.args[1], n)
      [] line.op \in DOMAIN Jumps ->
           IF Len(line.args) = 1 THEN AddJump(st, line.op, line.args[1], n) ELSE fail(st, n)
      [] line.op = "blank" -> st
      [] OTHER -> IF Instruction(line) = <<>> THEN fail(st, n) ELSE emit(st, Instruction(line))

(* Pass 2, one jump; it ends at the first error.                           *)
PassTwo(st, fx) ==
    LET label == CHOOSE l \in find_label(st, fx.label) : TRUE
        rel == label.offset - fx.next
    IN  IF st.error # 0 THEN st
        ELSE IF find_label(st, fx.label) = {} \/ rel < -128 \/ rel > 127 THEN fail(st, fx.line)
        ELSE [st EXCEPT !.code[fx.patch] = rel % 256]

asm_assemble(lines, capacity) ==
    LET one == FoldLeft(LAMBDA st, n : PassOne(st, lines[n], n), Empty, [n \in DOMAIN lines |-> n])
        two == FoldLeft(PassTwo, one, one.fixups)
    IN  IF two.error # 0 THEN [ok |-> FALSE, line |-> two.error, code |-> <<>>]
        ELSE IF Len(two.code) > capacity THEN [ok |-> FALSE, line |-> 0, code |-> <<>>]
        ELSE [ok |-> TRUE, line |-> 0, code |-> two.code]

-----------------------------------------------------------------------------
(* The reference: what the processor reads in the bytes.                   *)
Signed(bytes) ==
    LET high == {bytes[i] : i \in 3 .. Len(bytes)} IN
    CASE high = {0} -> bytes[1] + 256 * bytes[2]
      [] high = {255} -> bytes[1] + 256 * bytes[2] - 65536

Decode(code, i) ==
    LET rex == code[i] \in 64 .. 79
        at == IF rex THEN i + 1 ELSE i
        opcode == code[at]
        modrm == code[at + 1]
        mod == modrm \div 64
        reg == ((modrm \div 8) % 8) + (IF rex /\ (code[i] \div 4) % 2 = 1 THEN 8 ELSE 0)
        high == IF rex /\ code[i] % 2 = 1 THEN 8 ELSE 0
        rm == (modrm % 8) + high
        sib == IF modrm % 8 = 4 THEN 1 ELSE 0
        field(from, n) == Signed(SubSeq(code, from, from + n - 1))
        rr == {op \in DOMAIN Alu : Alu[op].rr = opcode}
        ri == {op \in DOMAIN Alu : Alu[op].ext = (modrm \div 8) % 8}
        jump == {op \in DOMAIN Jumps : Jumps[op] = opcode}
    IN  CASE opcode \in 184 .. 191 ->
               [op |-> "mov", args |-> <<Reg(opcode - 184 + high), field(at + 1, 8)>>, next |-> at + 9]
          [] opcode = 137 /\ mod = 3 -> [op |-> "mov", args |-> <<Reg(rm), Reg(reg)>>, next |-> at + 2]
          [] opcode = 137 /\ mod = 2 ->
               [op |-> "mov", args |-> <<Mem(rm, field(at + 2 + sib, 4)), Reg(reg)>>, next |-> at + 6 + sib]
          [] opcode = 139 /\ mod = 2 ->
               [op |-> "mov", args |-> <<Reg(reg), Mem(rm, field(at + 2 + sib, 4))>>, next |-> at + 6 + sib]
          [] rr # {} -> [op |-> CHOOSE op \in rr : TRUE, args |-> <<Reg(rm), Reg(reg)>>, next |-> at + 2]
          [] opcode = 129 ->
               [op |-> CHOOSE op \in ri : TRUE, args |-> <<Reg(rm), field(at + 2, 4)>>, next |-> at + 6]
          [] opcode \in 80 .. 87 -> [op |-> "push", args |-> <<Reg(opcode - 80 + high)>>, next |-> at + 1]
          [] opcode \in 88 .. 95 -> [op |-> "pop", args |-> <<Reg(opcode - 88 + high)>>, next |-> at + 1]
          [] opcode = 205 -> [op |-> "int80", args |-> <<>>, next |-> at + 2]
          [] opcode = 195 -> [op |-> "ret", args |-> <<>>, next |-> at + 1]
          [] jump # {} ->
               [op |-> CHOOSE op \in jump : TRUE,
                args |-> <<at + 2 + (IF modrm < 128 THEN modrm ELSE modrm - 256)>>, next |-> at + 2]
          [] OTHER -> [op |-> "unknown", args |-> <<>>, next |-> Len(code) + 1]

RECURSIVE Disassemble(_, _)
Disassemble(code, i) ==
    IF i > Len(code) THEN <<>>
    ELSE LET d == Decode(code, i) IN <<[at |-> i] @@ d>> \o Disassemble(code, d.next)
=============================================================================
