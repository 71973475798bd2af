------------------------------- MODULE M68kGuest -------------------------------
(***************************************************************************)
(* Guest programs whose operands are in memory.  A trial lays operands out *)
(* and says, by its own arithmetic, where an addressing mode has to find   *)
(* them; the core of module M68kControl executes a few instructions, and    *)
(* the properties say what must be in registers and memory then, and what  *)
(* must be as it was.  The routines on registers alone run, too.           *)
(***************************************************************************)
EXTENDS M68kControl, FiniteSets

Ram(n) == [i \in 0 .. n - 1 |-> (i + 1) % 2^BYTE]
Pages == 32                                    \* bytes of memory in most trials
AtRest == [r \in REG_A |-> CASE r = 8 -> 16 [] r = 9 -> 24 [] r = SP -> 28]
Above(w) == 2^LONG - 2^w                       \* the bits above an operand, all set

\* The number in n bytes of m, stride bytes apart.
NumberOf(m, at, n, stride) ==
    LET f[i \in 0 .. n] == IF i = 0 THEN 0 ELSE f[i - 1] * 2^BYTE + m[at + stride * (i - 1)]
    IN  f[n]
NumberAt(m, at, w) == NumberOf(m, at, Bytes(w), 1)

Limits(w) == {0, 1, 2^(w - 1), 2^w - 1}
Minus(w, n) == 2^w - n
Apart(w, r) == IF w = BYTE /\ r = SP THEN 2 ELSE Bytes(w)     \* of stacked operands

-----------------------------------------------------------------------------
(* Ways to an operand of n bytes at p: with address register r and data     *)
(* register i as index.  Before and after: what the address register must   *)
(* be.  An immediate operand is p itself, and so is the one in an address   *)
(* register.                                                                *)

Pointer(r) == IF r = 9 THEN 28 ELSE 20         \* where indirect modes find a pointer

Plain(mode, r, before, after) ==
    [x |-> [mode |-> mode, r |-> r], before |-> before, after |-> after, index |-> 0, pointer |-> 0]
Displace(way, disp) == [way EXCEPT !.x = @ @@ [disp |-> disp]]
Indexed(mode, r, before, i, index, long, scale, disp) ==
    [x |-> [mode |-> mode, r |-> r, indirect |-> "brief", index |-> i, long |-> long,
            scale |-> scale, disp |-> disp],
     before |-> before, after |-> before, index |-> index, pointer |-> 0]
Full(r, before, i, kind, noBase, noIndex, disp, outer, pointer) ==
    [x |-> [mode |-> "ix", r |-> r, indirect |-> kind, index |-> i, long |-> FALSE, scale |-> 1,
            noBase |-> noBase, noIndex |-> noIndex, disp |-> disp, outer |-> outer],
     before |-> before, after |-> before, index |-> 1, pointer |-> pointer]

Way(name, n, p, r, i) ==
        CASE name = "ai" -> Plain("ai", r, p, p)
          [] name = "pi" -> Plain("pi", r, p, p + n)
          [] name = "pd" -> Plain("pd", r, p + n, p)
          [] name = "back" -> Displace(Plain("di", r, p + 3, p + 3), Minus(WORD, 3))
          [] name = "forth" -> Displace(Plain("di", r, p - 3, p - 3), 3)
          [] name = "word index" ->               \* -1, scaled; the upper word is not looked at
                 Indexed("ix", r, p + 1, i, 2^WORD * 2 + Minus(WORD, 1), FALSE, 1, 1)
          [] name = "long index" -> Indexed("ix", r, p - 1, i, 3, TRUE, 0, Minus(BYTE, 2))
          [] name = "sum" -> Full(r, p + 4, i, "none", FALSE, FALSE, Minus(LONG, 6), 0, 0)
          [] name = "no base" -> Full(r, 1, i, "none", TRUE, TRUE, p, 0, 0)
          [] name = "post" -> Full(r, Pointer(r) - 1, i, "post", FALSE, FALSE, 1, 3, (p - 5) % 2^LONG)
          [] name = "pre" -> Full(r, Pointer(r) - 4, i, "pre", FALSE, FALSE, 2, Minus(LONG, 6), p + 6)
          [] name = "aw" -> Displace(Plain("aw", r, AtRest[r], AtRest[r]), p)
          [] name = "al" -> Displace(Plain("al", r, AtRest[r], AtRest[r]), p)
          [] name = "pc" -> [Plain("pcdi", r, AtRest[r], AtRest[r]) EXCEPT !.x = @ @@ [pc |-> p + 2, disp |-> Minus(WORD, 2)]]
          [] name = "pc index" ->
                 LET way == Indexed("pcix", r, AtRest[r], i, 3, TRUE, 0, Minus(BYTE, 1))
                 IN  [way EXCEPT !.x = @ @@ [pc |-> p - 2]]
          [] name = "d" -> Plain("d", 1, AtRest[r], AtRest[r])
          [] name = "a" -> Plain("a", r, p, p)
          [] name = "i" -> [Plain("i", r, AtRest[r], AtRest[r]) EXCEPT !.x = @ @@ [value |-> p]]

Alterable == {"ai", "pi", "pd", "back", "forth", "word index", "long index", "sum", "no base",
              "post", "pre", "aw", "al"}
Relative == {"pc", "pc index"}
Stepping == {"pi", "pd"}
Control == (Alterable \cup Relative) \ Stepping

\* The same operand again, after the register has been stepped.
Again(x) == IF x.mode = "pi" THEN [x EXCEPT !.mode = "pd"]
            ELSE IF x.mode = "pd" THEN [x EXCEPT !.mode = "pi"] ELSE x

\* The memory a way needs besides its operand.
For(way, r) == IF way.pointer = 0 THEN Ram(Pages) ELSE WriteMemory(Ram(Pages), LONG, Pointer(r), way.pointer)

Guest(c, registers, addresses, m) == [code |-> c, d |-> registers, areg |-> addresses, mem |-> m]
Four(a, b, c, e) == [r \in REG_D |-> <<a, b, c, e>>[r + 1]]

\* An instruction of size w with operand x, data register r and number q.
On(op, form, w, x, r, q) == [op |-> op, form |-> form, w |-> w, ea |-> x, d |-> r, q |-> q]
MoveTo(w, x, y) == [op |-> "move", w |-> w, ea |-> x, to |-> y]
Sizes == {BYTE, WORD, LONG}
-----------------------------------------------------------------------------
(* Trials of one operand: an instruction and the one that takes its effect  *)
(* back, if there is one                                                    *)

OperandAt == 4
ShiftNames == [asl |-> "ASL", asr |-> "ASR", lsl |-> "LSL", lsr |-> "LSR",
               rol |-> "ROL", ror |-> "ROR", roxl |-> "ROXL", roxr |-> "ROXR"]
BitNames == {"btst", "bset", "bclr", "bchg"}
Unary == {"neg", "not", "clr", "tst"}
OperandOps == {"add", "sub", "and", "or", "eor", "cmp", "movea"} \cup Unary \cup BitNames \cup DOMAIN ShiftNames
Forms(op) ==
    CASE op \in {"add", "sub"} -> {"er", "re", "imm", "quick", "a"}
      [] op \in {"and", "or"} -> {"er", "re", "imm"}
      [] op = "eor" -> {"re", "imm"}
      [] op = "cmp" -> {"er", "imm", "a"}
      [] op = "movea" -> {"a"}
      [] op \in BitNames -> {"r", "s"}
      [] OTHER -> {"one"}
SizesOf(k) == CASE k.op \in DOMAIN ShiftNames -> {WORD}
                [] k.form \in {"r", "s"} -> {BYTE}
                [] k.form = "a" \/ k.way = "a" -> {WORD, LONG}
                [] OTHER -> Sizes
Ways(k) == CASE k.form \in {"er", "a"} -> Alterable \cup Relative \cup {"d", "a", "i"}
             [] k.form = "quick" -> Alterable \cup {"d", "a"}
             [] k.op = "tst" -> Alterable \cup Relative \cup {"d", "i"}
             [] k.form = "imm" -> Alterable \cup {"d"} \cup (IF k.op = "cmp" THEN Relative ELSE {})
             [] k.op = "btst" -> Alterable \cup Relative
             [] k.op \in {"neg", "not", "clr"} \/ k.form = "re" -> Alterable \cup {"d"}
             [] OTHER -> Alterable
Usual(k) == k.r = SP => k.way \in Stepping
Kinds == {k \in [name : {"operand"}, op : OperandOps, form : {"er", "re", "imm", "quick", "a", "one", "r", "s"},
                 w : Sizes, way : Alterable \cup Relative \cup {"d", "a", "i"}, r : {8, SP}] :
              k.form \in Forms(k.op) /\ k.way \in Ways(k) /\ k.w \in SizesOf(k) /\ Usual(k)}
\* The other operand
Others(k) == CASE k.form \in {"one", "a"} -> {0}
               [] k.form = "quick" -> {1, 2^BYTE - 1}
               [] k.form \in {"r", "s"} -> {0, 1, BYTE + 1}
               [] OTHER -> Limits(k.w)

Undo(op) == CASE op = "add" -> "sub" [] op = "sub" -> "add" [] op = "rol" -> "ror" [] op = "ror" -> "rol"
                 [] op = "roxl" -> "roxr" [] op = "roxr" -> "roxl" [] OTHER -> op
Lasting == {"and", "or", "clr", "movea", "bset", "bclr", "asl", "asr", "lsl", "lsr"}

OperandPlace(t) == IF t.way \in {"i", "a"} THEN t.a ELSE OperandAt
OperandWay(t) == Way(t.way, Apart(t.w, t.r), OperandPlace(t), t.r, 3)
WithOperand(t) == WriteMemory(For(OperandWay(t), t.r), t.w, OperandAt, t.a)
AreasFor(t) == [AtRest EXCEPT ![t.r] = OperandWay(t).before]
Operated(t) ==
    LET x == OperandWay(t).x
        ins(op, y) == On(op, t.form, t.w, y, IF t.form = "a" THEN 9 ELSE 0, t.b)
    IN  Guest(<<ins(t.op, x), ins(Undo(t.op), Again(x))>>,
              Four(Above(t.w) + t.b, Above(t.w) + t.a, 0, OperandWay(t).index), AreasFor(t), WithOperand(t))

\* A product, and the division that takes it back.
Products == {k \in [name : {"product back"}, w : {WORD, LONG}, signed : BOOLEAN, quad : BOOLEAN,
                    way : Alterable \cup Relative \cup {"d", "i"}, r : {8, SP}] :
                 Usual(k) /\ (k.w = WORD => k.quad)}
Multiplied(t) ==
    LET x == OperandWay(t).x
        long == [lo |-> 0, hi |-> 2, signed |-> t.signed, quad |-> t.quad]
        ins(op, y) == On(op, "", t.w, y, 0, 0) @@ long
        names == IF t.w = LONG THEN <<"mull", "divl">>
                 ELSE IF t.signed THEN <<"muls", "divs">> ELSE <<"mulu", "divu">>
    IN  Guest(<<ins(names[1], x), ins(names[2], Again(x))>>,
              Four(t.b, Above(t.w) + t.a, 0, OperandWay(t).index), AreasFor(t), WithOperand(t))

\* Numbers of two units, handled from the end: source at 0, destination at 12.
Double(w) == {2^w * hi + lo : hi, lo \in Limits(w)}
Chains == {k \in [name : {"chain"}, op : {"addx", "subx", "negx", "roxl"}, w : Sizes,
                  s : {8, SP}, t : {9, SP}] :
               k.s # k.t /\ (k.op = "roxl" => k.w = WORD)}
Units(m, at, w, r) == NumberAt(m, at, w) * 2^w + NumberAt(m, at + Apart(w, r), w)
WithUnits(m, at, w, r, v) == WriteMemory(WriteMemory(m, w, at, v \div 2^w), w, at + Apart(w, r), v % 2^w)
Chained(t) ==
    LET down(r) == [mode |-> "pd", r |-> r]
        ins == IF t.op \in {"addx", "subx"} THEN On(t.op, "", t.w, down(t.s), 0, 0) @@ [to |-> down(t.t)]
               ELSE On(t.op, "", t.w, down(t.t), 0, 0)
    IN  Guest(<<ins, ins>>, Four(0, 0, 0, 0),
              [AtRest EXCEPT ![t.s] = 2 * Apart(t.w, t.s), ![t.t] = 12 + 2 * Apart(t.w, t.t)],
              WithUnits(WithUnits(Ram(Pages), 0, t.w, t.s, t.a), 12, t.w, t.t, t.b))

-----------------------------------------------------------------------------
(* Trials of moves: single operands, lists of registers, blocks             *)

Target(to) == IF to = "aw" THEN 0 ELSE 12
From(t) == Way(t.from, Apart(t.w, t.s), OperandPlace([way |-> t.from, a |-> t.a]), t.s, 3)
To(t) == LET way == Way(t.to, Apart(t.w, t.t), Target(t.to), t.t, 2)
         IN  IF t.to = "d" THEN [way EXCEPT !.x.r = 0] ELSE way
Transfers == {k \in [name : {"move"}, w : Sizes, from : Alterable \cup Relative \cup {"d", "a", "i"}, s : {8, SP},
                  to : Alterable \cup {"d"}, t : {9, SP}] :
               /\ k.s = SP => k.from \in Stepping /\ k.t # SP
               /\ k.t = SP => k.to \in Stepping
               /\ k.from = "a" => k.w # BYTE}
Moved(t) ==
    LET pointers == WriteMemory(For(From(t), 8), LONG, Pointer(9),
                                IF To(t).pointer = 0 THEN 1 ELSE To(t).pointer)
    IN  Guest(<<MoveTo(t.w, From(t).x, To(t).x)>>, Four(Above(t.w), Above(t.w) + t.a, To(t).index, From(t).index),
              [AtRest EXCEPT ![t.s] = From(t).before, ![t.t] = To(t).before],
              WriteMemory(pointers, t.w, OperandAt, t.a))

\* Source and destination step the same register.
Twice == [name : {"twice"}, w : Sizes, from : Stepping, to : Stepping, r : {8, SP}]
Step1(t) == Way(t.from, Apart(t.w, t.r), 12, t.r, 3)
Step2(t) == LET n == Apart(t.w, t.r) IN
            IF t.to = "pi" THEN [at |-> Step1(t).after, after |-> Step1(t).after + n]
            ELSE [at |-> Step1(t).after - n, after |-> Step1(t).after - n]
MovedTwice(t) ==
    Guest(<<MoveTo(t.w, Step1(t).x, [mode |-> t.to, r |-> t.r])>>, Four(0, 0, 0, 0),
          [AtRest EXCEPT ![t.r] = Step1(t).before], WriteMemory(Ram(Pages), t.w, 12, t.a))

\* Registers of a list are saved, and loaded into others.
Lists == {L \in SUBSET REG_DA : Cardinality(L) <= 4}
Into(L) == CASE Cardinality(L) = 0 -> {} [] Cardinality(L) = 1 -> {9} [] Cardinality(L) = 2 -> {1, 9}
             [] Cardinality(L) = 3 -> {0, 1, 9} [] Cardinality(L) = 4 -> {0, 1, 2, 9}
Loads(save) == CASE save = "pd" -> {"pi"} [] save = "al" -> {"al"} \cup Relative [] OTHER -> {save}
Savings == {k \in [name : {"registers"}, w : {WORD, LONG}, save : Alterable \ {"pi"},
                  load : {"pi"} \cup (Control \cup Relative), r : {8, SP}] :
               k.load \in Loads(k.save) /\ (k.r = SP => k.save = "pd")}
Extent(t) == Cardinality(t.list) * Bytes(t.w)
Save(t) == Way(t.save, Extent(t), OperandAt, t.r, 3)
Load(t) == Way(t.load, Extent(t), OperandAt, t.r, 3)
Listed(t) ==
    LET ins(form, x, L) == On("movem", form, t.w, x, 0, 0) @@ [list |-> L]
    IN  Guest(<<ins("re", Save(t).x, t.list), ins("er", Load(t).x, Into(t.list))>>,
              Four(129, 15, 8, Load(t).index), [AtRest EXCEPT ![t.r] = Save(t).before], For(Save(t), t.r))

\* Every second byte from 4 on.
Peripheral == [name : {"bytes"}, w : {WORD, LONG}, disp : {3, Minus(WORD, 3)}]
Spread(t) ==
    LET x == [mode |-> "di", r |-> 8, disp |-> t.disp]
    IN  Guest(<<On("movep", "re", t.w, x, 0, 0), On("movep", "er", t.w, x, 1, 0)>>,
              Four(Above(t.w) + t.a, 2^LONG - 1, 0, 0), [AtRest EXCEPT ![8] = IF t.disp = 3 THEN 1 ELSE 7], Ram(Pages))

\* A block of n operands is moved by delta bytes, which may be less than it is
\* long; the loop begins at the end where nothing is overwritten too early.
Blocks == [name : {"copy"}, w : Sizes, n : 1 .. 3, delta : -4 .. 4]
Length(t) == t.n * Bytes(t.w)
Copied(t) ==
    LET up == t.delta <= 0
        by(r) == [mode |-> IF up THEN "pi" ELSE "pd", r |-> r]
        first == IF up THEN 8 ELSE 8 + Length(t)
    IN  Guest(<<MoveTo(t.w, by(8), by(9)), Branch("DBcc", 1, "F", 1)>>, Four(0, t.n - 1, 0, 0),
              [AtRest EXCEPT ![8] = first, ![9] = first + t.delta], Ram(Pages))

\* The address of an operand is loaded, pushed, fetched and exchanged.
Addressed(t) ==
    LET x == Way(t.way, 0, OperandAt, 8, 3)
        ins(op, y, r) == On(op, "", LONG, y, r, 0)
        exg(s, r) == ins("exg", x.x, r) @@ [s |-> s]
    IN  Guest(<<ins("lea", x.x, 9), ins("pea", x.x, 0), ins("movea", [mode |-> "pi", r |-> SP], 8),
                exg(0, 9), exg(1, 2), exg(8, 9)>>,
              Four(77, 1, 2, x.index), [AtRest EXCEPT ![8] = x.before], For(x, 8))

-----------------------------------------------------------------------------
(* Trials of subroutines: D1 := 1 + ... + D0, recursively                   *)

Stack == 48
Elsewhere == 200
Frames == [name : {"frames"}, w : {WORD, LONG}, pushed : BOOLEAN, n : 0 .. 3]
Goto(op, w, cc, at, to) == [op |-> op, w |-> w, cc |-> cc, disp |-> Mask(w, to - at - 1)]
Local == [mode |-> "di", r |-> 8, disp |-> Minus(WORD, 2)]
Argument == [mode |-> "ix", r |-> 8, indirect |-> "none", index |-> 0, long |-> TRUE, scale |-> 0,
             noBase |-> FALSE, noIndex |-> TRUE, disp |-> 8, outer |-> 0]
Data(r) == [mode |-> "d", r |-> r]
At(at) == [mode |-> "al", r |-> 8, disp |-> at]
Frame(w, size) == [op |-> "link", w |-> w, d |-> 8, disp |-> Minus(w, size) % 2^w]
Simple(op, r, disp) == [op |-> op, d |-> r, disp |-> disp]

\* The number is in D0, and in a local variable of each frame ...
WithLocal(w) ==
    <<Goto("bsr", w, "T", 1, 3), On("jmp", "", LONG, At(13), 0, 0),
      Frame(w, 2),
      MoveTo(WORD, Data(0), Local), On("tst", "", WORD, Data(0), 0, 0),
      Goto("bcc", w, "NE", 6, 8), Goto("bra", w, "T", 7, 10),
      On("sub", "quick", WORD, Data(0), 0, 1), Goto("bsr", w, "T", 9, 3),
      On("add", "er", WORD, Local, 1, 0),
      Simple("unlk", 8, 0), Simple("rts", 0, 0)>>
\* ... or is an argument on the stack, which the subroutine drops.
WithArgument(w, n) ==
    <<On("pea", "", LONG, At(n), 0, 0), On("jsr", "", LONG, At(4), 0, 0), On("jmp", "", LONG, At(13), 0, 0),
      Frame(w, 0),
      MoveTo(LONG, Argument, Data(0)), Goto("bcc", w, "EQ", 6, 11),
      On("add", "er", LONG, Data(0), 1, 0),
      On("sub", "quick", LONG, Data(0), 0, 1), MoveTo(LONG, Data(0), [mode |-> "pd", r |-> SP]),
      On("jsr", "", LONG, At(4), 0, 0),
      Simple("unlk", 8, 0), Simple("rtd", 0, 4)>>
Called(t) ==
    Guest(IF t.pushed THEN WithArgument(t.w, t.n) ELSE WithLocal(t.w),
          Four(IF t.pushed THEN 0 ELSE t.n, 0, 0, 0), [AtRest EXCEPT ![SP] = Stack, ![8] = Elsewhere], Ram(Stack + 4))

\* A frame whose pointer is the stack pointer itself.
OwnFrame(w) == Guest(<<[Frame(w, 0) EXCEPT !.d = SP], Simple("unlk", SP, 0)>>, Four(0, 0, 0, 0), AtRest, Ram(Pages))

-----------------------------------------------------------------------------
(* Trials of bit fields: offset o in D2, width k in D3, index in D1         *)

FieldWidth(t) == IF t.k = 0 THEN LONG ELSE t.k
MemoryFields == {t \in [name : {"memory field"}, op : {"bftst", "bfset", "bfclr", "bfchg", "bfins", "bfextu"},
                        way : Control \cup Relative, o : -9 .. 9, k : 0 .. LONG, set : BOOLEAN,
                        v : {0, 1, 90, 2^LONG - 1}] :
                     /\ t.way = "ai" \/ (t.o \in {-3, 2} /\ t.k \in {3, LONG})
                     /\ t.op # "bfins" => t.v = 0
                     /\ t.way \in Relative => t.op \in {"bftst", "bfextu"}
                     /\ t.op = "bfextu" \/ (t.o % BYTE) + FieldWidth(t) <= LONG}
FieldAt(t) == IF t.way = "aw" THEN 6 ELSE 12
Fields(t) ==
    LET x == Way(t.way, 0, FieldAt(t), 8, 1)
        ins(op) == On(op, "", LONG, x.x, 0, 0) @@ [o |-> 2, k |-> 3]
        found == <<ins("bfextu"), ins("bfexts"), ins("bfffo")>>
        pattern == Ram(Pages)
    IN  Guest(CASE t.op = "bfins" -> <<ins("bfins")>> \o found
                [] t.op = "bfextu" -> found
                [] OTHER -> <<ins(t.op)>>,
              Four(t.v, x.index, Mask(LONG, t.o), t.k), [AtRest EXCEPT ![8] = x.before],
              IF t.set THEN [i \in DOMAIN pattern |-> IF i \in 20 .. 23 THEN For(x, 8)[i] ELSE 3 - pattern[i]]
                       ELSE For(x, 8))

-----------------------------------------------------------------------------
(* Trials of decisions                                                     *)

\* What a condition does after D1 is compared with D0.
Deciding == [name : {"decide"}, then : {"trap"}, w : {0, WORD, LONG}, cc : Compares, way : {"ai"}, r : {8}]
            \cup [name : {"decide"}, then : {"bcc"}, w : {WORD, LONG}, cc : Compares, way : {"ai"}, r : {8}]
            \cup {k \in [name : {"decide"}, then : {"scc"}, w : {BYTE}, cc : Compares, way : Alterable, r : {8, SP}] :
                      Usual(k)}
Decided(t) ==
    LET after == CASE t.then = "trap" -> <<[op |-> "trap", w |-> t.w, cc |-> t.cc]>>
                   [] t.then = "bcc" -> <<Goto("bcc", t.w, t.cc, 2, 4), On("add", "quick", WORD, Data(2), 0, 1)>>
                   [] t.then = "scc" -> <<On("scc", "", BYTE, OperandWay(t).x, 0, 0) @@ [cc |-> t.cc]>>
    IN  Guest(<<Ins("CMP", WORD, 0, 1)>> \o after, Four(t.b, t.a, 0, OperandWay(t).index),
              AreasFor(t), For(OperandWay(t), t.r))
Overflowing(a, b) == Guest(<<Ins("ADD", WORD, 0, 1), [op |-> "trapv"]>>, Four(a, b, 0, 0), AtRest, Ram(1))

Checking == {k \in [name : {"check"}, w : {WORD, LONG}, way : Alterable \cup Relative \cup {"d", "i"}, r : {8, SP}] :
                 Usual(k)}
Checked(t) == Guest(<<On("chk", "", t.w, OperandWay(t).x, 0, 0)>>,
                    Four(Above(t.w) + t.b, Above(t.w) + t.a, 0, OperandWay(t).index), AreasFor(t), WithOperand(t))

\* Bounds low and high, in the order of the comparison; bytes without a sign.
Bounding == [name : {"bounds"}, w : Sizes, reg : {0, 9}, way : Control \cup Relative, r : {8}, trap : BOOLEAN]
SignedBounds(t) == t.reg = 0 /\ t.w # LONG
AsBound(t, n) == IF SignedBounds(t) THEN Signed(t.w, n) ELSE n
Bounds(k) == IF k.w = BYTE /\ k.reg = 0 THEN {0, 1} ELSE Limits(k.w)
Bounded(t) ==
    Guest(<<On("chk2", "", t.w, OperandWay(t).x, t.reg, 0) @@ [trap |-> t.trap]>>,
          Four(Above(t.w) + t.b, 0, 0, OperandWay(t).index), [AreasFor(t) EXCEPT ![9] = t.b],
          WriteMemory(WithOperand(t), t.w, OperandAt + Bytes(t.w), t.high))

\* Compare and swap with D0 expected and D1 as update.
Swapping == {k \in [name : {"swap"}, w : Sizes, way : Alterable, r : {8, SP}] : Usual(k)}
Exchanged(t) == Guest(<<On("cas", "", t.w, OperandWay(t).x, 1, 0) @@ [c |-> 0]>>,
                      Four(Above(t.w) + t.b, 2, 0, OperandWay(t).index), AreasFor(t), WithOperand(t))
\* Two operands, at 4 and 12.
TwoSwapping == [name : {"two swaps"}, w : {WORD, LONG}, by : {<<8, 9>>, <<9, 2>>}]
TwoExchanged(t) ==
    Guest(<<[op |-> "cas2", w |-> t.w, at |-> t.by, c |-> <<0, 1>>, u |-> <<1, 0>>]>>,
          Four(t.b[1], t.b[2], 12, 0),
          [AtRest EXCEPT ![t.by[1]] = 4, ![9] = IF t.by[1] = 9 THEN 4 ELSE 12],
          WriteMemory(WriteMemory(Ram(Pages), t.w, 4, t.a[1]), t.w, 12, t.a[2]))

\* Two actors in turn test a byte and set it.
Semaphores == {k \in [name : {"semaphore"}, w : {BYTE}, way : Alterable, r : {8, SP}] : Usual(k)}
Entered(t) ==
    LET x == OperandWay(t).x
        tas(y) == On("tas", "", BYTE, y, 0, 0)
    IN  Guest(<<tas(x), tas(Again(x))>>, Four(0, 0, 0, OperandWay(t).index), AreasFor(t), WithOperand(t))

\* Two strings of three units, at 4 and 16, are compared in a loop.
Strings == [name : {"strings"}, w : Sizes, s : {8, SP}, at4 : [0 .. 2 -> BOOLEAN], at16 : [0 .. 2 -> BOOLEAN]]
Unit(t, flag) == IF flag THEN 2^(t.w - 1) ELSE 1
StringMemory(t) ==
    LET n == Apart(t.w, t.s)
        Put(m, i) == WriteMemory(WriteMemory(m, t.w, 4 + n * i, Unit(t, t.at4[i])),
                                 t.w, 16 + Bytes(t.w) * i, Unit(t, t.at16[i]))
    IN  Put(Put(Put(Ram(Pages), 0), 1), 2)
Strung(t) ==
    LET up(r) == [mode |-> "pi", r |-> r]
    IN  Guest(<<On("cmp", "mm", t.w, up(t.s), 0, 0) @@ [to |-> up(9)], Branch("DBcc", 1, "NE", 1)>>,
              Four(0, 2, 0, 0), [AtRest EXCEPT ![t.s] = 4, ![9] = 16], StringMemory(t))

Clear == [x |-> FALSE, n |-> FALSE, z |-> TRUE, v |-> FALSE, c |-> FALSE]
\* A trial of kind k with particular operands.
Trial(k, operands) ==
    [x \in DOMAIN k \cup DOMAIN operands |-> IF x \in DOMAIN k THEN k[x] ELSE operands[x]]
Begins(t, g) ==
    /\ routine = t /\ code = g.code /\ pc = 1 /\ d = g.d /\ areg = g.areg /\ mem = g.mem /\ ccr = Clear
    /\ was = [d |-> g.d, areg |-> g.areg, mem |-> g.mem, ccr |-> Clear]

OnRegisters == Init /\ areg = AtRest /\ mem = Ram(1)
OnOperands ==
    \/ \E k \in Kinds : \E a \in Limits(k.w), b \in Others(k) :
           LET t == Trial(k, [a |-> a, b |-> b]) IN Begins(t, Operated(t))
    \/ \E k \in Products : \E a, b \in Limits(k.w) :
           LET t == Trial(k, [a |-> a, b |-> b]) IN Begins(t, Multiplied(t))
    \/ \E k \in Chains : \E a, b \in Double(k.w) :
           LET t == Trial(k, [a |-> a, b |-> b]) IN Begins(t, Chained(t))

OnBlocks ==
    \/ \E k \in Transfers : \E a \in Limits(k.w) : LET t == Trial(k, [a |-> a]) IN Begins(t, Moved(t))
    \/ \E k \in Twice : \E a \in Limits(k.w) : LET t == Trial(k, [a |-> a]) IN Begins(t, MovedTwice(t))
    \/ \E k \in Savings, L \in Lists : LET t == Trial(k, [list |-> L]) IN Begins(t, Listed(t))
    \/ \E k \in Peripheral : \E a \in Limits(k.w) : LET t == Trial(k, [a |-> a]) IN Begins(t, Spread(t))
    \/ \E t \in Blocks : Begins(t, Copied(t))
    \/ \E w \in Control \cup Relative : LET t == [name |-> "address", way |-> w] IN Begins(t, Addressed(t))

OnFrames ==
    \/ \E t \in Frames : Begins(t, Called(t))
    \/ \E w \in {WORD, LONG} : Begins([name |-> "own frame", w |-> w], OwnFrame(w))

OnDecisions ==
    \/ \E k \in Deciding : \E a, b \in Edge : LET t == Trial(k, [a |-> a, b |-> b]) IN Begins(t, Decided(t))
    \/ \E a, b \in Edge : Begins([name |-> "overflow", a |-> a, b |-> b], Overflowing(a, b))
    \/ \E k \in Checking : \E a, b \in Limits(k.w) :
           LET t == Trial(k, [a |-> a, b |-> b]) IN Begins(t, Checked(t))
    \/ \E k \in Bounding : \E a, b, high \in Bounds(k) :
           LET t == Trial(k, [a |-> a, b |-> b, high |-> high])
           IN  AsBound(t, a) <= AsBound(t, high) /\ Begins(t, Bounded(t))
    \/ \E k \in Swapping : \E a, b \in Limits(k.w) :
           LET t == Trial(k, [a |-> a, b |-> b]) IN Begins(t, Exchanged(t))
    \/ \E k \in TwoSwapping : \E a, b \in {<<0, 1>>, <<0, 3>>, <<2, 1>>, <<2, 3>>} :
           LET t == Trial(k, [a |-> a, b |-> b]) IN Begins(t, TwoExchanged(t))
    \/ \E k \in Semaphores : \E a \in Limits(BYTE) : LET t == Trial(k, [a |-> a]) IN Begins(t, Entered(t))
    \/ \E t \in Strings : Begins(t, Strung(t))

OnFields == \E t \in MemoryFields : Begins(t, Fields(t))

GuestInit == OnRegisters \/ OnOperands \/ OnBlocks \/ OnFrames \/ OnFields \/ OnDecisions
GuestSpec == GuestInit /\ [][GuestNext]_<<vars, memoryVars>>

-----------------------------------------------------------------------------
\* Nothing but n bytes of memory at a place has changed; nothing at all.
OnlyMemory(at, n) == \A i \in DOMAIN mem : i \in at .. at + n - 1 \/ mem[i] = was.mem[i]
Unchanged == d = was.d /\ areg = was.areg /\ mem = was.mem
\* Nothing but the low w bits of the data registers R has changed.
OnlyLow(w, R) == \A r \in REG_D : IF r \in R THEN d[r] \div 2^w = was.d[r] \div 2^w ELSE d[r] = was.d[r]
Flagged(w, r) == ccr = [was.ccr EXCEPT !.n = Msb(w, r), !.z = r = 0, !.v = FALSE, !.c = FALSE]

\* What instruction t.op makes of destination e and source s; r is the result.
HasResult(t, s, e, r) ==
    LET g(n) == Signed(t.w, n)
        Of(f(_, _)) == /\ \A i \in 0 .. t.w - 1 : Bit(r, i) = f(Bit(s, i), Bit(e, i))
                       /\ Flagged(t.w, r)
        n == s % BYTE
    IN  CASE t.op = "add" -> IsResult(t.w, r, e + s, g(e) + g(s))
          [] t.op = "sub" -> IsResult(t.w, r, e - s, g(e) - g(s))
          [] t.op = "neg" -> IsResult(t.w, r, -e, -g(e))
          [] t.op = "and" -> Of(LAMBDA a, b : a /\ b)
          [] t.op = "or" -> Of(LAMBDA a, b : a \/ b)
          [] t.op = "eor" -> Of(LAMBDA a, b : a # b)
          [] t.op = "not" -> Of(LAMBDA a, b : ~b)
          [] t.op = "clr" -> Of(LAMBDA a, b : FALSE)
          [] t.op \in {"cmp", "tst"} -> r = e /\ \A cc \in Compares : Cond(cc, ccr) = Holds(cc, t.w, e, s)
          [] t.op \in DOMAIN ShiftNames ->
                 LET b == OneBit(ShiftNames[t.op], t.w, [r |-> e, x |-> FALSE, v |-> FALSE, c |-> FALSE])
                 IN  r = b.r /\ ccr.c = b.c /\ ccr.x = b.x /\ ccr.v = b.v /\ ccr.z = (r = 0)
          [] t.op \in BitNames ->
                 /\ ccr.z = ~Bit(e, n)
                 /\ \A i \in 0 .. BYTE - 1 :
                        Bit(r, i) = CASE i # n \/ t.op = "btst" -> Bit(e, i)
                                      [] t.op = "bset" -> TRUE [] t.op = "bclr" -> FALSE
                                      [] t.op = "bchg" -> ~Bit(e, i)

\* Address registers are changed as a whole and without flags, except by CMPA.
HasAddress(t, from, to, s) ==
    LET a == CASE t.op = "add" -> from + s [] t.op = "sub" -> from - s
               [] t.op = "movea" -> s [] t.op = "cmp" -> from
    IN  /\ to = a % 2^LONG
        /\ IF t.op = "cmp" THEN \A cc \in Compares : Cond(cc, ccr) = Holds(cc, LONG, from, s % 2^LONG)
                           ELSE ccr = was.ccr

SingleOperands ==
    LET t == routine
        way == OperandWay(t)
        after == [was.areg EXCEPT ![t.r] = way.after]
        now == CASE t.way = "d" -> d[1] % 2^t.w [] t.way = "i" -> t.a [] OTHER -> NumberAt(mem, OperandAt, t.w)
        single ==
            CASE t.form = "a" ->
                     /\ HasAddress(t, 24, areg[9], Signed(t.w, t.a)) /\ d = was.d /\ mem = was.mem
                     /\ areg = [after EXCEPT ![9] = areg[9]]
              [] t.form = "quick" /\ t.way = "a" ->
                     /\ HasAddress(t, t.a, areg[8], t.b) /\ d = was.d /\ mem = was.mem
                     /\ areg = [after EXCEPT ![8] = areg[8]]
              [] t.form = "er" ->
                     /\ HasResult(t, t.a, t.b, d[0] % 2^t.w) /\ OnlyLow(t.w, {0})
                     /\ mem = was.mem /\ areg = after
              [] OTHER ->
                     /\ HasResult(t, t.b, t.a, now) /\ OnlyLow(t.w, IF t.way = "d" THEN {1} ELSE {})
                     /\ OnlyMemory(OperandAt, IF t.way = "d" THEN 0 ELSE Bytes(t.w)) /\ areg = after
    IN  /\ (routine.name = "operand" /\ pc = 2) => single
        /\ (Ends({"operand"}) /\ t.op \notin Lasting) => Unchanged
        /\ Ends({"operand"}) => mem = was.mem \/ OnlyMemory(OperandAt, Bytes(t.w))

ProductsInMemory ==
    LET t == routine
        As(n) == IF t.signed THEN Signed(t.w, n) ELSE n
        p == As(t.a) * As(t.b)
        fits == t.quad \/ p \in IF t.signed THEN -(2^(t.w - 1)) .. 2^(t.w - 1) - 1 ELSE 0 .. 2^t.w - 1
    IN  /\ (routine.name = "product back" /\ pc = 2) =>
               /\ mem = was.mem /\ areg = [was.areg EXCEPT ![t.r] = OperandWay(t).after]
               /\ IF t.w = LONG /\ t.quad THEN d[2] * 2^LONG + d[0] = p % 2^(2 * LONG)
                  ELSE d[0] = p % 2^LONG /\ d[2] = 0
               /\ ccr.v = ~fits
        /\ (routine.name = "product back" /\ pc = Trapped) =>
               t.a = 0 /\ d = [was.d EXCEPT ![0] = 0] /\ mem = was.mem /\ areg = was.areg
        /\ Ends({"product back"}) =>
               /\ t.a # 0 /\ mem = was.mem /\ areg = was.areg
               /\ ~fits \/ d = was.d \/ (t.w = LONG /\ t.signed /\ t.b = 2^(LONG - 1))

ChainsInMemory ==
    Ends({"chain"}) =>
        LET t == routine
            r == Units(mem, 12, t.w, t.t)
            g(n) == Signed(2 * t.w, n)
        IN  /\ Units(mem, 0, t.w, t.s) = t.a /\ areg[t.t] = 12
            /\ areg[t.s] = IF t.op \in {"addx", "subx"} THEN 0 ELSE was.areg[t.s]
            /\ CASE t.op = "addx" -> IsResult(2 * t.w, r, t.b + t.a, g(t.b) + g(t.a))
                 [] t.op = "subx" -> IsResult(2 * t.w, r, t.b - t.a, g(t.b) - g(t.a))
                 [] t.op = "negx" -> IsResult(2 * t.w, r, -t.b, -g(t.b))
                 [] t.op = "roxl" -> r = (2 * t.b) % 2^(2 * t.w) /\ ccr.x = Msb(2 * t.w, t.b)

\* An instruction finds its operand wherever the addressing mode says, steps the
\* register by the size, for bytes on the stack by 2, and changes that operand
\* only; the one that undoes it leaves registers and memory as they were
\* (m68kcpu.h:609, 1213, m68kopac.c:756, 2341, m68kopnz.c:8527 and their like).
\* Chains of ADDX, SUBX, NEGX and ROXL over memory handle a longer number, and
\* division takes a multiplication back, or traps with its register stepped.
OperandsInMemory ==
    SingleOperands /\ ProductsInMemory /\ ChainsInMemory

\* MOVE reads its source, and steps its register, before it finds the
\* destination, also if both use one register; MOVEM has the same image in
\* memory upwards and downwards and loads words sign extended; MOVEP puts every
\* second byte; loops move overlapping blocks; LEA, PEA and EXG carry addresses
\* about (m68kopdm.c:4560, 8916, 9402, m68kopac.c:8125).
BlocksMoved ==
    LET t == routine
        rank(L, r) == Cardinality({q \in L : q < r})
        same(L, K, r) == CHOOSE q \in L : rank(L, q) = rank(K, r)
        before == was.d @@ was.areg
        now == d @@ areg
    IN  /\ Ends({"move"}) =>
               /\ Flagged(t.w, t.a)
               /\ areg = [was.areg EXCEPT ![t.s] = From(t).after, ![t.t] = To(t).after]
               /\ IF t.to = "d" THEN mem = was.mem /\ OnlyLow(t.w, {0}) /\ d[0] % 2^t.w = t.a
                  ELSE d = was.d /\ OnlyMemory(Target(t.to), Bytes(t.w)) /\ NumberAt(mem, Target(t.to), t.w) = t.a
        /\ Ends({"twice"}) =>
               /\ NumberAt(mem, Step2(t).at, t.w) = t.a /\ OnlyMemory(Step2(t).at, Bytes(t.w))
               /\ areg = [was.areg EXCEPT ![t.r] = Step2(t).after]
        /\ Ends({"registers"}) =>
               /\ OnlyMemory(OperandAt, Extent(t)) /\ ccr = was.ccr
               /\ \A r \in REG_DA :
                      now[r] = IF r \in Into(t.list)
                               THEN Signed(t.w, before[same(t.list, Into(t.list), r)]) % 2^LONG
                               ELSE before[r]
        /\ Ends({"bytes"}) =>
               /\ d = [was.d EXCEPT ![1] = 2^LONG - 2^t.w + t.a] /\ areg = was.areg /\ ccr = was.ccr
               /\ NumberOf(mem, 4, Bytes(t.w), 2) = t.a
               /\ \A i \in DOMAIN mem : (i % 2 = 0 /\ i \in 4 .. 2 + 2 * Bytes(t.w)) \/ mem[i] = was.mem[i]
        /\ Ends({"copy"}) =>
               /\ \A i \in 0 .. Length(t) - 1 : mem[8 + t.delta + i] = was.mem[8 + i]
               /\ OnlyMemory(8 + t.delta, Length(t))
               /\ areg[9] - areg[8] = t.delta /\ areg[8] = IF t.delta <= 0 THEN 8 + Length(t) ELSE 8
        /\ Ends({"address"}) =>
               /\ d = [was.d EXCEPT ![0] = OperandAt, ![1] = 2, ![2] = 1]
               /\ areg = [was.areg EXCEPT ![8] = 77, ![9] = OperandAt]
               /\ OnlyMemory(24, 4) /\ NumberAt(mem, 24, LONG) = OperandAt /\ ccr = was.ccr

\* Calls, frames and returns nest: behind a recursive subroutine the stack, the
\* frame pointer and what was on the stack before are as they were, the sum of
\* the numbers left in each frame is right, and while it runs the frames form a
\* chain from the youngest one to the caller's frame pointer, each above the
\* one before (m68kopac.c:4439, m68kopdm.c:63, 4021, m68kopnz.c:2752, 8475).
FramesUnwound ==
    LET t == routine
        up[k \in Nat] == IF k = 0 THEN areg[8]
                           ELSE IF up[k - 1] \in areg[SP] .. Stack - 4 THEN NumberAt(mem, up[k - 1], LONG)
                           ELSE up[k - 1]
    IN  /\ t.name = "frames" =>
               /\ areg[SP] <= Stack /\ mem[Stack] = was.mem[Stack]
               /\ \E k \in 0 .. t.n + 1 :
                      up[k] = was.areg[8] /\ \A i \in 1 .. k - 1 : up[i] > up[i - 1]
        /\ Ends({"frames"}) =>
               areg = was.areg /\ d = Four(0, (t.n * (t.n + 1)) \div 2, 0, 0)
        /\ Ends({"own frame"}) =>
               areg = [was.areg EXCEPT ![SP] = @ - 4] /\ NumberAt(mem, areg[SP], LONG) = areg[SP]

\* Fields in memory begin before or behind the operand's address, for offsets of
\* either sign; what changes and what is found is as for those in registers.
\* Excepted are changes and tests of fields over five bytes, for which the mask of the
\* fifth byte is wrong (m68kopac.c:4909, 5345, 5960, 6693, 7092, 7446).
FieldsInMemory ==
    LET t == routine
        first == FieldAt(t) * BYTE + t.o
        k == FieldWidth(t)
        In(n) == n \in first .. first + k - 1
        BitAt(m, n) == Bit(m[n \div BYTE], BYTE - 1 - (n % BYTE))
        number(m) == LET f[i \in 0 .. k] == IF i = 0 THEN 0 ELSE 2 * f[i - 1] + AsOne(BitAt(m, first + i - 1))
                     IN  f[k]
        Changed(op, n) == CASE op = "bfset" -> TRUE [] op = "bfclr" -> FALSE
                            [] op = "bfchg" -> ~BitAt(was.mem, n) [] op = "bftst" -> BitAt(was.mem, n)
                            [] op = "bfins" -> Bit(t.v, first + k - 1 - n) [] OTHER -> BitAt(was.mem, n)
        done == code[pc - 1].op
        found == IF done \in {"bfextu", "bfexts", "bfffo", "bfins"} THEN number(mem) ELSE number(was.mem)
        ones == {i \in 0 .. k - 1 : BitAt(mem, first + i)}
    IN  /\ FieldsKept
        /\ (t.name = "memory field" /\ pc > 1) =>
               /\ \A n \in 0 .. BYTE * Pages - 1 :
                      BitAt(mem, n) = IF In(n) THEN Changed(t.op, n) ELSE BitAt(was.mem, n)
               /\ ccr = [was.ccr EXCEPT !.n = Bit(found, k - 1), !.z = found = 0]
               /\ areg = was.areg
               /\ CASE done = "bfextu" -> d = [was.d EXCEPT ![0] = found]
                    [] done = "bfexts" -> d = [was.d EXCEPT ![0] = Signed(k, found) % 2^LONG]
                    [] done = "bfffo" -> d = [was.d EXCEPT ![0] = (t.o + Smallest(ones \cup {k})) % 2^LONG]
                    [] OTHER -> d = was.d

\* Comparisons in memory decide like the integers do, whichever instruction asks:
\* Bcc, Scc and TRAPcc, TRAPV after an overflow, CHK, CHK2 and CMP2 for bounds,
\* CMPM in a loop over strings, CAS and CAS2, which swap all or nothing, and TAS,
\* which lets in the first only (m68kopac.c:3411, 8686, 9353, 9443, 9894,
\* m68kopnz.c:7648).
ConditionsDecide ==
    LET t == routine
        way == OperandWay(t)
        stepped == areg = [was.areg EXCEPT ![t.r] = way.after]
        holds == Holds(t.cc, WORD, t.a, t.b)
        low(r) == d[r] % 2^t.w
        As(n) == Signed(t.w, n)
    IN  /\ (t.name = "decide" /\ t.then = "trap" /\ pc \in {Trapped, 3}) => (pc = Trapped) = holds /\ Unchanged
        /\ (Ends({"decide"}) /\ t.then = "bcc") => d = [was.d EXCEPT ![2] = IF holds THEN 0 ELSE 1]
        /\ (Ends({"decide"}) /\ t.then = "scc") =>
               mem[OperandAt] = (IF holds THEN 2^BYTE - 1 ELSE 0) /\ OnlyMemory(OperandAt, 1) /\ stepped
        /\ (t.name = "overflow" /\ pc \in {Trapped, 3}) =>
               (pc = Trapped) = (Signed(WORD, t.a) + Signed(WORD, t.b) \notin -(2^(WORD - 1)) .. 2^(WORD - 1) - 1)
        /\ (t.name = "check" /\ pc # 1) =>
               /\ Ended = (As(t.b) \in 0 .. As(t.a)) /\ stepped /\ d = was.d /\ mem = was.mem
               /\ pc = Trapped => ccr.n = (As(t.b) < 0)
        /\ (t.name = "bounds" /\ pc # 1) =>
               LET within == AsBound(t, t.b) \in AsBound(t, t.a) .. AsBound(t, t.high)
               IN  /\ ccr.c = ~within /\ ccr.z = (t.b \in {t.a, t.high}) /\ Unchanged
                   /\ (pc = Trapped) = (t.trap /\ ~within)
        /\ Ends({"swap"}) =>
               LET equal == t.a = t.b
               IN  /\ \A cc \in Compares : Cond(cc, ccr) = Holds(cc, t.w, t.a, t.b)
                   /\ stepped /\ OnlyMemory(OperandAt, Bytes(t.w)) /\ OnlyLow(t.w, {0})
                   /\ NumberAt(mem, OperandAt, t.w) = (IF equal THEN 2 ELSE t.a)
                   /\ low(0) = (IF equal THEN t.b ELSE t.a)
        /\ Ends({"two swaps"}) =>
               LET found == <<NumberAt(mem, 4, t.w), NumberAt(mem, 12, t.w)>>
               IN  /\ ccr.z = (t.a = t.b) /\ areg = was.areg
                   /\ IF t.a = t.b THEN d = was.d /\ found = <<t.b[2], t.b[1]>>
                      ELSE mem = was.mem /\ <<low(0), low(1)>> = t.a
        /\ (t.name = "semaphore" /\ pc > 1) =>
               /\ mem = [was.mem EXCEPT ![OperandAt] = IF t.a < 2 THEN t.a + 2 ELSE t.a]
               /\ ccr.n = (pc = 3 \/ t.a >= 2) /\ ccr.z = (pc = 2 /\ t.a = 0)
               /\ areg = IF pc = 2 THEN [was.areg EXCEPT ![t.r] = way.after] ELSE was.areg
        /\ Ends({"strings"}) =>
               LET differ == {i \in 0 .. 2 : t.at4[i] # t.at16[i]}
                   i == Smallest(differ \cup {2})
               IN  /\ \A cc \in Compares : Cond(cc, ccr) = Holds(cc, t.w, Unit(t, t.at16[i]), Unit(t, t.at4[i]))
                   /\ areg = [was.areg EXCEPT ![t.s] = @ + (i + 1) * Apart(t.w, t.s), ![9] = @ + (i + 1) * Bytes(t.w)]
                   /\ (d[1] = 2^WORD - 1) = (differ = {}) /\ mem = was.mem
=============================================================================
