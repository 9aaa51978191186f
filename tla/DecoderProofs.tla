---------------------------- MODULE DecoderProofs ----------------------------
(***************************************************************************)
(* The decoders agree on every word and no immediate loses a bit: proofs   *)
(* for all values of the fields, where TLC tries those at the borders.     *)
(***************************************************************************)
EXTENDS Decoder, TLAPS, WellFoundedInduction

-----------------------------------------------------------------------------
(* Immediates *)

\* Fields of a word with their widths.
Fields(w) ==
    /\ w.top \in 0 .. 4095 /\ w.funct3 \in 0 .. 7
    /\ w.rd \in 0 .. 31 /\ w.rs1 \in 0 .. 31

\* The parts of the upper twelve bits.
LEMMA TopParts ==
    ASSUME NEW w, Fields(w)
    PROVE  /\ funct7(w) \in 0 .. 127 /\ funct5(w) \in 0 .. 31
           /\ Bit31(w) \in 0 .. 1 /\ funct7(w) % 64 \in 0 .. 63
           /\ funct7(w) = 64 * Bit31(w) + (funct7(w) % 64)
           /\ w.top % 2 \in 0 .. 1 /\ (w.top \div 2) % 1024 \in 0 .. 1023
           /\ w.top = 2048 * Bit31(w) + 2 * ((w.top \div 2) % 1024) + (w.top % 2)
<1> DEFINE t == w.top
<1>1. t \in 0 .. 4095
  BY DEF Fields
<1> HIDE DEF t
<1>2. /\ t \div 32 \in 0 .. 127 /\ t \div 128 \in 0 .. 31
      /\ t \div 2048 \in 0 .. 1 /\ (t \div 32) % 64 \in 0 .. 63
  BY <1>1, SMTT(20)
<1>3. t \div 32 = 64 * (t \div 2048) + ((t \div 32) % 64)
  BY <1>1, SMTT(20)
<1>4. /\ t % 2 \in 0 .. 1 /\ (t \div 2) % 1024 \in 0 .. 1023
      /\ t = 2048 * (t \div 2048) + 2 * ((t \div 2) % 1024) + (t % 2)
  BY <1>1, SMTT(20)
<1>5. QED
  BY <1>2, <1>3, <1>4 DEF t, funct7, funct5, Bit31

\* The parts of the destination field.
LEMMA RdParts ==
    ASSUME NEW w, Fields(w)
    PROVE  w.rd % 2 \in 0 .. 1 /\ w.rd \div 2 \in 0 .. 15 /\ w.rd = 2 * (w.rd \div 2) + (w.rd % 2)
<1> DEFINE r == w.rd
<1>1. r \in 0 .. 31
  BY DEF Fields
<1> HIDE DEF r
<1>2. r % 2 \in 0 .. 1 /\ r \div 2 \in 0 .. 15 /\ r = 2 * (r \div 2) + (r % 2)
  BY <1>1, SMTT(20)
<1>3. QED
  BY <1>2 DEF r

\* I format: the upper twelve bits.
LEMMA IFaithful ==
    ASSUME NEW v, NEW w, Fields(v), Fields(w), I_FMT_imm(v) = I_FMT_imm(w)
    PROVE  v.top = w.top
<1> DEFINE t == v.top
           u == w.top
<1>1. t \in 0 .. 4095 /\ u \in 0 .. 4095
  BY DEF Fields
<1>2. SignExtend(2048, t) = SignExtend(2048, u)
  BY DEF I_FMT_imm
<1> HIDE DEF t, u
<1>3. t = u
  <2> DEFINE e == SignExtend(2048, t)
             d == SignExtend(2048, u)
  <2>1. e \in Int /\ d \in Int /\ e = d
    BY <1>1, <1>2, SMTT(20) DEF SignExtend
  <2>2. e >= 0 => e = t
    BY <1>1, SMTT(20) DEF SignExtend
  <2>3. d >= 0 => d = u
    BY <1>1, SMTT(20) DEF SignExtend
  <2>4. (e < 0 => e = t - 4096) /\ (d < 0 => d = u - 4096)
    BY <1>1, SMTT(20) DEF SignExtend
  <2> HIDE DEF e, d
  <2>5. QED
    BY <1>1, <2>1, <2>2, <2>3, <2>4
<1>4. QED
  BY <1>3 DEF t, u

\* S format: funct7 and the destination field.
LEMMA SFaithful ==
    ASSUME NEW v, NEW w, Fields(v), Fields(w), S_FMT_imm(v) = S_FMT_imm(w)
    PROVE  funct7(v) = funct7(w) /\ v.rd = w.rd
<1> DEFINE h == funct7(v)
           k == funct7(w)
           r == v.rd
           q == w.rd
<1>1. h \in 0 .. 127 /\ k \in 0 .. 127 /\ r \in 0 .. 31 /\ q \in 0 .. 31
  BY TopParts DEF Fields
<1>2. SignExtend(2048, r + 32 * h) = SignExtend(2048, q + 32 * k)
  BY DEF S_FMT_imm
<1> HIDE DEF h, k, r, q
<1>3. h = k /\ r = q
  BY <1>1, <1>2, SMTT(20) DEF SignExtend
<1>4. QED
  BY <1>3 DEF h, k, r, q

\* B format: the same bits in another order, and always even.
LEMMA BFaithful ==
    ASSUME NEW v, NEW w, Fields(v), Fields(w)
    PROVE  /\ B_FMT_imm(v) % 2 = 0
           /\ B_FMT_imm(v) = B_FMT_imm(w) => funct7(v) = funct7(w) /\ v.rd = w.rd
<1> DEFINE b1 == Bit31(v)
           b2 == Bit31(w)
           p1 == v.rd % 2
           p2 == w.rd % 2
           m1 == funct7(v) % 64
           m2 == funct7(w) % 64
           q1 == v.rd \div 2
           q2 == w.rd \div 2
<1>1. /\ b1 \in 0 .. 1 /\ p1 \in 0 .. 1 /\ m1 \in 0 .. 63 /\ q1 \in 0 .. 15
      /\ b2 \in 0 .. 1 /\ p2 \in 0 .. 1 /\ m2 \in 0 .. 63 /\ q2 \in 0 .. 15
  BY TopParts, RdParts
<1>2. /\ funct7(v) = 64 * b1 + m1 /\ v.rd = 2 * q1 + p1
      /\ funct7(w) = 64 * b2 + m2 /\ w.rd = 2 * q2 + p2
  BY TopParts, RdParts
<1>3. /\ B_FMT_imm(v) = SignExtend(4096, b1 * 4096 + p1 * 2048 + m1 * 32 + q1 * 2)
      /\ B_FMT_imm(w) = SignExtend(4096, b2 * 4096 + p2 * 2048 + m2 * 32 + q2 * 2)
  BY DEF B_FMT_imm
<1> HIDE DEF b1, b2, p1, p2, m1, m2, q1, q2
<1>4. B_FMT_imm(v) % 2 = 0
  BY <1>1, <1>3, SMTT(20) DEF SignExtend
<1>5. ASSUME B_FMT_imm(v) = B_FMT_imm(w) PROVE b1 = b2 /\ p1 = p2 /\ m1 = m2 /\ q1 = q2
  BY <1>1, <1>3, <1>5, SMTT(20) DEF SignExtend
<1>6. QED
  BY <1>2, <1>4, <1>5

\* J format: all bits above the destination field, and always even.
LEMMA JFaithful ==
    ASSUME NEW v, NEW w, Fields(v), Fields(w)
    PROVE  /\ J_FMT_imm(v) % 2 = 0
           /\ J_FMT_imm(v) = J_FMT_imm(w) => v.top = w.top /\ v.rs1 = w.rs1 /\ v.funct3 = w.funct3
<1> DEFINE b1 == Bit31(v)
           b2 == Bit31(w)
           p1 == v.top % 2
           p2 == w.top % 2
           m1 == (v.top \div 2) % 1024
           m2 == (w.top \div 2) % 1024
           f1 == v.funct3
           f2 == w.funct3
           s1 == v.rs1
           s2 == w.rs1
<1>1. /\ b1 \in 0 .. 1 /\ p1 \in 0 .. 1 /\ m1 \in 0 .. 1023 /\ f1 \in 0 .. 7 /\ s1 \in 0 .. 31
      /\ b2 \in 0 .. 1 /\ p2 \in 0 .. 1 /\ m2 \in 0 .. 1023 /\ f2 \in 0 .. 7 /\ s2 \in 0 .. 31
  BY TopParts DEF Fields
<1>2. v.top = 2048 * b1 + 2 * m1 + p1 /\ w.top = 2048 * b2 + 2 * m2 + p2
  BY TopParts DEF Fields
<1>3. /\ J_FMT_imm(v) = SignExtend(1048576, b1 * 1048576 + (f1 + 8 * s1) * 4096 + p1 * 2048 + m1 * 2)
      /\ J_FMT_imm(w) = SignExtend(1048576, b2 * 1048576 + (f2 + 8 * s2) * 4096 + p2 * 2048 + m2 * 2)
  BY SMTT(20) DEF J_FMT_imm
<1> HIDE DEF b1, b2, p1, p2, m1, m2, f1, f2, s1, s2
<1>4. J_FMT_imm(v) % 2 = 0
  BY <1>1, <1>3, SMTT(20) DEF SignExtend
<1>5. ASSUME J_FMT_imm(v) = J_FMT_imm(w) PROVE b1 = b2 /\ p1 = p2 /\ m1 = m2 /\ f1 = f2 /\ s1 = s2
  BY <1>1, <1>3, <1>5, SMTT(60) DEF SignExtend
<1>6. QED
  BY <1>2, <1>4, <1>5 DEF f1, f2, s1, s2

\* U format: the upper twenty bits.
LEMMA UFaithful ==
    ASSUME NEW v, NEW w, Fields(v), Fields(w), U_FMT_imm(v) = U_FMT_imm(w)
    PROVE  v.top = w.top /\ v.rs1 = w.rs1 /\ v.funct3 = w.funct3
<1> DEFINE t1 == v.top
           t2 == w.top
           f1 == v.funct3
           f2 == w.funct3
           s1 == v.rs1
           s2 == w.rs1
<1>1. /\ t1 \in 0 .. 4095 /\ s1 \in 0 .. 31 /\ f1 \in 0 .. 7
      /\ t2 \in 0 .. 4095 /\ s2 \in 0 .. 31 /\ f2 \in 0 .. 7
  BY DEF Fields
<1>2. SignExtend(524288, t1 * 256 + s1 * 8 + f1) = SignExtend(524288, t2 * 256 + s2 * 8 + f2)
  BY SMTT(20) DEF U_FMT_imm
<1> HIDE DEF t1, t2, f1, f2, s1, s2
<1>3. t1 = t2 /\ s1 = s2 /\ f1 = f2
  <2> DEFINE l1 == s1 * 8 + f1
             l2 == s2 * 8 + f2
  <2>1. l1 \in 0 .. 255 /\ l2 \in 0 .. 255
    BY <1>1, SMTT(20)
  <2>2. l1 = l2 => s1 = s2 /\ f1 = f2
    BY <1>1, SMTT(20)
  <2>3. SignExtend(524288, t1 * 256 + l1) = SignExtend(524288, t2 * 256 + l2)
    BY <1>1, <1>2, SMTT(20)
  <2> HIDE DEF l1, l2
  <2>4. t1 * 256 + l1 = t2 * 256 + l2
    BY <1>1, <2>1, <2>3, SMTT(20) DEF SignExtend
  <2>5. t1 = t2 /\ l1 = l2
    BY <1>1, <2>1, <2>4, SMTT(20)
  <2>6. QED
    BY <2>2, <2>5
<1>4. QED
  BY <1>3 DEF t1, t2, f1, f2, s1, s2

-----------------------------------------------------------------------------
(* Tables *)

\* A table is a sequence, of whatever rows it has.
IsTable(rows) == rows \in Seq(Range(rows))

\* Two conditions contradict each other.
Conflict(a, b) == a # Any /\ b # Any /\ a # b

\* No word matches both rows.
Apart(p, q) ==
    \/ p.opcode # q.opcode \/ Conflict(p.f3, q.f3) \/ Conflict(p.f7, q.f7)
    \/ Conflict(p.f5, q.f5) \/ Conflict(p.top, q.top)

\* No word matches two rows.
Separate(rows) == \A m, n \in DOMAIN rows : m # n => Apart(rows[m], rows[n])

\* That is what Apart means.
LEMMA ApartRows ==
    ASSUME NEW p, NEW q, NEW w, Apart(p, q), Matches(p, w), Matches(q, w)
    PROVE  FALSE
BY DEF Apart, Conflict, Matches, Agree

\* Tables one behind the other.
LEMMA Concatenation ==
    ASSUME NEW s, NEW t, IsTable(s), IsTable(t)
    PROVE  /\ IsTable(s \o t)
           /\ Range(s \o t) = Range(s) \cup Range(t)
           /\ Separate(s) /\ Separate(t) /\ (\A p \in Range(s), q \in Range(t) : Apart(p, q))
              => Separate(s \o t)
<1> DEFINE S == Range(s) \cup Range(t)
<1>1. s \in Seq(S) /\ t \in Seq(S) /\ s \o t \in Seq(S)
  <2>1. s \in Seq(S) /\ t \in Seq(S)
    <3> DEFINE A == Range(s)
               B == Range(t)
    <3>1. s \in Seq(A) /\ t \in Seq(B)
      BY DEF IsTable
    <3> HIDE DEF A, B
    <3>2. s \in Seq(A \cup B) /\ t \in Seq(A \cup B)
      BY <3>1
    <3>3. QED
      BY <3>2 DEF A, B
  <2> HIDE DEF S
  <2>2. QED
    BY <2>1
<1> HIDE DEF S
<1>2. /\ DOMAIN s = 1 .. Len(s) /\ DOMAIN t = 1 .. Len(t)
      /\ DOMAIN (s \o t) = 1 .. Len(s) + Len(t)
      /\ Len(s) \in Nat /\ Len(t) \in Nat
  BY <1>1
<1>3. /\ \A n \in DOMAIN s : (s \o t)[n] = s[n]
      /\ \A n \in DOMAIN t : (s \o t)[Len(s) + n] = t[n]
  BY <1>1
<1>4. \A n \in DOMAIN (s \o t) : n \in DOMAIN s \/ \E k \in DOMAIN t : n = Len(s) + k
  <2> TAKE n \in DOMAIN (s \o t)
  <2>1. n \notin DOMAIN s => n - Len(s) \in DOMAIN t /\ n = Len(s) + (n - Len(s))
    BY <1>2
  <2>2. QED
    BY <2>1
<1>5. \A n \in DOMAIN s : n \in DOMAIN (s \o t)
  BY <1>2
<1>6. \A n \in DOMAIN t : Len(s) + n \in DOMAIN (s \o t)
  BY <1>2
<1>7. Range(s \o t) = Range(s) \cup Range(t)
  <2> DEFINE r == s \o t
  <2>1. ASSUME NEW n \in DOMAIN r PROVE r[n] \in Range(s) \cup Range(t)
    <3>1. CASE n \in DOMAIN s
      BY <1>3, <3>1, Zenon DEF Range
    <3>2. CASE \E k \in DOMAIN t : n = Len(s) + k
      BY <1>3, <3>2, Zenon DEF Range
    <3>3. QED
      BY <1>4, <3>1, <3>2, Zenon
  <2>2. ASSUME NEW n \in DOMAIN s PROVE s[n] \in Range(r)
    BY <1>3, <1>5, Zenon DEF Range
  <2>3. ASSUME NEW n \in DOMAIN t PROVE t[n] \in Range(r)
    BY <1>3, <1>6, Zenon DEF Range
  <2> HIDE DEF r
  <2>4. Range(r) = Range(s) \cup Range(t)
    BY <2>1, <2>2, <2>3, Zenon DEF Range
  <2>5. QED
    BY <2>4 DEF r
<1>8. ASSUME Separate(s), Separate(t), \A p \in Range(s), q \in Range(t) : Apart(p, q)
      PROVE  Separate(s \o t)
  <2> DEFINE r == s \o t
  <2> SUFFICES ASSUME NEW m \in DOMAIN r, NEW n \in DOMAIN r, m # n PROVE Apart(r[m], r[n])
    BY DEF Separate
  <2>1. \A p \in Range(s), q \in Range(t) : Apart(q, p)
    BY <1>8 DEF Apart, Conflict
  <2>2. CASE m \in DOMAIN s /\ n \in DOMAIN s
    BY <1>3, <1>8, <2>2 DEF Separate
  <2>3. CASE m \in DOMAIN s /\ n \notin DOMAIN s
    BY <1>3, <1>4, <1>8, <2>3, Zenon DEF Range
  <2>4. CASE m \notin DOMAIN s /\ n \in DOMAIN s
    BY <1>3, <1>4, <2>1, <2>4, Zenon DEF Range
  <2>5. CASE m \notin DOMAIN s /\ n \notin DOMAIN s
    <3>1. PICK k \in DOMAIN t : m = Len(s) + k
      BY <1>4, <2>5, Zenon
    <3>2. PICK l \in DOMAIN t : n = Len(s) + l
      BY <1>4, <2>5, Zenon
    <3>3. r[m] = t[k] /\ r[n] = t[l] /\ k # l
      BY <1>3, <3>1, <3>2, Zenon
    <3>4. QED
      BY <1>8, <3>3, Zenon DEF Separate
  <2>6. QED
    BY <2>2, <2>3, <2>4, <2>5
<1>9. QED
  BY <1>1, <1>7, <1>8 DEF S, IsTable

\* Rows that ask for different values of funct3.
LEMMA Funct3Table ==
    ASSUME NEW op, NEW names, NEW f3s, NEW k \in Nat, DOMAIN names = 1 .. k,
           \A n \in 1 .. k : f3s[n] \in Nat,
           \A m, n \in 1 .. k : m # n => f3s[m] # f3s[n]
    PROVE  /\ IsTable(Funct3Rows(op, names, f3s)) /\ Separate(Funct3Rows(op, names, f3s))
           /\ Range(Funct3Rows(op, names, f3s)) = {ByFunct3(names[n], op, f3s[n]) : n \in 1 .. k}
<1> DEFINE rows == Funct3Rows(op, names, f3s)
<1>1. rows = [n \in 1 .. k |-> ByFunct3(names[n], op, f3s[n])]
  BY DEF Funct3Rows
<1>2. Separate(rows)
  BY <1>1 DEF Separate, Apart, Conflict, ByFunct3, Row, Any
<1>3. Range(rows) = {ByFunct3(names[n], op, f3s[n]) : n \in 1 .. k}
  BY <1>1 DEF Range
<1>4. IsTable(rows)
  <2>1. rows \in [1 .. k -> Range(rows)]
    BY <1>1, Zenon DEF Range
  <2> DEFINE S == Range(rows)
  <2> HIDE DEF rows, S
  <2>2. rows \in [1 .. k -> S]
    BY <2>1 DEF S
  <2>3. rows \in Seq(S)
    BY <2>2
  <2>4. QED
    BY <2>3 DEF S, IsTable
<1>5. QED
  BY <1>2, <1>3, <1>4

\* The same for rows that also ask for funct7.
LEMMA Funct7Table ==
    ASSUME NEW op, NEW f7, NEW names, NEW f3s, NEW k \in Nat, DOMAIN names = 1 .. k,
           \A n \in 1 .. k : f3s[n] \in Nat,
           \A m, n \in 1 .. k : m # n => f3s[m] # f3s[n]
    PROVE  /\ IsTable(Funct7Rows(op, f7, names, f3s)) /\ Separate(Funct7Rows(op, f7, names, f3s))
           /\ Range(Funct7Rows(op, f7, names, f3s)) = {ByFunct7(names[n], op, f3s[n], f7) : n \in 1 .. k}
<1> DEFINE rows == Funct7Rows(op, f7, names, f3s)
<1>1. rows = [n \in 1 .. k |-> ByFunct7(names[n], op, f3s[n], f7)]
  BY DEF Funct7Rows
<1>2. Separate(rows)
  BY <1>1 DEF Separate, Apart, Conflict, ByFunct7, Row, Any
<1>3. Range(rows) = {ByFunct7(names[n], op, f3s[n], f7) : n \in 1 .. k}
  BY <1>1 DEF Range
<1>4. IsTable(rows)
  <2>1. rows \in [1 .. k -> Range(rows)]
    BY <1>1, Zenon DEF Range
  <2> DEFINE S == Range(rows)
  <2> HIDE DEF rows, S
  <2>2. rows \in [1 .. k -> S]
    BY <2>1 DEF S
  <2>3. rows \in Seq(S)
    BY <2>2
  <2>4. QED
    BY <2>3 DEF S, IsTable
<1>5. QED
  BY <1>2, <1>3, <1>4

-----------------------------------------------------------------------------
(* The parts of the tables *)

\* The register operations with funct7 = 0.
OpBase == Funct7Rows("OP", 0, <<"ADD", "XOR", "OR", "AND", "SLL", "SRL", "SLT", "SLTU">>,
                     <<0, 4, 6, 7, 1, 5, 2, 3>>)

\* The register operations with funct7 = 0: what the table OpBase consists of.
LEMMA OpBaseTable ==
    /\ IsTable(OpBase) /\ Separate(OpBase)
    /\ Range(OpBase) = {ByFunct7("ADD", "OP", 0, 0), ByFunct7("XOR", "OP", 4, 0),
                        ByFunct7("OR", "OP", 6, 0), ByFunct7("AND", "OP", 7, 0),
                        ByFunct7("SLL", "OP", 1, 0), ByFunct7("SRL", "OP", 5, 0),
                        ByFunct7("SLT", "OP", 2, 0), ByFunct7("SLTU", "OP", 3, 0)}
<1> DEFINE names == <<"ADD", "XOR", "OR", "AND", "SLL", "SRL", "SLT", "SLTU">>
           f3s == <<0, 4, 6, 7, 1, 5, 2, 3>>
           k == 8
<1>1. k \in Nat /\ DOMAIN names = 1 .. k
  OBVIOUS
<1>2. \A n \in 1 .. k : f3s[n] \in Nat
  OBVIOUS
<1>3. \A m, n \in 1 .. k : m # n => f3s[m] # f3s[n]
  OBVIOUS
<1>4. {ByFunct7(names[n], "OP", f3s[n], 0) : n \in 1 .. k}
      = {ByFunct7("ADD", "OP", 0, 0), ByFunct7("XOR", "OP", 4, 0),
         ByFunct7("OR", "OP", 6, 0), ByFunct7("AND", "OP", 7, 0),
         ByFunct7("SLL", "OP", 1, 0), ByFunct7("SRL", "OP", 5, 0),
         ByFunct7("SLT", "OP", 2, 0), ByFunct7("SLTU", "OP", 3, 0)}
  BY SMTT(30)
<1>5. OpBase = Funct7Rows("OP", 0, names, f3s)
  BY DEF OpBase
<1> HIDE DEF names, f3s, k
<1>6. /\ IsTable(Funct7Rows("OP", 0, names, f3s)) /\ Separate(Funct7Rows("OP", 0, names, f3s))
      /\ Range(Funct7Rows("OP", 0, names, f3s)) = {ByFunct7(names[n], "OP", f3s[n], 0) : n \in 1 .. k}
  BY <1>1, <1>2, <1>3, Funct7Table, SMT
<1>7. QED
  BY <1>4, <1>5, <1>6, Zenon

\* The register operations with funct7 = 32.
OpAlt == Funct7Rows("OP", 32, <<"SUB", "SRA">>, <<0, 5>>)

\* The register operations with funct7 = 32: what the table OpAlt consists of.
LEMMA OpAltTable ==
    /\ IsTable(OpAlt) /\ Separate(OpAlt)
    /\ Range(OpAlt) = {ByFunct7("SUB", "OP", 0, 32), ByFunct7("SRA", "OP", 5, 32)}
<1> DEFINE names == <<"SUB", "SRA">>
           f3s == <<0, 5>>
           k == 2
<1>1. k \in Nat /\ DOMAIN names = 1 .. k
  OBVIOUS
<1>2. \A n \in 1 .. k : f3s[n] \in Nat
  OBVIOUS
<1>3. \A m, n \in 1 .. k : m # n => f3s[m] # f3s[n]
  OBVIOUS
<1>4. {ByFunct7(names[n], "OP", f3s[n], 32) : n \in 1 .. k}
      = {ByFunct7("SUB", "OP", 0, 32), ByFunct7("SRA", "OP", 5, 32)}
  BY SMTT(30)
<1>5. OpAlt = Funct7Rows("OP", 32, names, f3s)
  BY DEF OpAlt
<1> HIDE DEF names, f3s, k
<1>6. /\ IsTable(Funct7Rows("OP", 32, names, f3s)) /\ Separate(Funct7Rows("OP", 32, names, f3s))
      /\ Range(Funct7Rows("OP", 32, names, f3s)) = {ByFunct7(names[n], "OP", f3s[n], 32) : n \in 1 .. k}
  BY <1>1, <1>2, <1>3, Funct7Table, SMT
<1>7. QED
  BY <1>4, <1>5, <1>6, Zenon

\* The immediate operations that are no shifts.
ImmPlain == Funct3Rows("IMM", <<"ADDI", "XORI", "ORI", "ANDI", "SLTI", "SLTIU">>,
                       <<0, 4, 6, 7, 2, 3>>)

\* The immediate operations that are no shifts: what the table ImmPlain consists of.
LEMMA ImmPlainTable ==
    /\ IsTable(ImmPlain) /\ Separate(ImmPlain)
    /\ Range(ImmPlain) = {ByFunct3("ADDI", "IMM", 0), ByFunct3("XORI", "IMM", 4),
                          ByFunct3("ORI", "IMM", 6), ByFunct3("ANDI", "IMM", 7),
                          ByFunct3("SLTI", "IMM", 2), ByFunct3("SLTIU", "IMM", 3)}
<1> DEFINE names == <<"ADDI", "XORI", "ORI", "ANDI", "SLTI", "SLTIU">>
           f3s == <<0, 4, 6, 7, 2, 3>>
           k == 6
<1>1. k \in Nat /\ DOMAIN names = 1 .. k
  OBVIOUS
<1>2. \A n \in 1 .. k : f3s[n] \in Nat
  OBVIOUS
<1>3. \A m, n \in 1 .. k : m # n => f3s[m] # f3s[n]
  OBVIOUS
<1>4. {ByFunct3(names[n], "IMM", f3s[n]) : n \in 1 .. k}
      = {ByFunct3("ADDI", "IMM", 0), ByFunct3("XORI", "IMM", 4),
         ByFunct3("ORI", "IMM", 6), ByFunct3("ANDI", "IMM", 7),
         ByFunct3("SLTI", "IMM", 2), ByFunct3("SLTIU", "IMM", 3)}
  BY SMTT(30)
<1>5. ImmPlain = Funct3Rows("IMM", names, f3s)
  BY DEF ImmPlain
<1> HIDE DEF names, f3s, k
<1>6. /\ IsTable(Funct3Rows("IMM", names, f3s)) /\ Separate(Funct3Rows("IMM", names, f3s))
      /\ Range(Funct3Rows("IMM", names, f3s)) = {ByFunct3(names[n], "IMM", f3s[n]) : n \in 1 .. k}
  BY <1>1, <1>2, <1>3, Funct3Table, SMT
<1>7. QED
  BY <1>4, <1>5, <1>6, Zenon

\* The logical shifts.
ImmShift == Funct7Rows("IMM", 0, <<"SLLI", "SRLI">>, <<1, 5>>)

\* The logical shifts: what the table ImmShift consists of.
LEMMA ImmShiftTable ==
    /\ IsTable(ImmShift) /\ Separate(ImmShift)
    /\ Range(ImmShift) = {ByFunct7("SLLI", "IMM", 1, 0), ByFunct7("SRLI", "IMM", 5, 0)}
<1> DEFINE names == <<"SLLI", "SRLI">>
           f3s == <<1, 5>>
           k == 2
<1>1. k \in Nat /\ DOMAIN names = 1 .. k
  OBVIOUS
<1>2. \A n \in 1 .. k : f3s[n] \in Nat
  OBVIOUS
<1>3. \A m, n \in 1 .. k : m # n => f3s[m] # f3s[n]
  OBVIOUS
<1>4. {ByFunct7(names[n], "IMM", f3s[n], 0) : n \in 1 .. k}
      = {ByFunct7("SLLI", "IMM", 1, 0), ByFunct7("SRLI", "IMM", 5, 0)}
  BY SMTT(30)
<1>5. ImmShift = Funct7Rows("IMM", 0, names, f3s)
  BY DEF ImmShift
<1> HIDE DEF names, f3s, k
<1>6. /\ IsTable(Funct7Rows("IMM", 0, names, f3s)) /\ Separate(Funct7Rows("IMM", 0, names, f3s))
      /\ Range(Funct7Rows("IMM", 0, names, f3s)) = {ByFunct7(names[n], "IMM", f3s[n], 0) : n \in 1 .. k}
  BY <1>1, <1>2, <1>3, Funct7Table, SMT
<1>7. QED
  BY <1>4, <1>5, <1>6, Zenon

\* The arithmetic shift.
ImmAlt == Funct7Rows("IMM", 32, <<"SRAI">>, <<5>>)

\* The arithmetic shift: what the table ImmAlt consists of.
LEMMA ImmAltTable ==
    /\ IsTable(ImmAlt) /\ Separate(ImmAlt)
    /\ Range(ImmAlt) = {ByFunct7("SRAI", "IMM", 5, 32)}
<1> DEFINE names == <<"SRAI">>
           f3s == <<5>>
           k == 1
<1>1. k \in Nat /\ DOMAIN names = 1 .. k
  OBVIOUS
<1>2. \A n \in 1 .. k : f3s[n] \in Nat
  OBVIOUS
<1>3. \A m, n \in 1 .. k : m # n => f3s[m] # f3s[n]
  OBVIOUS
<1>4. {ByFunct7(names[n], "IMM", f3s[n], 32) : n \in 1 .. k}
      = {ByFunct7("SRAI", "IMM", 5, 32)}
  BY SMTT(30)
<1>5. ImmAlt = Funct7Rows("IMM", 32, names, f3s)
  BY DEF ImmAlt
<1> HIDE DEF names, f3s, k
<1>6. /\ IsTable(Funct7Rows("IMM", 32, names, f3s)) /\ Separate(Funct7Rows("IMM", 32, names, f3s))
      /\ Range(Funct7Rows("IMM", 32, names, f3s)) = {ByFunct7(names[n], "IMM", f3s[n], 32) : n \in 1 .. k}
  BY <1>1, <1>2, <1>3, Funct7Table, SMT
<1>7. QED
  BY <1>4, <1>5, <1>6, Zenon

\* The loads.
Loads == Funct3Rows("LOAD", <<"LB", "LH", "LW", "LBU", "LHU">>, <<0, 1, 2, 4, 5>>)

\* The loads: what the table Loads consists of.
LEMMA LoadsTable ==
    /\ IsTable(Loads) /\ Separate(Loads)
    /\ Range(Loads) = {ByFunct3("LB", "LOAD", 0), ByFunct3("LH", "LOAD", 1),
                       ByFunct3("LW", "LOAD", 2), ByFunct3("LBU", "LOAD", 4),
                       ByFunct3("LHU", "LOAD", 5)}
<1> DEFINE names == <<"LB", "LH", "LW", "LBU", "LHU">>
           f3s == <<0, 1, 2, 4, 5>>
           k == 5
<1>1. k \in Nat /\ DOMAIN names = 1 .. k
  OBVIOUS
<1>2. \A n \in 1 .. k : f3s[n] \in Nat
  OBVIOUS
<1>3. \A m, n \in 1 .. k : m # n => f3s[m] # f3s[n]
  OBVIOUS
<1>4. {ByFunct3(names[n], "LOAD", f3s[n]) : n \in 1 .. k}
      = {ByFunct3("LB", "LOAD", 0), ByFunct3("LH", "LOAD", 1),
         ByFunct3("LW", "LOAD", 2), ByFunct3("LBU", "LOAD", 4),
         ByFunct3("LHU", "LOAD", 5)}
  BY SMTT(30)
<1>5. Loads = Funct3Rows("LOAD", names, f3s)
  BY DEF Loads
<1> HIDE DEF names, f3s, k
<1>6. /\ IsTable(Funct3Rows("LOAD", names, f3s)) /\ Separate(Funct3Rows("LOAD", names, f3s))
      /\ Range(Funct3Rows("LOAD", names, f3s)) = {ByFunct3(names[n], "LOAD", f3s[n]) : n \in 1 .. k}
  BY <1>1, <1>2, <1>3, Funct3Table, SMT
<1>7. QED
  BY <1>4, <1>5, <1>6, Zenon

\* The stores.
Stores == Funct3Rows("STORE", <<"SB", "SH", "SW">>, <<0, 1, 2>>)

\* The stores: what the table Stores consists of.
LEMMA StoresTable ==
    /\ IsTable(Stores) /\ Separate(Stores)
    /\ Range(Stores) = {ByFunct3("SB", "STORE", 0), ByFunct3("SH", "STORE", 1),
                        ByFunct3("SW", "STORE", 2)}
<1> DEFINE names == <<"SB", "SH", "SW">>
           f3s == <<0, 1, 2>>
           k == 3
<1>1. k \in Nat /\ DOMAIN names = 1 .. k
  OBVIOUS
<1>2. \A n \in 1 .. k : f3s[n] \in Nat
  OBVIOUS
<1>3. \A m, n \in 1 .. k : m # n => f3s[m] # f3s[n]
  OBVIOUS
<1>4. {ByFunct3(names[n], "STORE", f3s[n]) : n \in 1 .. k}
      = {ByFunct3("SB", "STORE", 0), ByFunct3("SH", "STORE", 1),
         ByFunct3("SW", "STORE", 2)}
  BY SMTT(30)
<1>5. Stores = Funct3Rows("STORE", names, f3s)
  BY DEF Stores
<1> HIDE DEF names, f3s, k
<1>6. /\ IsTable(Funct3Rows("STORE", names, f3s)) /\ Separate(Funct3Rows("STORE", names, f3s))
      /\ Range(Funct3Rows("STORE", names, f3s)) = {ByFunct3(names[n], "STORE", f3s[n]) : n \in 1 .. k}
  BY <1>1, <1>2, <1>3, Funct3Table, SMT
<1>7. QED
  BY <1>4, <1>5, <1>6, Zenon

\* The branches.
Branches == Funct3Rows("BRANCH", <<"BEQ", "BNE", "BLT", "BGE", "BLTU", "BGEU">>,
                       <<0, 1, 4, 5, 6, 7>>)

\* The branches: what the table Branches consists of.
LEMMA BranchesTable ==
    /\ IsTable(Branches) /\ Separate(Branches)
    /\ Range(Branches) = {ByFunct3("BEQ", "BRANCH", 0), ByFunct3("BNE", "BRANCH", 1),
                          ByFunct3("BLT", "BRANCH", 4), ByFunct3("BGE", "BRANCH", 5),
                          ByFunct3("BLTU", "BRANCH", 6), ByFunct3("BGEU", "BRANCH", 7)}
<1> DEFINE names == <<"BEQ", "BNE", "BLT", "BGE", "BLTU", "BGEU">>
           f3s == <<0, 1, 4, 5, 6, 7>>
           k == 6
<1>1. k \in Nat /\ DOMAIN names = 1 .. k
  OBVIOUS
<1>2. \A n \in 1 .. k : f3s[n] \in Nat
  OBVIOUS
<1>3. \A m, n \in 1 .. k : m # n => f3s[m] # f3s[n]
  OBVIOUS
<1>4. {ByFunct3(names[n], "BRANCH", f3s[n]) : n \in 1 .. k}
      = {ByFunct3("BEQ", "BRANCH", 0), ByFunct3("BNE", "BRANCH", 1),
         ByFunct3("BLT", "BRANCH", 4), ByFunct3("BGE", "BRANCH", 5),
         ByFunct3("BLTU", "BRANCH", 6), ByFunct3("BGEU", "BRANCH", 7)}
  BY SMTT(30)
<1>5. Branches = Funct3Rows("BRANCH", names, f3s)
  BY DEF Branches
<1> HIDE DEF names, f3s, k
<1>6. /\ IsTable(Funct3Rows("BRANCH", names, f3s)) /\ Separate(Funct3Rows("BRANCH", names, f3s))
      /\ Range(Funct3Rows("BRANCH", names, f3s)) = {ByFunct3(names[n], "BRANCH", f3s[n]) : n \in 1 .. k}
  BY <1>1, <1>2, <1>3, Funct3Table, SMT
<1>7. QED
  BY <1>4, <1>5, <1>6, Zenon

\* The multiplications and divisions: what the table RV32M consists of.
LEMMA RV32MTable ==
    /\ IsTable(RV32M) /\ Separate(RV32M)
    /\ Range(RV32M) = {ByFunct7("MUL", "OP", 0, 1), ByFunct7("MULH", "OP", 1, 1),
                       ByFunct7("MULHSU", "OP", 2, 1), ByFunct7("MULHU", "OP", 3, 1),
                       ByFunct7("DIV", "OP", 4, 1), ByFunct7("DIVU", "OP", 5, 1),
                       ByFunct7("REM", "OP", 6, 1), ByFunct7("REMU", "OP", 7, 1)}
<1> DEFINE names == <<"MUL", "MULH", "MULHSU", "MULHU", "DIV", "DIVU", "REM", "REMU">>
           f3s == <<0, 1, 2, 3, 4, 5, 6, 7>>
           k == 8
<1>1. k \in Nat /\ DOMAIN names = 1 .. k
  OBVIOUS
<1>2. \A n \in 1 .. k : f3s[n] \in Nat
  OBVIOUS
<1>3. \A m, n \in 1 .. k : m # n => f3s[m] # f3s[n]
  OBVIOUS
<1>4. {ByFunct7(names[n], "OP", f3s[n], 1) : n \in 1 .. k}
      = {ByFunct7("MUL", "OP", 0, 1), ByFunct7("MULH", "OP", 1, 1),
         ByFunct7("MULHSU", "OP", 2, 1), ByFunct7("MULHU", "OP", 3, 1),
         ByFunct7("DIV", "OP", 4, 1), ByFunct7("DIVU", "OP", 5, 1),
         ByFunct7("REM", "OP", 6, 1), ByFunct7("REMU", "OP", 7, 1)}
  BY SMTT(30)
<1>5. RV32M = Funct7Rows("OP", 1, names, f3s)
  BY DEF RV32M
<1> HIDE DEF names, f3s, k
<1>6. /\ IsTable(Funct7Rows("OP", 1, names, f3s)) /\ Separate(Funct7Rows("OP", 1, names, f3s))
      /\ Range(Funct7Rows("OP", 1, names, f3s)) = {ByFunct7(names[n], "OP", f3s[n], 1) : n \in 1 .. k}
  BY <1>1, <1>2, <1>3, Funct7Table, SMT
<1>7. QED
  BY <1>4, <1>5, <1>6, Zenon

\* The chain's immediate operations before the shifts.
ImmLogic == Funct3Rows("IMM", <<"ADDI", "XORI", "ORI", "ANDI">>, <<0, 4, 6, 7>>)

\* The chain's immediate operations before the shifts: what the table ImmLogic consists of.
LEMMA ImmLogicTable ==
    /\ IsTable(ImmLogic) /\ Separate(ImmLogic)
    /\ Range(ImmLogic) = {ByFunct3("ADDI", "IMM", 0), ByFunct3("XORI", "IMM", 4),
                          ByFunct3("ORI", "IMM", 6), ByFunct3("ANDI", "IMM", 7)}
<1> DEFINE names == <<"ADDI", "XORI", "ORI", "ANDI">>
           f3s == <<0, 4, 6, 7>>
           k == 4
<1>1. k \in Nat /\ DOMAIN names = 1 .. k
  OBVIOUS
<1>2. \A n \in 1 .. k : f3s[n] \in Nat
  OBVIOUS
<1>3. \A m, n \in 1 .. k : m # n => f3s[m] # f3s[n]
  OBVIOUS
<1>4. {ByFunct3(names[n], "IMM", f3s[n]) : n \in 1 .. k}
      = {ByFunct3("ADDI", "IMM", 0), ByFunct3("XORI", "IMM", 4),
         ByFunct3("ORI", "IMM", 6), ByFunct3("ANDI", "IMM", 7)}
  BY SMTT(30)
<1>5. ImmLogic = Funct3Rows("IMM", names, f3s)
  BY DEF ImmLogic
<1> HIDE DEF names, f3s, k
<1>6. /\ IsTable(Funct3Rows("IMM", names, f3s)) /\ Separate(Funct3Rows("IMM", names, f3s))
      /\ Range(Funct3Rows("IMM", names, f3s)) = {ByFunct3(names[n], "IMM", f3s[n]) : n \in 1 .. k}
  BY <1>1, <1>2, <1>3, Funct3Table, SMT
<1>7. QED
  BY <1>4, <1>5, <1>6, Zenon

\* Those after the shifts.
ImmCompare == Funct3Rows("IMM", <<"SLTI", "SLTIU">>, <<2, 3>>)

\* Those after the shifts: what the table ImmCompare consists of.
LEMMA ImmCompareTable ==
    /\ IsTable(ImmCompare) /\ Separate(ImmCompare)
    /\ Range(ImmCompare) = {ByFunct3("SLTI", "IMM", 2), ByFunct3("SLTIU", "IMM", 3)}
<1> DEFINE names == <<"SLTI", "SLTIU">>
           f3s == <<2, 3>>
           k == 2
<1>1. k \in Nat /\ DOMAIN names = 1 .. k
  OBVIOUS
<1>2. \A n \in 1 .. k : f3s[n] \in Nat
  OBVIOUS
<1>3. \A m, n \in 1 .. k : m # n => f3s[m] # f3s[n]
  OBVIOUS
<1>4. {ByFunct3(names[n], "IMM", f3s[n]) : n \in 1 .. k}
      = {ByFunct3("SLTI", "IMM", 2), ByFunct3("SLTIU", "IMM", 3)}
  BY SMTT(30)
<1>5. ImmCompare = Funct3Rows("IMM", names, f3s)
  BY DEF ImmCompare
<1> HIDE DEF names, f3s, k
<1>6. /\ IsTable(Funct3Rows("IMM", names, f3s)) /\ Separate(Funct3Rows("IMM", names, f3s))
      /\ Range(Funct3Rows("IMM", names, f3s)) = {ByFunct3(names[n], "IMM", f3s[n]) : n \in 1 .. k}
  BY <1>1, <1>2, <1>3, Funct3Table, SMT
<1>7. QED
  BY <1>4, <1>5, <1>6, Zenon

\* The chain's register operations before SRA.
OpLogic == Funct7Rows("OP", 0, <<"XOR", "OR", "AND", "SLL", "SRL">>, <<4, 6, 7, 1, 5>>)

\* The chain's register operations before SRA: what the table OpLogic consists of.
LEMMA OpLogicTable ==
    /\ IsTable(OpLogic) /\ Separate(OpLogic)
    /\ Range(OpLogic) = {ByFunct7("XOR", "OP", 4, 0), ByFunct7("OR", "OP", 6, 0),
                         ByFunct7("AND", "OP", 7, 0), ByFunct7("SLL", "OP", 1, 0),
                         ByFunct7("SRL", "OP", 5, 0)}
<1> DEFINE names == <<"XOR", "OR", "AND", "SLL", "SRL">>
           f3s == <<4, 6, 7, 1, 5>>
           k == 5
<1>1. k \in Nat /\ DOMAIN names = 1 .. k
  OBVIOUS
<1>2. \A n \in 1 .. k : f3s[n] \in Nat
  OBVIOUS
<1>3. \A m, n \in 1 .. k : m # n => f3s[m] # f3s[n]
  OBVIOUS
<1>4. {ByFunct7(names[n], "OP", f3s[n], 0) : n \in 1 .. k}
      = {ByFunct7("XOR", "OP", 4, 0), ByFunct7("OR", "OP", 6, 0),
         ByFunct7("AND", "OP", 7, 0), ByFunct7("SLL", "OP", 1, 0),
         ByFunct7("SRL", "OP", 5, 0)}
  BY SMTT(30)
<1>5. OpLogic = Funct7Rows("OP", 0, names, f3s)
  BY DEF OpLogic
<1> HIDE DEF names, f3s, k
<1>6. /\ IsTable(Funct7Rows("OP", 0, names, f3s)) /\ Separate(Funct7Rows("OP", 0, names, f3s))
      /\ Range(Funct7Rows("OP", 0, names, f3s)) = {ByFunct7(names[n], "OP", f3s[n], 0) : n \in 1 .. k}
  BY <1>1, <1>2, <1>3, Funct7Table, SMT
<1>7. QED
  BY <1>4, <1>5, <1>6, Zenon

\* Those after SRA.
OpCompare == Funct7Rows("OP", 0, <<"SLT", "SLTU">>, <<2, 3>>)

\* Those after SRA: what the table OpCompare consists of.
LEMMA OpCompareTable ==
    /\ IsTable(OpCompare) /\ Separate(OpCompare)
    /\ Range(OpCompare) = {ByFunct7("SLT", "OP", 2, 0), ByFunct7("SLTU", "OP", 3, 0)}
<1> DEFINE names == <<"SLT", "SLTU">>
           f3s == <<2, 3>>
           k == 2
<1>1. k \in Nat /\ DOMAIN names = 1 .. k
  OBVIOUS
<1>2. \A n \in 1 .. k : f3s[n] \in Nat
  OBVIOUS
<1>3. \A m, n \in 1 .. k : m # n => f3s[m] # f3s[n]
  OBVIOUS
<1>4. {ByFunct7(names[n], "OP", f3s[n], 0) : n \in 1 .. k}
      = {ByFunct7("SLT", "OP", 2, 0), ByFunct7("SLTU", "OP", 3, 0)}
  BY SMTT(30)
<1>5. OpCompare = Funct7Rows("OP", 0, names, f3s)
  BY DEF OpCompare
<1> HIDE DEF names, f3s, k
<1>6. /\ IsTable(Funct7Rows("OP", 0, names, f3s)) /\ Separate(Funct7Rows("OP", 0, names, f3s))
      /\ Range(Funct7Rows("OP", 0, names, f3s)) = {ByFunct7(names[n], "OP", f3s[n], 0) : n \in 1 .. k}
  BY <1>1, <1>2, <1>3, Funct7Table, SMT
<1>7. QED
  BY <1>4, <1>5, <1>6, Zenon

\* The chain's loads.
ChainLoads == Funct3Rows("LOAD", <<"LB", "LBU", "LH", "LHU", "LW">>, <<0, 4, 1, 5, 2>>)

\* The chain's loads: what the table ChainLoads consists of.
LEMMA ChainLoadsTable ==
    /\ IsTable(ChainLoads) /\ Separate(ChainLoads)
    /\ Range(ChainLoads) = {ByFunct3("LB", "LOAD", 0), ByFunct3("LBU", "LOAD", 4),
                            ByFunct3("LH", "LOAD", 1), ByFunct3("LHU", "LOAD", 5),
                            ByFunct3("LW", "LOAD", 2)}
<1> DEFINE names == <<"LB", "LBU", "LH", "LHU", "LW">>
           f3s == <<0, 4, 1, 5, 2>>
           k == 5
<1>1. k \in Nat /\ DOMAIN names = 1 .. k
  OBVIOUS
<1>2. \A n \in 1 .. k : f3s[n] \in Nat
  OBVIOUS
<1>3. \A m, n \in 1 .. k : m # n => f3s[m] # f3s[n]
  OBVIOUS
<1>4. {ByFunct3(names[n], "LOAD", f3s[n]) : n \in 1 .. k}
      = {ByFunct3("LB", "LOAD", 0), ByFunct3("LBU", "LOAD", 4),
         ByFunct3("LH", "LOAD", 1), ByFunct3("LHU", "LOAD", 5),
         ByFunct3("LW", "LOAD", 2)}
  BY SMTT(30)
<1>5. ChainLoads = Funct3Rows("LOAD", names, f3s)
  BY DEF ChainLoads
<1> HIDE DEF names, f3s, k
<1>6. /\ IsTable(Funct3Rows("LOAD", names, f3s)) /\ Separate(Funct3Rows("LOAD", names, f3s))
      /\ Range(Funct3Rows("LOAD", names, f3s)) = {ByFunct3(names[n], "LOAD", f3s[n]) : n \in 1 .. k}
  BY <1>1, <1>2, <1>3, Funct3Table, SMT
<1>7. QED
  BY <1>4, <1>5, <1>6, Zenon

\* A table of 1 row.
LEMMA Tuple1 ==
    ASSUME NEW a
    PROVE  IsTable(<<a>>) /\ Range(<<a>>) = {a}
<1>1. DOMAIN <<a>> = 1 .. 1
  OBVIOUS
<1>2. Range(<<a>>) = {a}
  BY <1>1 DEF Range
<1>3. <<a>> \in Seq({a})
  OBVIOUS
<1>4. QED
  BY <1>2, <1>3 DEF IsTable

\* A table of 2 rows.
LEMMA Tuple2 ==
    ASSUME NEW a, NEW b
    PROVE  IsTable(<<a, b>>) /\ Range(<<a, b>>) = {a, b}
<1>1. DOMAIN <<a, b>> = 1 .. 2
  OBVIOUS
<1>2. Range(<<a, b>>) = {a, b}
  BY <1>1 DEF Range
<1>3. <<a, b>> \in Seq({a, b})
  OBVIOUS
<1>4. QED
  BY <1>2, <1>3 DEF IsTable

\* A table of 3 rows.
LEMMA Tuple3 ==
    ASSUME NEW a, NEW b, NEW c
    PROVE  IsTable(<<a, b, c>>) /\ Range(<<a, b, c>>) = {a, b, c}
<1>1. DOMAIN <<a, b, c>> = 1 .. 3
  OBVIOUS
<1>2. Range(<<a, b, c>>) = {a, b, c}
  BY <1>1 DEF Range
<1>3. <<a, b, c>> \in Seq({a, b, c})
  OBVIOUS
<1>4. QED
  BY <1>2, <1>3 DEF IsTable

\* A table of 6 rows.
LEMMA Tuple6 ==
    ASSUME NEW a, NEW b, NEW c, NEW d, NEW e, NEW f
    PROVE  IsTable(<<a, b, c, d, e, f>>) /\ Range(<<a, b, c, d, e, f>>) = {a, b, c, d, e, f}
<1>1. DOMAIN <<a, b, c, d, e, f>> = 1 .. 6
  OBVIOUS
<1>2. Range(<<a, b, c, d, e, f>>) = {a, b, c, d, e, f}
  BY <1>1 DEF Range
<1>3. <<a, b, c, d, e, f>> \in Seq({a, b, c, d, e, f})
  OBVIOUS
<1>4. QED
  BY <1>2, <1>3 DEF IsTable

\* The rest of RV32I.
Rest == <<ByOpcode("JAL", "JAL"), ByFunct3("JALR", "JALR", 0),
          ByOpcode("LUI", "LUI"), ByOpcode("AUIPC", "AUIPC"),
          Row("ECALL", "SYSTEM", Any, Any, Any, 0), Row("EBREAK", "SYSTEM", Any, Any, Any, 1)>>

\* What the table Rest consists of.
LEMMA RestTable ==
    /\ IsTable(Rest) /\ Separate(Rest)
    /\ Range(Rest) = {ByOpcode("JAL", "JAL"), ByFunct3("JALR", "JALR", 0),
                      ByOpcode("LUI", "LUI"), ByOpcode("AUIPC", "AUIPC"),
                      Row("ECALL", "SYSTEM", Any, Any, Any, 0), Row("EBREAK", "SYSTEM", Any, Any, Any, 1)}
<1>1. DOMAIN Rest = 1 .. 6
  BY DEF Rest
<1>2. /\ Rest[1].opcode = "JAL" /\ Rest[2].opcode = "JALR" /\ Rest[3].opcode = "LUI"
      /\ Rest[4].opcode = "AUIPC" /\ Rest[5].opcode = "SYSTEM" /\ Rest[6].opcode = "SYSTEM"
      /\ Rest[5].top = 0 /\ Rest[6].top = 1
  BY DEF Rest, ByOpcode, ByFunct3, Row
<1>3. Separate(Rest)
  BY <1>1, <1>2, SMTT(30) DEF Separate, Apart, Conflict, Any
<1>4. QED
  BY <1>3, Tuple6 DEF Rest

\* Load-reserved and store-conditional.
LEMMA RV32ATable ==
    /\ IsTable(RV32A) /\ Separate(RV32A)
    /\ Range(RV32A) = {Row("LR_W", "AMO", 2, Any, 2, Any), Row("SC_W", "AMO", 2, Any, 3, Any)}
<1>1. DOMAIN RV32A = 1 .. 2
  BY DEF RV32A
<1>2. RV32A[1].f5 = 2 /\ RV32A[2].f5 = 3
  BY DEF RV32A, Row
<1>3. Separate(RV32A)
  BY <1>1, <1>2 DEF Separate, Apart, Conflict, Any
<1>4. QED
  BY <1>3, Tuple2 DEF RV32A

\* What tells the rows of one part from those of another.
LEMMA Keys ==
    /\ \A p \in Range(OpBase) : p.opcode = "OP" /\ p.f7 = 0
    /\ \A p \in Range(OpAlt) : p.opcode = "OP" /\ p.f7 = 32
    /\ \A p \in Range(RV32M) : p.opcode = "OP" /\ p.f7 = 1
    /\ \A p \in Range(ImmPlain) : p.opcode = "IMM" /\ p.f3 \in {0, 4, 6, 7, 2, 3}
    /\ \A p \in Range(ImmShift) : p.opcode = "IMM" /\ p.f3 \in {1, 5} /\ p.f7 = 0
    /\ \A p \in Range(ImmAlt) : p.opcode = "IMM" /\ p.f3 = 5 /\ p.f7 = 32
    /\ \A p \in Range(Loads) : p.opcode = "LOAD"
    /\ \A p \in Range(Stores) : p.opcode = "STORE"
    /\ \A p \in Range(Branches) : p.opcode = "BRANCH"
    /\ \A p \in Range(RV32A) : p.opcode = "AMO"
    /\ \A p \in Range(Rest) : p.opcode \in {"JAL", "JALR", "LUI", "AUIPC", "SYSTEM"}
<1>1. \A p \in Range(OpBase) : p.opcode = "OP" /\ p.f7 = 0
  BY OpBaseTable DEF ByFunct7, Row
<1>2. \A p \in Range(OpAlt) : p.opcode = "OP" /\ p.f7 = 32
  BY OpAltTable DEF ByFunct7, Row
<1>3. \A p \in Range(RV32M) : p.opcode = "OP" /\ p.f7 = 1
  BY RV32MTable DEF ByFunct7, Row
<1>4. \A p \in Range(ImmPlain) : p.opcode = "IMM" /\ p.f3 \in {0, 4, 6, 7, 2, 3}
  BY ImmPlainTable DEF ByFunct3, Row
<1>5. \A p \in Range(ImmShift) : p.opcode = "IMM" /\ p.f3 \in {1, 5} /\ p.f7 = 0
  BY ImmShiftTable DEF ByFunct7, Row
<1>6. \A p \in Range(ImmAlt) : p.opcode = "IMM" /\ p.f3 = 5 /\ p.f7 = 32
  BY ImmAltTable DEF ByFunct7, Row
<1>7. \A p \in Range(Loads) : p.opcode = "LOAD"
  BY LoadsTable DEF ByFunct3, Row
<1>8. \A p \in Range(Stores) : p.opcode = "STORE"
  BY StoresTable DEF ByFunct3, Row
<1>9. \A p \in Range(Branches) : p.opcode = "BRANCH"
  BY BranchesTable DEF ByFunct3, Row
<1>10. \A p \in Range(RV32A) : p.opcode = "AMO"
  BY RV32ATable DEF Row
<1>11. \A p \in Range(Rest) : p.opcode \in {"JAL", "JALR", "LUI", "AUIPC", "SYSTEM"}
  BY RestTable DEF ByOpcode, ByFunct3, Row
<1>12. QED
  BY <1>1, <1>2, <1>3, <1>4, <1>5, <1>6, <1>7, <1>8, <1>9, <1>10, <1>11

\* The rows of the whole table, and that no word matches two of them.
LEMMA WholeTable ==
    /\ IsTable(SPEC_LISTS) /\ Separate(SPEC_LISTS)
    /\ Range(SPEC_LISTS) =
           Range(OpBase) \cup Range(OpAlt) \cup Range(ImmPlain) \cup Range(ImmShift) \cup Range(ImmAlt)
           \cup Range(Loads) \cup Range(Stores) \cup Range(Branches) \cup Range(Rest)
           \cup Range(RV32M) \cup Range(RV32A)
<1> DEFINE p1 == OpBase
           p2 == p1 \o OpAlt
           p3 == p2 \o ImmPlain
           p4 == p3 \o ImmShift
           p5 == p4 \o ImmAlt
           p6 == p5 \o Loads
           p7 == p6 \o Stores
           p8 == p7 \o Branches
           p9 == p8 \o Rest
           p10 == p9 \o RV32M
           p11 == p10 \o RV32A
<1>1. SPEC_LISTS = p11
  BY DEF SPEC_LISTS, RV32I, OpBase, OpAlt, ImmPlain, ImmShift, ImmAlt, Loads, Stores, Branches, Rest
<1>2. IsTable(p1) /\ Separate(p1)
  BY OpBaseTable
<1>3. IsTable(p2) /\ Separate(p2) /\ Range(p2) = Range(OpBase) \cup Range(OpAlt)
  <2>1. \A p \in Range(p1), q \in Range(OpAlt) : Apart(p, q)
    BY Keys, SMTT(30) DEF Apart, Conflict, Any
  <2> HIDE DEF p1
  <2>2. QED
    BY <1>2, <2>1, OpAltTable, Concatenation DEF p1
<1>4. IsTable(p3) /\ Separate(p3) /\ Range(p3) = Range(p2) \cup Range(ImmPlain)
  <2>1. \A p \in Range(p2), q \in Range(ImmPlain) : Apart(p, q)
    BY <1>3, Keys, SMTT(30) DEF Apart, Conflict, Any
  <2> HIDE DEF p2
  <2>2. QED
    BY <1>3, <2>1, ImmPlainTable, Concatenation
<1>5. IsTable(p4) /\ Separate(p4) /\ Range(p4) = Range(p3) \cup Range(ImmShift)
  <2>1. \A p \in Range(p3), q \in Range(ImmShift) : Apart(p, q)
    BY <1>3, <1>4, Keys, SMTT(30) DEF Apart, Conflict, Any
  <2> HIDE DEF p3
  <2>2. QED
    BY <1>4, <2>1, ImmShiftTable, Concatenation
<1>6. IsTable(p5) /\ Separate(p5) /\ Range(p5) = Range(p4) \cup Range(ImmAlt)
  <2>1. \A p \in Range(p4), q \in Range(ImmAlt) : Apart(p, q)
    BY <1>3, <1>4, <1>5, Keys, SMTT(30) DEF Apart, Conflict, Any
  <2> HIDE DEF p4
  <2>2. QED
    BY <1>5, <2>1, ImmAltTable, Concatenation
<1>7. IsTable(p6) /\ Separate(p6) /\ Range(p6) = Range(p5) \cup Range(Loads)
  <2>1. \A p \in Range(p5), q \in Range(Loads) : Apart(p, q)
    BY <1>3, <1>4, <1>5, <1>6, Keys, SMTT(30) DEF Apart, Conflict, Any
  <2> HIDE DEF p5
  <2>2. QED
    BY <1>6, <2>1, LoadsTable, Concatenation
<1>8. IsTable(p7) /\ Separate(p7) /\ Range(p7) = Range(p6) \cup Range(Stores)
  <2>1. \A p \in Range(p6), q \in Range(Stores) : Apart(p, q)
    BY <1>3, <1>4, <1>5, <1>6, <1>7, Keys, SMTT(30) DEF Apart, Conflict, Any
  <2> HIDE DEF p6
  <2>2. QED
    BY <1>7, <2>1, StoresTable, Concatenation
<1>9. IsTable(p8) /\ Separate(p8) /\ Range(p8) = Range(p7) \cup Range(Branches)
  <2>1. \A p \in Range(p7), q \in Range(Branches) : Apart(p, q)
    BY <1>3, <1>4, <1>5, <1>6, <1>7, <1>8, Keys, SMTT(30) DEF Apart, Conflict, Any
  <2> HIDE DEF p7
  <2>2. QED
    BY <1>8, <2>1, BranchesTable, Concatenation
<1>10. IsTable(p9) /\ Separate(p9) /\ Range(p9) = Range(p8) \cup Range(Rest)
  <2>1. \A p \in Range(p8), q \in Range(Rest) : Apart(p, q)
    BY <1>3, <1>4, <1>5, <1>6, <1>7, <1>8, <1>9, Keys, SMTT(30) DEF Apart, Conflict, Any
  <2> HIDE DEF p8
  <2>2. QED
    BY <1>9, <2>1, RestTable, Concatenation
<1>11. IsTable(p10) /\ Separate(p10) /\ Range(p10) = Range(p9) \cup Range(RV32M)
  <2>1. \A p \in Range(p9), q \in Range(RV32M) : Apart(p, q)
    BY <1>3, <1>4, <1>5, <1>6, <1>7, <1>8, <1>9, <1>10, Keys, SMTT(30) DEF Apart, Conflict, Any
  <2> HIDE DEF p9
  <2>2. QED
    BY <1>10, <2>1, RV32MTable, Concatenation
<1>12. IsTable(p11) /\ Separate(p11) /\ Range(p11) = Range(p10) \cup Range(RV32A)
  <2>1. \A p \in Range(p10), q \in Range(RV32A) : Apart(p, q)
    BY <1>3, <1>4, <1>5, <1>6, <1>7, <1>8, <1>9, <1>10, <1>11, Keys, SMTT(30) DEF Apart, Conflict, Any
  <2> HIDE DEF p10
  <2>2. QED
    BY <1>11, <2>1, RV32ATable, Concatenation
<1> HIDE DEF p1, p2, p3, p4, p5, p6, p7, p8, p9, p10, p11
<1>13. QED
  BY <1>1, <1>2, <1>3, <1>4, <1>5, <1>6, <1>7, <1>8, <1>9, <1>10, <1>11, <1>12, Zenon

\* The conditions of the chain are the rows of the table, without EBREAK.
LEMMA ChainRows ==
    /\ IsTable(Conditions)
    /\ Range(SPEC_LISTS) = Range(Conditions) \cup {Row("EBREAK", "SYSTEM", Any, Any, Any, 1)}
<1> DEFINE srai == <<ByFunct7("SRAI", "IMM", 5, 32)>>
           addsub == <<ByFunct7("ADD", "OP", 0, 0), ByFunct7("SUB", "OP", 0, 32)>>
           sra == <<ByFunct7("SRA", "OP", 5, 32)>>
           jumps == <<ByOpcode("JAL", "JAL"), ByFunct3("JALR", "JALR", 0)>>
           imm2 == ImmLogic \o ImmShift
           imm3 == imm2 \o srai
           op2 == addsub \o OpLogic
           op3 == op2 \o sra
<1>1. /\ IsTable(srai) /\ Range(srai) = {ByFunct7("SRAI", "IMM", 5, 32)}
      /\ IsTable(sra) /\ Range(sra) = {ByFunct7("SRA", "OP", 5, 32)}
      /\ IsTable(addsub) /\ Range(addsub) = {ByFunct7("ADD", "OP", 0, 0), ByFunct7("SUB", "OP", 0, 32)}
      /\ IsTable(jumps) /\ Range(jumps) = {ByOpcode("JAL", "JAL"), ByFunct3("JALR", "JALR", 0)}
  BY Tuple1, Tuple2
<1>2. /\ IsTable(SystemConditions)
      /\ Range(SystemConditions) = {ByOpcode("LUI", "LUI"), ByOpcode("AUIPC", "AUIPC"),
                                    Row("ECALL", "SYSTEM", Any, Any, Any, 0)}
  BY Tuple3 DEF SystemConditions
<1>3. /\ ImmConditions = imm3 \o ImmCompare /\ OpConditions = op3 \o OpCompare
      /\ MemoryConditions = ChainLoads \o Stores /\ JumpConditions = Branches \o jumps
      /\ ExtensionConditions = RV32M \o RV32A
  BY DEF ImmConditions, ImmLogic, ImmShift, ImmCompare, OpConditions, OpLogic, OpCompare,
         MemoryConditions, ChainLoads, Stores, JumpConditions, Branches,
         ExtensionConditions, RV32M, RV32A
<1> HIDE DEF srai, addsub, sra, jumps
<1>4. /\ IsTable(ImmConditions)
      /\ Range(ImmConditions) = Range(ImmLogic) \cup Range(ImmShift) \cup Range(srai) \cup Range(ImmCompare)
  <2>1. IsTable(imm2) /\ Range(imm2) = Range(ImmLogic) \cup Range(ImmShift)
    BY ImmLogicTable, ImmShiftTable, Concatenation
  <2> HIDE DEF imm2
  <2>2. IsTable(imm3) /\ Range(imm3) = Range(imm2) \cup Range(srai)
    BY <1>1, <2>1, Concatenation
  <2> HIDE DEF imm3
  <2>3. QED
    BY <1>3, <2>1, <2>2, ImmCompareTable, Concatenation
<1>5. /\ IsTable(OpConditions)
      /\ Range(OpConditions) = Range(addsub) \cup Range(OpLogic) \cup Range(sra) \cup Range(OpCompare)
  <2>1. IsTable(op2) /\ Range(op2) = Range(addsub) \cup Range(OpLogic)
    BY <1>1, OpLogicTable, Concatenation
  <2> HIDE DEF op2
  <2>2. IsTable(op3) /\ Range(op3) = Range(op2) \cup Range(sra)
    BY <1>1, <2>1, Concatenation
  <2> HIDE DEF op3
  <2>3. QED
    BY <1>3, <2>1, <2>2, OpCompareTable, Concatenation
<1>6. IsTable(MemoryConditions) /\ Range(MemoryConditions) = Range(ChainLoads) \cup Range(Stores)
  BY <1>3, ChainLoadsTable, StoresTable, Concatenation
<1>7. IsTable(JumpConditions) /\ Range(JumpConditions) = Range(Branches) \cup Range(jumps)
  BY <1>1, <1>3, BranchesTable, Concatenation
<1>8. IsTable(ExtensionConditions) /\ Range(ExtensionConditions) = Range(RV32M) \cup Range(RV32A)
  BY <1>3, RV32MTable, RV32ATable, Concatenation
<1>9. /\ IsTable(Conditions)
      /\ Range(Conditions) = Range(ImmConditions) \cup Range(OpConditions) \cup Range(MemoryConditions)
                             \cup Range(JumpConditions) \cup Range(SystemConditions)
                             \cup Range(ExtensionConditions)
  <2> DEFINE c2 == ImmConditions \o OpConditions
             c3 == c2 \o MemoryConditions
             c4 == c3 \o JumpConditions
             c5 == c4 \o SystemConditions
             c6 == c5 \o ExtensionConditions
  <2>0. Conditions = c6
    BY DEF Conditions
  <2>1. IsTable(c2) /\ Range(c2) = Range(ImmConditions) \cup Range(OpConditions)
    BY <1>4, <1>5, Concatenation
  <2> HIDE DEF c2
  <2>2. IsTable(c3) /\ Range(c3) = Range(c2) \cup Range(MemoryConditions)
    BY <1>6, <2>1, Concatenation
  <2> HIDE DEF c3
  <2>3. IsTable(c4) /\ Range(c4) = Range(c3) \cup Range(JumpConditions)
    BY <1>7, <2>2, Concatenation
  <2> HIDE DEF c4
  <2>4. IsTable(c5) /\ Range(c5) = Range(c4) \cup Range(SystemConditions)
    BY <1>2, <2>3, Concatenation
  <2> HIDE DEF c5
  <2>5. IsTable(c6) /\ Range(c6) = Range(c5) \cup Range(ExtensionConditions)
    BY <1>8, <2>4, Concatenation
  <2> HIDE DEF c6
  <2>6. QED
    BY <2>0, <2>1, <2>2, <2>3, <2>4, <2>5
<1>10. Range(ImmPlain) \cup Range(ImmShift) \cup Range(ImmAlt) = Range(ImmConditions)
  BY <1>1, <1>4, ImmPlainTable, ImmAltTable, ImmLogicTable, ImmCompareTable
<1>11. Range(OpBase) \cup Range(OpAlt) = Range(OpConditions)
  BY <1>1, <1>5, OpBaseTable, OpAltTable, OpLogicTable, OpCompareTable
<1>12. Range(Loads) = Range(ChainLoads)
  BY LoadsTable, ChainLoadsTable
<1>13. Range(Rest) = Range(jumps) \cup Range(SystemConditions) \cup {Row("EBREAK", "SYSTEM", Any, Any, Any, 1)}
  BY <1>1, <1>2, RestTable
<1>14. Range(SPEC_LISTS) =
           Range(ImmConditions) \cup Range(OpConditions) \cup Range(ChainLoads) \cup Range(Stores)
           \cup Range(Branches) \cup Range(Rest) \cup Range(RV32M) \cup Range(RV32A)
  BY <1>10, <1>11, <1>12, WholeTable
<1>15. QED
  BY <1>6, <1>7, <1>8, <1>9, <1>13, <1>14

-----------------------------------------------------------------------------
(* Searching a table *)

\* A nonempty set of naturals has a least element.
LEMMA LeastNat ==
    ASSUME NEW S \in SUBSET Nat, S # {}
    PROVE  \E n \in S : \A m \in S : n <= m
<1> DEFINE R == {ss \in Nat \X Nat : ss[1] < ss[2]}
<1>1. IsWellFoundedOn(R, Nat)
  BY NatLessThanWellFounded, Zenon DEF OpToRel
<1>2. PICK x \in S : \A y \in S : ~ (<<y, x>> \in R)
  <2> HIDE DEF R
  <2> QED
    BY <1>1, WFMin, Zenon
<1>3. ASSUME NEW y \in S PROVE x <= y
  <2>1. x \in Nat /\ y \in Nat
    OBVIOUS
  <2>2. y < x => <<y, x>> \in R
    BY <2>1
  <2>3. ~ (y < x)
    BY <1>2, <2>2
  <2> HIDE DEF R
  <2>4. QED
    BY <2>1, <2>3
<1>4. QED
  BY <1>3

\* The search returns the type of a matching row if there is one.
LEMMA SearchFinds ==
    ASSUME NEW rows, IsTable(rows), NEW w, NEW otherwise
    PROVE  \/ \E p \in Range(rows) : Matches(p, w) /\ FirstMatch(rows, w, otherwise) = p.type
           \/ (\A p \in Range(rows) : ~ Matches(p, w)) /\ FirstMatch(rows, w, otherwise) = otherwise
<1> DEFINE H == Hits(rows, w)
<1>1. CASE H = {}
  <2>1. FirstMatch(rows, w, otherwise) = otherwise
    BY <1>1 DEF FirstMatch
  <2>2. \A p \in Range(rows) : ~ Matches(p, w)
    BY <1>1 DEF Hits, Range
  <2>3. QED
    BY <2>1, <2>2
<1>2. CASE H # {}
  <2>1. DOMAIN rows \subseteq Nat
    <3> DEFINE S == Range(rows)
    <3>1. rows \in Seq(S)
      BY DEF IsTable
    <3> HIDE DEF S
    <3>2. QED
      BY <3>1
  <2>2. H \in SUBSET Nat
    BY <2>1 DEF Hits
  <2>3. \E n \in H : \A m \in H : n <= m
    <3> HIDE DEF H
    <3> QED
      BY <1>2, <2>2, LeastNat
  <2>4. Min(H) \in H
    BY <2>3, Zenon DEF Min
  <2>5. rows[Min(H)] \in Range(rows) /\ Matches(rows[Min(H)], w)
    BY <2>4 DEF Hits, Range
  <2>6. FirstMatch(rows, w, otherwise) = rows[Min(H)].type
    BY <1>2 DEF FirstMatch
  <2>7. QED
    BY <2>5, <2>6, Zenon
<1>3. QED
  BY <1>1, <1>2

\* A word matches one row of the table at most.
LEMMA OneRow ==
    ASSUME NEW w
    PROVE  /\ \A m, n \in Hits(SPEC_LISTS, w) : m = n
           /\ \A p, q \in Range(SPEC_LISTS) : Matches(p, w) /\ Matches(q, w) => p = q
<1>1. \A m, n \in DOMAIN SPEC_LISTS :
          m # n => ~ (Matches(SPEC_LISTS[m], w) /\ Matches(SPEC_LISTS[n], w))
  BY WholeTable, ApartRows, Zenon DEF Separate
<1>2. QED
  BY <1>1, Zenon DEF Hits, Range

\* The row a word matches is what decode() finds.
LEMMA Decodes ==
    ASSUME NEW w, NEW p \in Range(SPEC_LISTS), Matches(p, w)
    PROVE  decode(w) = p.type
<1>1. \/ \E q \in Range(SPEC_LISTS) : Matches(q, w) /\ decode(w) = q.type
      \/ (\A q \in Range(SPEC_LISTS) : ~ Matches(q, w)) /\ decode(w) = "INVALID"
  BY WholeTable, SearchFinds, Zenon DEF decode
<1>2. QED
  BY <1>1, OneRow, Zenon

\* A word that matches none is INVALID.
LEMMA DecodesNothing ==
    ASSUME NEW w, \A p \in Range(SPEC_LISTS) : ~ Matches(p, w)
    PROVE  decode(w) = "INVALID"
<1>1. \/ \E q \in Range(SPEC_LISTS) : Matches(q, w) /\ decode(w) = q.type
      \/ (\A q \in Range(SPEC_LISTS) : ~ Matches(q, w)) /\ decode(w) = "INVALID"
  BY WholeTable, SearchFinds, Zenon DEF decode
<1>2. QED
  BY <1>1

\* The chain does what the table says.
LEMMA ChainAgrees ==
    ASSUME NEW w
    PROVE  Effect(runInstruction(w)) = Effect(decode(w))
<1> DEFINE eb == Row("EBREAK", "SYSTEM", Any, Any, Any, 1)
<1>1. \/ \E q \in Range(Conditions) : Matches(q, w) /\ runInstruction(w) = q.type
      \/ (\A q \in Range(Conditions) : ~ Matches(q, w)) /\ runInstruction(w) = "unsupported"
  BY ChainRows, SearchFinds, Zenon DEF runInstruction
<1>2. CASE \E q \in Range(Conditions) : Matches(q, w) /\ runInstruction(w) = q.type
  <2>1. PICK q \in Range(Conditions) : Matches(q, w) /\ runInstruction(w) = q.type
    BY <1>2
  <2>2. q \in Range(SPEC_LISTS)
    BY ChainRows
  <2>3. QED
    BY <2>1, <2>2, Decodes
<1>3. CASE (\A q \in Range(Conditions) : ~ Matches(q, w)) /\ runInstruction(w) = "unsupported"
  <2>1. CASE Matches(eb, w)
    <3>1. eb \in Range(SPEC_LISTS) /\ eb.type = "EBREAK"
      BY ChainRows DEF Row
    <3> HIDE DEF eb
    <3>2. decode(w) = "EBREAK"
      BY <2>1, <3>1, Decodes
    <3>3. QED
      BY <1>3, <3>2 DEF Effect
  <2>2. CASE ~ Matches(eb, w)
    <3>1. \A p \in Range(SPEC_LISTS) : ~ Matches(p, w)
      BY <1>3, <2>2, ChainRows
    <3>2. decode(w) = "INVALID"
      BY <3>1, DecodesNothing
    <3>3. QED
      BY <1>3, <3>2 DEF Effect
  <2>3. QED
    BY <2>1, <2>2
<1>4. QED
  BY <1>1, <1>2, <1>3

-----------------------------------------------------------------------------
(* The switch *)

\* A row that asks for funct3 decides.
LEMMA DecodesFunct3 ==
    ASSUME NEW w, NEW type, NEW op, NEW f3, ByFunct3(type, op, f3) \in Range(SPEC_LISTS),
           w.opcode = op, w.funct3 = f3
    PROVE  decode(w) = type
<1>1. Matches(ByFunct3(type, op, f3), w) /\ ByFunct3(type, op, f3).type = type
  BY DEF Matches, Agree, ByFunct3, Row, Any
<1>2. QED
  BY <1>1, Decodes

\* So does one that asks for funct7 as well.
LEMMA DecodesFunct7 ==
    ASSUME NEW w, NEW type, NEW op, NEW f3, NEW f7, ByFunct7(type, op, f3, f7) \in Range(SPEC_LISTS),
           w.opcode = op, w.funct3 = f3, funct7(w) = f7
    PROVE  decode(w) = type
<1>1. Matches(ByFunct7(type, op, f3, f7), w) /\ ByFunct7(type, op, f3, f7).type = type
  BY DEF Matches, Agree, ByFunct7, Row, Any
<1>2. QED
  BY <1>1, Decodes

\* A matching row is one of the word's opcode.
LEMMA RowsOfOpcode ==
    ASSUME NEW w, NEW p \in Range(SPEC_LISTS), Matches(p, w)
    PROVE  /\ w.opcode = "OP" => p \in Range(OpBase) \cup Range(OpAlt) \cup Range(RV32M)
           /\ w.opcode = "IMM" => p \in Range(ImmPlain) \cup Range(ImmShift) \cup Range(ImmAlt)
           /\ w.opcode = "LOAD" => p \in Range(Loads)
           /\ w.opcode = "STORE" => p \in Range(Stores)
           /\ w.opcode = "BRANCH" => p \in Range(Branches)
           /\ w.opcode = "AMO" => p \in Range(RV32A)
           /\ w.opcode \in {"JAL", "JALR", "LUI", "AUIPC", "SYSTEM"} => p \in Range(Rest)
           /\ w.opcode \in {"OP", "IMM", "LOAD", "STORE", "BRANCH", "AMO",
                            "JAL", "JALR", "LUI", "AUIPC", "SYSTEM"}
<1>1. p.opcode = w.opcode
  BY DEF Matches
<1>2. QED
  BY <1>1, WholeTable, Keys, SMTT(30)

\* Immediate operations: the switch asks for funct3 first.
LEMMA ImmAgrees ==
    ASSUME NEW w, w.funct3 \in 0 .. 7, w.opcode = "IMM"
    PROVE  Effect(SwitchImm(w)) = Effect(decode(w))
<1>1. /\ (w.funct3 = 0 => SwitchImm(w) = "ADDI")
      /\ (w.funct3 = 2 => SwitchImm(w) = "SLTI")
      /\ (w.funct3 = 3 => SwitchImm(w) = "SLTIU")
      /\ (w.funct3 = 4 => SwitchImm(w) = "XORI")
      /\ (w.funct3 = 6 => SwitchImm(w) = "ORI")
      /\ (w.funct3 = 7 => SwitchImm(w) = "ANDI")
      /\ (w.funct3 = 1 /\ funct7(w) = 0 => SwitchImm(w) = "SLLI")
      /\ (w.funct3 = 5 /\ funct7(w) = 0 => SwitchImm(w) = "SRLI")
      /\ (w.funct3 = 5 /\ funct7(w) = 32 => SwitchImm(w) = "SRAI")
  BY SMTT(30) DEF SwitchImm
<1>2. /\ (w.funct3 = 0 => decode(w) = "ADDI")
      /\ (w.funct3 = 2 => decode(w) = "SLTI")
      /\ (w.funct3 = 3 => decode(w) = "SLTIU")
      /\ (w.funct3 = 4 => decode(w) = "XORI")
      /\ (w.funct3 = 6 => decode(w) = "ORI")
      /\ (w.funct3 = 7 => decode(w) = "ANDI")
  BY WholeTable, ImmPlainTable, DecodesFunct3, Zenon
<1>3. /\ (w.funct3 = 1 /\ funct7(w) = 0 => decode(w) = "SLLI")
      /\ (w.funct3 = 5 /\ funct7(w) = 0 => decode(w) = "SRLI")
      /\ (w.funct3 = 5 /\ funct7(w) = 32 => decode(w) = "SRAI")
  BY WholeTable, ImmShiftTable, ImmAltTable, DecodesFunct7, Zenon
<1>4. ASSUME (w.funct3 = 1 /\ funct7(w) # 0) \/ (w.funct3 = 5 /\ funct7(w) \notin {0, 32})
      PROVE  SwitchImm(w) = "unsupported" /\ decode(w) = "INVALID"
  <2>1. SwitchImm(w) = "unsupported"
    BY <1>4, SMTT(30) DEF SwitchImm
  <2>2. ASSUME NEW p \in Range(SPEC_LISTS), Matches(p, w) PROVE FALSE
    <3>1. p \in Range(ImmPlain) \cup Range(ImmShift) \cup Range(ImmAlt)
      BY <2>2, RowsOfOpcode
    <3>2. QED
      BY <1>4, <2>2, <3>1, Keys, SMTT(30) DEF Matches, Agree, Any
  <2>3. QED
    BY <2>1, <2>2, DecodesNothing
<1>5. w.funct3 \in {0, 2, 3, 4, 6, 7} => SwitchImm(w) = decode(w)
  BY <1>1, <1>2
<1>6. (w.funct3 = 1 /\ funct7(w) = 0) \/ (w.funct3 = 5 /\ funct7(w) \in {0, 32}) => SwitchImm(w) = decode(w)
  BY <1>1, <1>3
<1>7. w.funct3 \in {0, 2, 3, 4, 6, 7} \/ w.funct3 = 1 \/ w.funct3 = 5
  OBVIOUS
<1>8. SwitchImm(w) = decode(w) \/ (SwitchImm(w) = "unsupported" /\ decode(w) = "INVALID")
  BY <1>4, <1>5, <1>6, <1>7
<1>9. QED
  BY <1>8 DEF Effect

\* Register operations: the switch asks for funct7 and funct3.
LEMMA OpAgrees ==
    ASSUME NEW w, w.funct3 \in 0 .. 7, w.opcode = "OP"
    PROVE  Effect(SwitchOp(w)) = Effect(decode(w))
<1>1. ASSUME funct7(w) = 0 PROVE SwitchOp(w) = decode(w)
  <2>1. /\ (w.funct3 = 0 => SwitchOp(w) = "ADD")
        /\ (w.funct3 = 1 => SwitchOp(w) = "SLL")
        /\ (w.funct3 = 2 => SwitchOp(w) = "SLT")
        /\ (w.funct3 = 3 => SwitchOp(w) = "SLTU")
        /\ (w.funct3 = 4 => SwitchOp(w) = "XOR")
        /\ (w.funct3 = 5 => SwitchOp(w) = "SRL")
        /\ (w.funct3 = 6 => SwitchOp(w) = "OR")
        /\ (w.funct3 = 7 => SwitchOp(w) = "AND")
    BY <1>1, SMTT(30) DEF SwitchOp
  <2>2. /\ ByFunct7("ADD", "OP", 0, 0) \in Range(SPEC_LISTS)
        /\ ByFunct7("SLL", "OP", 1, 0) \in Range(SPEC_LISTS)
        /\ ByFunct7("SLT", "OP", 2, 0) \in Range(SPEC_LISTS)
        /\ ByFunct7("SLTU", "OP", 3, 0) \in Range(SPEC_LISTS)
        /\ ByFunct7("XOR", "OP", 4, 0) \in Range(SPEC_LISTS)
        /\ ByFunct7("SRL", "OP", 5, 0) \in Range(SPEC_LISTS)
        /\ ByFunct7("OR", "OP", 6, 0) \in Range(SPEC_LISTS)
        /\ ByFunct7("AND", "OP", 7, 0) \in Range(SPEC_LISTS)
    BY WholeTable, OpBaseTable
  <2>3. /\ (w.funct3 = 0 => decode(w) = "ADD")
        /\ (w.funct3 = 1 => decode(w) = "SLL")
        /\ (w.funct3 = 2 => decode(w) = "SLT")
        /\ (w.funct3 = 3 => decode(w) = "SLTU")
        /\ (w.funct3 = 4 => decode(w) = "XOR")
        /\ (w.funct3 = 5 => decode(w) = "SRL")
        /\ (w.funct3 = 6 => decode(w) = "OR")
        /\ (w.funct3 = 7 => decode(w) = "AND")
    BY <1>1, <2>2, DecodesFunct7, Zenon
  <2>4. QED
    BY <2>1, <2>3
<1>2. ASSUME funct7(w) = 1 PROVE SwitchOp(w) = decode(w)
  <2>1. /\ (w.funct3 = 0 => SwitchOp(w) = "MUL")
        /\ (w.funct3 = 1 => SwitchOp(w) = "MULH")
        /\ (w.funct3 = 2 => SwitchOp(w) = "MULHSU")
        /\ (w.funct3 = 3 => SwitchOp(w) = "MULHU")
        /\ (w.funct3 = 4 => SwitchOp(w) = "DIV")
        /\ (w.funct3 = 5 => SwitchOp(w) = "DIVU")
        /\ (w.funct3 = 6 => SwitchOp(w) = "REM")
        /\ (w.funct3 = 7 => SwitchOp(w) = "REMU")
    BY <1>2, SMTT(30) DEF SwitchOp
  <2>2. /\ ByFunct7("MUL", "OP", 0, 1) \in Range(SPEC_LISTS)
        /\ ByFunct7("MULH", "OP", 1, 1) \in Range(SPEC_LISTS)
        /\ ByFunct7("MULHSU", "OP", 2, 1) \in Range(SPEC_LISTS)
        /\ ByFunct7("MULHU", "OP", 3, 1) \in Range(SPEC_LISTS)
        /\ ByFunct7("DIV", "OP", 4, 1) \in Range(SPEC_LISTS)
        /\ ByFunct7("DIVU", "OP", 5, 1) \in Range(SPEC_LISTS)
        /\ ByFunct7("REM", "OP", 6, 1) \in Range(SPEC_LISTS)
        /\ ByFunct7("REMU", "OP", 7, 1) \in Range(SPEC_LISTS)
    BY WholeTable, RV32MTable
  <2>3. /\ (w.funct3 = 0 => decode(w) = "MUL")
        /\ (w.funct3 = 1 => decode(w) = "MULH")
        /\ (w.funct3 = 2 => decode(w) = "MULHSU")
        /\ (w.funct3 = 3 => decode(w) = "MULHU")
        /\ (w.funct3 = 4 => decode(w) = "DIV")
        /\ (w.funct3 = 5 => decode(w) = "DIVU")
        /\ (w.funct3 = 6 => decode(w) = "REM")
        /\ (w.funct3 = 7 => decode(w) = "REMU")
    BY <1>2, <2>2, DecodesFunct7, Zenon
  <2>4. QED
    BY <2>1, <2>3
<1>3. /\ (funct7(w) = 32 /\ w.funct3 = 0 => SwitchOp(w) = "SUB")
      /\ (funct7(w) = 32 /\ w.funct3 = 5 => SwitchOp(w) = "SRA")
  BY SMTT(30) DEF SwitchOp
<1>4. /\ (funct7(w) = 32 /\ w.funct3 = 0 => decode(w) = "SUB")
      /\ (funct7(w) = 32 /\ w.funct3 = 5 => decode(w) = "SRA")
  BY WholeTable, OpAltTable, DecodesFunct7, Zenon
<1>5. ASSUME funct7(w) \notin {0, 1}, ~ (funct7(w) = 32 /\ w.funct3 \in {0, 5})
      PROVE  SwitchOp(w) = "unsupported" /\ decode(w) = "INVALID"
  <2>1. SwitchOp(w) = "unsupported"
    BY <1>5, SMTT(30) DEF SwitchOp
  <2>2. ASSUME NEW p \in Range(SPEC_LISTS), Matches(p, w) PROVE FALSE
    <3>1. p \in Range(OpBase) \cup Range(OpAlt) \cup Range(RV32M)
      BY <2>2, RowsOfOpcode
    <3>2. \A q \in Range(OpAlt) : q.f3 \in {0, 5} /\ q.f7 = 32
      BY OpAltTable DEF ByFunct7, Row
    <3>3. QED
      BY <1>5, <2>2, <3>1, <3>2, Keys, SMTT(30) DEF Matches, Agree, Any
  <2>3. QED
    BY <2>1, <2>2, DecodesNothing
<1>6. QED
  BY <1>1, <1>2, <1>3, <1>4, <1>5 DEF Effect

\* Loads.
LEMMA LoadAgrees ==
    ASSUME NEW w, w.funct3 \in 0 .. 7, w.opcode = "LOAD"
    PROVE  Effect(SwitchMemory(w)) = Effect(decode(w))
<1>1. /\ (w.funct3 = 0 => SwitchMemory(w) = "LB")
      /\ (w.funct3 = 1 => SwitchMemory(w) = "LH")
      /\ (w.funct3 = 2 => SwitchMemory(w) = "LW")
      /\ (w.funct3 = 4 => SwitchMemory(w) = "LBU")
      /\ (w.funct3 = 5 => SwitchMemory(w) = "LHU")
  BY SMTT(30) DEF SwitchMemory
<1>2. /\ (w.funct3 = 0 => decode(w) = "LB")
      /\ (w.funct3 = 1 => decode(w) = "LH")
      /\ (w.funct3 = 2 => decode(w) = "LW")
      /\ (w.funct3 = 4 => decode(w) = "LBU")
      /\ (w.funct3 = 5 => decode(w) = "LHU")
  BY WholeTable, LoadsTable, DecodesFunct3, Zenon
<1>3. ASSUME w.funct3 \in {3, 6, 7}
      PROVE  SwitchMemory(w) = "unsupported" /\ decode(w) = "INVALID"
  <2>1. SwitchMemory(w) = "unsupported"
    BY <1>3, SMTT(30) DEF SwitchMemory
  <2>2. ASSUME NEW p \in Range(SPEC_LISTS), Matches(p, w) PROVE FALSE
    <3>1. p \in Range(Loads)
      BY <2>2, RowsOfOpcode
    <3>2. \A q \in Range(Loads) : q.f3 \in {0, 1, 2, 4, 5}
      BY LoadsTable DEF ByFunct3, Row
    <3>3. QED
      BY <1>3, <2>2, <3>1, <3>2, SMTT(30) DEF Matches, Agree, Any
  <2>3. QED
    BY <2>1, <2>2, DecodesNothing
<1>4. QED
  BY <1>1, <1>2, <1>3 DEF Effect

\* Stores.
LEMMA StoreAgrees ==
    ASSUME NEW w, w.funct3 \in 0 .. 7, w.opcode = "STORE"
    PROVE  Effect(SwitchMemory(w)) = Effect(decode(w))
<1>1. /\ (w.funct3 = 0 => SwitchMemory(w) = "SB")
      /\ (w.funct3 = 1 => SwitchMemory(w) = "SH")
      /\ (w.funct3 = 2 => SwitchMemory(w) = "SW")
  BY SMTT(30) DEF SwitchMemory
<1>2. /\ (w.funct3 = 0 => decode(w) = "SB")
      /\ (w.funct3 = 1 => decode(w) = "SH")
      /\ (w.funct3 = 2 => decode(w) = "SW")
  BY WholeTable, StoresTable, DecodesFunct3, Zenon
<1>3. ASSUME w.funct3 \in {3, 4, 5, 6, 7}
      PROVE  SwitchMemory(w) = "unsupported" /\ decode(w) = "INVALID"
  <2>1. SwitchMemory(w) = "unsupported"
    BY <1>3, SMTT(30) DEF SwitchMemory
  <2>2. ASSUME NEW p \in Range(SPEC_LISTS), Matches(p, w) PROVE FALSE
    <3>1. p \in Range(Stores)
      BY <2>2, RowsOfOpcode
    <3>2. \A q \in Range(Stores) : q.f3 \in {0, 1, 2}
      BY StoresTable DEF ByFunct3, Row
    <3>3. QED
      BY <1>3, <2>2, <3>1, <3>2, SMTT(30) DEF Matches, Agree, Any
  <2>3. QED
    BY <2>1, <2>2, DecodesNothing
<1>4. QED
  BY <1>1, <1>2, <1>3 DEF Effect

\* Branches.
LEMMA BranchAgrees ==
    ASSUME NEW w, w.funct3 \in 0 .. 7, w.opcode = "BRANCH"
    PROVE  Effect(SwitchBranch(w)) = Effect(decode(w))
<1>1. /\ (w.funct3 = 0 => SwitchBranch(w) = "BEQ")
      /\ (w.funct3 = 1 => SwitchBranch(w) = "BNE")
      /\ (w.funct3 = 4 => SwitchBranch(w) = "BLT")
      /\ (w.funct3 = 5 => SwitchBranch(w) = "BGE")
      /\ (w.funct3 = 6 => SwitchBranch(w) = "BLTU")
      /\ (w.funct3 = 7 => SwitchBranch(w) = "BGEU")
  BY SMTT(30) DEF SwitchBranch
<1>2. /\ (w.funct3 = 0 => decode(w) = "BEQ")
      /\ (w.funct3 = 1 => decode(w) = "BNE")
      /\ (w.funct3 = 4 => decode(w) = "BLT")
      /\ (w.funct3 = 5 => decode(w) = "BGE")
      /\ (w.funct3 = 6 => decode(w) = "BLTU")
      /\ (w.funct3 = 7 => decode(w) = "BGEU")
  BY WholeTable, BranchesTable, DecodesFunct3, Zenon
<1>3. ASSUME w.funct3 \in {2, 3}
      PROVE  SwitchBranch(w) = "unsupported" /\ decode(w) = "INVALID"
  <2>1. SwitchBranch(w) = "unsupported"
    BY <1>3, SMTT(30) DEF SwitchBranch
  <2>2. ASSUME NEW p \in Range(SPEC_LISTS), Matches(p, w) PROVE FALSE
    <3>1. p \in Range(Branches)
      BY <2>2, RowsOfOpcode
    <3>2. \A q \in Range(Branches) : q.f3 \in {0, 1, 4, 5, 6, 7}
      BY BranchesTable DEF ByFunct3, Row
    <3>3. QED
      BY <1>3, <2>2, <3>1, <3>2, SMTT(30) DEF Matches, Agree, Any
  <2>3. QED
    BY <2>1, <2>2, DecodesNothing
<1>4. QED
  BY <1>1, <1>2, <1>3 DEF Effect

\* Jumps and upper immediates: a JALR with another funct3 is what Conforming excludes.
LEMMA JumpAgrees ==
    ASSUME NEW w, w.opcode \in {"JAL", "JALR", "LUI", "AUIPC"}, w.opcode = "JALR" => w.funct3 = 0
    PROVE  SwitchJump(w) = decode(w)
<1>1. SwitchJump(w) = w.opcode
  BY DEF SwitchJump
<1>2. /\ ByOpcode("JAL", "JAL") \in Range(SPEC_LISTS) /\ ByOpcode("LUI", "LUI") \in Range(SPEC_LISTS)
      /\ ByOpcode("AUIPC", "AUIPC") \in Range(SPEC_LISTS) /\ ByFunct3("JALR", "JALR", 0) \in Range(SPEC_LISTS)
  BY WholeTable, RestTable
<1>3. ASSUME NEW o, w.opcode = o, ByOpcode(o, o) \in Range(SPEC_LISTS) PROVE decode(w) = o
  <2>1. Matches(ByOpcode(o, o), w) /\ ByOpcode(o, o).type = o
    BY <1>3 DEF Matches, Agree, ByOpcode, Row, Any
  <2>2. QED
    BY <1>3, <2>1, Decodes
<1>4. w.opcode = "JALR" => decode(w) = "JALR"
  BY <1>2, DecodesFunct3, Zenon
<1>5. QED
  BY <1>1, <1>2, <1>3, <1>4

\* ECALL, and EBREAK, which has no effect.
LEMMA SystemAgrees ==
    ASSUME NEW w, w.opcode = "SYSTEM", w.funct3 = 0, w.top \in Nat
    PROVE  Effect(SwitchSystem(w)) = Effect(decode(w))
<1> DEFINE ec == Row("ECALL", "SYSTEM", Any, Any, Any, 0)
           eb == Row("EBREAK", "SYSTEM", Any, Any, Any, 1)
<1>1. ec \in Range(SPEC_LISTS) /\ eb \in Range(SPEC_LISTS)
  BY WholeTable, RestTable
<1>2. ec.type = "ECALL" /\ eb.type = "EBREAK"
  BY DEF Row
<1>3. (w.top = 0 => Matches(ec, w)) /\ (w.top = 1 => Matches(eb, w))
  BY DEF Matches, Agree, Row, Any
<1>4. CASE w.top = 0
  <2>1. SwitchSystem(w) = "ECALL"
    BY <1>4 DEF SwitchSystem
  <2> HIDE DEF ec, eb
  <2>2. QED
    BY <1>1, <1>2, <1>3, <1>4, <2>1, Decodes
<1>5. CASE w.top = 1
  <2>1. SwitchSystem(w) = "unsupported"
    BY <1>5 DEF SwitchSystem
  <2> HIDE DEF ec, eb
  <2>2. decode(w) = "EBREAK"
    BY <1>1, <1>2, <1>3, <1>5, Decodes
  <2>3. QED
    BY <2>1, <2>2 DEF Effect
<1>6. CASE w.top \notin {0, 1}
  <2>1. SwitchSystem(w) = "unsupported"
    BY <1>6 DEF SwitchSystem
  <2>2. ASSUME NEW p \in Range(SPEC_LISTS), Matches(p, w) PROVE FALSE
    <3>1. p \in Range(Rest) /\ p.opcode = "SYSTEM"
      BY <2>2, RowsOfOpcode DEF Matches
    <3>2. \A q \in Range(Rest) : q.opcode = "SYSTEM" => q.top \in {0, 1}
      BY RestTable DEF ByOpcode, ByFunct3, Row
    <3>3. QED
      BY <1>6, <2>2, <3>1, <3>2 DEF Matches, Agree, Any
  <2>3. QED
    BY <2>1, <2>2, DecodesNothing DEF Effect
<1>7. QED
  BY <1>4, <1>5, <1>6

\* Load-reserved and store-conditional.
LEMMA AmoAgrees ==
    ASSUME NEW w, w.opcode = "AMO"
    PROVE  Effect(SwitchAmo(w)) = Effect(decode(w))
<1> DEFINE lr == Row("LR_W", "AMO", 2, Any, 2, Any)
           sc == Row("SC_W", "AMO", 2, Any, 3, Any)
<1>1. lr \in Range(SPEC_LISTS) /\ sc \in Range(SPEC_LISTS)
  BY WholeTable, RV32ATable
<1>2. lr.type = "LR_W" /\ sc.type = "SC_W"
  BY DEF Row
<1>3. /\ (w.funct3 = 2 /\ funct5(w) = 2 => Matches(lr, w))
      /\ (w.funct3 = 2 /\ funct5(w) = 3 => Matches(sc, w))
  BY DEF Matches, Agree, Row, Any
<1>4. CASE w.funct3 = 2 /\ funct5(w) = 2
  <2>1. SwitchAmo(w) = "LR_W"
    BY <1>4 DEF SwitchAmo
  <2> HIDE DEF lr, sc
  <2>2. QED
    BY <1>1, <1>2, <1>3, <1>4, <2>1, Decodes
<1>5. CASE w.funct3 = 2 /\ funct5(w) = 3
  <2>1. SwitchAmo(w) = "SC_W"
    BY <1>5 DEF SwitchAmo
  <2> HIDE DEF lr, sc
  <2>2. QED
    BY <1>1, <1>2, <1>3, <1>5, <2>1, Decodes
<1>6. CASE ~ (w.funct3 = 2 /\ funct5(w) \in {2, 3})
  <2>1. SwitchAmo(w) = "unsupported"
    BY <1>6 DEF SwitchAmo
  <2>2. ASSUME NEW p \in Range(SPEC_LISTS), Matches(p, w) PROVE FALSE
    <3>1. p \in Range(RV32A)
      BY <2>2, RowsOfOpcode
    <3>2. \A q \in Range(RV32A) : q.f3 = 2 /\ q.f5 \in {2, 3}
      BY RV32ATable DEF Row
    <3>3. QED
      BY <1>6, <2>2, <3>1, <3>2 DEF Matches, Agree, Any
  <2>3. QED
    BY <2>1, <2>2, DecodesNothing DEF Effect
<1>7. QED
  BY <1>4, <1>5, <1>6

\* The switch does what the table says, for words a compiler produces.
LEMMA SwitchAgrees ==
    ASSUME NEW w, w.opcode \in Opcodes, w.funct3 \in 0 .. 7, w.top \in Nat, Conforming(w)
    PROVE  Effect(runInstructionSwitch(w)) = Effect(decode(w))
<1>1. CASE w.opcode = "IMM"
  BY <1>1, ImmAgrees DEF runInstructionSwitch
<1>2. CASE w.opcode = "OP"
  BY <1>2, OpAgrees DEF runInstructionSwitch
<1>3. CASE w.opcode = "LOAD"
  BY <1>3, LoadAgrees DEF runInstructionSwitch
<1>4. CASE w.opcode = "STORE"
  BY <1>4, StoreAgrees DEF runInstructionSwitch
<1>5. CASE w.opcode = "BRANCH"
  BY <1>5, BranchAgrees DEF runInstructionSwitch
<1>6. CASE w.opcode \in {"JAL", "JALR", "LUI", "AUIPC"}
  <2>1. w.opcode = "JALR" => w.funct3 = 0
    BY DEF Conforming
  <2>2. runInstructionSwitch(w) = SwitchJump(w)
    BY <1>6 DEF runInstructionSwitch
  <2>3. QED
    BY <1>6, <2>1, <2>2, JumpAgrees
<1>7. CASE w.opcode = "SYSTEM"
  <2>1. w.funct3 = 0
    BY <1>7 DEF Conforming
  <2>2. runInstructionSwitch(w) = SwitchSystem(w)
    BY <1>7 DEF runInstructionSwitch
  <2>3. QED
    BY <1>7, <2>1, <2>2, SystemAgrees
<1>8. CASE w.opcode = "AMO"
  BY <1>8, AmoAgrees DEF runInstructionSwitch
<1>9. CASE w.opcode = "other"
  <2>1. runInstructionSwitch(w) = "unsupported"
    BY <1>9 DEF runInstructionSwitch
  <2>2. \A p \in Range(SPEC_LISTS) : ~ Matches(p, w)
    BY <1>9, RowsOfOpcode
  <2>3. decode(w) = "INVALID"
    BY <2>2, DecodesNothing
  <2>4. QED
    BY <2>1, <2>3 DEF Effect
<1>10. QED
  BY <1>1, <1>2, <1>3, <1>4, <1>5, <1>6, <1>7, <1>8, <1>9 DEF Opcodes

-----------------------------------------------------------------------------
(* The specification *)

\* The word keeps its fields, and what ran is what the engine made of it.
IInv ==
    /\ word \in Words
    /\ \/ ran = "?"
       \/ engine = "table" /\ ran = Effect(decode(word))
       \/ engine = "chain" /\ ran = Effect(runInstruction(word))
       \/ engine = "switch" /\ ran = Effect(runInstructionSwitch(word))

\* The fields of a word of the model have the widths of the real ones.
LEMMA WordFields ==
    ASSUME NEW w \in Words
    PROVE  Fields(w) /\ w.opcode \in Opcodes
<1> DEFINE A == [opcode : Opcodes, funct3 : 0 .. 7, top : Tops, rd : {0}, rs1 : {0}]
           B == [opcode : {"STORE", "BRANCH", "JAL", "LUI"}, funct3 : {0, 7}, top : Tops, rd : Rds, rs1 : Rs1s]
<1>1. CASE w \in A
  <2>1. w.opcode \in Opcodes /\ w.funct3 \in 0 .. 7 /\ w.top \in Tops /\ w.rd = 0 /\ w.rs1 = 0
    BY <1>1
  <2>2. w.top \in 0 .. 4095
    <3> DEFINE t == w.top
    <3>1. t \in Tops
      BY <2>1
    <3> HIDE DEF t
    <3>2. t \in 0 .. 4095
      BY <3>1, FieldAssumption
    <3>3. QED
      BY <3>2 DEF t
  <2>3. w.rd \in 0 .. 31 /\ w.rs1 \in 0 .. 31
    BY <2>1
  <2>4. QED
    BY <2>1, <2>2, <2>3 DEF Fields
<1>2. CASE w \in B
  <2>1. /\ w.opcode \in {"STORE", "BRANCH", "JAL", "LUI"} /\ w.funct3 \in {0, 7}
        /\ w.top \in Tops /\ w.rd \in Rds /\ w.rs1 \in Rs1s
    BY <1>2
  <2>2. w.opcode \in Opcodes
    BY <2>1 DEF Opcodes
  <2>3. w.top \in 0 .. 4095 /\ w.rd \in 0 .. 31 /\ w.rs1 \in 0 .. 31
    <3> DEFINE t == w.top
               r == w.rd
               s == w.rs1
    <3>1. t \in Tops /\ r \in Rds /\ s \in Rs1s
      BY <2>1
    <3> HIDE DEF t, r, s
    <3>2. t \in 0 .. 4095 /\ r \in 0 .. 31 /\ s \in 0 .. 31
      BY <3>1, FieldAssumption
    <3>3. QED
      BY <3>2 DEF t, r, s
  <2>4. w.funct3 \in 0 .. 7
    BY <2>1
  <2>5. QED
    BY <2>2, <2>3, <2>4 DEF Fields
<1>3. QED
  BY <1>1, <1>2 DEF Words

\* Every behaviour keeps it.
LEMMA Invariant == Spec => []IInv
<1>1. Init => IInv
  BY DEF Init, IInv
<1>2. IInv /\ [Next]_vars => IInv'
  <2> SUFFICES ASSUME IInv, [Next]_vars PROVE IInv'
    OBVIOUS
  <2>1. word' = word /\ engine' = engine
    BY DEF Next, RunPredecoded, RunChain, RunSwitch, Run, vars
  <2>2. CASE RunPredecoded
    BY <2>1, <2>2, Zenon DEF RunPredecoded, Run, IInv
  <2>3. CASE RunChain
    BY <2>1, <2>3, Zenon DEF RunChain, Run, IInv
  <2>4. CASE RunSwitch
    BY <2>1, <2>4, Zenon DEF RunSwitch, Run, IInv
  <2>5. CASE UNCHANGED vars
    BY <2>1, <2>5, Zenon DEF vars, IInv
  <2>6. QED
    BY <2>2, <2>3, <2>4, <2>5 DEF Next
<1>3. QED
  BY <1>1, <1>2, PTL DEF Spec

\* Table, chain and switch execute the same instruction for every word a compiler
\* produces, whatever is in its fields.
THEOREM EnginesDoAgree == Spec => []EnginesAgree
<1>1. IInv => EnginesAgree
  <2> SUFFICES ASSUME IInv, ran # "?", Conforming(word) PROVE ran = Effect(decode(word))
    BY DEF EnginesAgree
  <2>1. word.opcode \in Opcodes /\ word.funct3 \in 0 .. 7 /\ word.top \in Nat
    <3>1. Fields(word) /\ word.opcode \in Opcodes
      BY WordFields DEF IInv
    <3>2. word.top \in 0 .. 4095
      BY <3>1 DEF Fields
    <3>3. word.funct3 \in 0 .. 7
      BY <3>1 DEF Fields
    <3>4. word.top \in Nat
      <4> DEFINE t == word.top
      <4>1. t \in 0 .. 4095
        BY <3>2
      <4> HIDE DEF t
      <4>2. t \in Nat
        BY <4>1
      <4>3. QED
        BY <4>2 DEF t
    <3>5. QED
      BY <3>1, <3>3, <3>4
  <2>2. Effect(runInstruction(word)) = Effect(decode(word))
    BY ChainAgrees
  <2>3. Effect(runInstructionSwitch(word)) = Effect(decode(word))
    BY <2>1, SwitchAgrees
  <2>4. QED
    BY <2>2, <2>3, Zenon DEF IInv
<1>2. QED
  BY <1>1, Invariant, PTL

\* No word matches two entries of the specification tables.
THEOREM TableIsUnambiguous == Spec => []TableUnambiguous
<1>1. TableUnambiguous
  BY OneRow DEF TableUnambiguous
<1>2. QED
  BY <1>1, PTL

\* No immediate format loses or mixes up a bit, whatever the fields hold.
THEOREM ImmediatesAreFaithful == Spec => []ImmediatesFaithful
<1>1. IInv => ImmediatesFaithful
  <2> SUFFICES ASSUME IInv,
                      NEW t \in Tops, NEW r \in Rds, NEW s \in Rs1s, NEW f \in {0, 7}
               PROVE
        LET v == [word EXCEPT !.top = t, !.rd = r, !.rs1 = s, !.funct3 = f] IN
        CASE word.opcode = "STORE" ->
                S_FMT_imm(v) = S_FMT_imm(word) => funct7(v) = funct7(word) /\ r = word.rd
          [] word.opcode = "BRANCH" ->
                /\ B_FMT_imm(v) % 2 = 0
                /\ B_FMT_imm(v) = B_FMT_imm(word) => funct7(v) = funct7(word) /\ r = word.rd
          [] word.opcode = "JAL" ->
                /\ J_FMT_imm(v) % 2 = 0
                /\ J_FMT_imm(v) = J_FMT_imm(word) => t = word.top /\ s = word.rs1 /\ f = word.funct3
          [] word.opcode = "LUI" ->
                U_FMT_imm(v) = U_FMT_imm(word) => t = word.top /\ s = word.rs1 /\ f = word.funct3
          [] OTHER -> I_FMT_imm(v) = I_FMT_imm(word) => t = word.top
    BY Zenon DEF ImmediatesFaithful
  <2> DEFINE v == [word EXCEPT !.top = t, !.rd = r, !.rs1 = s, !.funct3 = f]
  <2>1. word \in Words /\ Fields(word)
    BY WordFields DEF IInv
  <2>2. v.top = t /\ v.rd = r /\ v.rs1 = s /\ v.funct3 = f
    BY <2>1 DEF Words
  <2> HIDE DEF v
  <2>3. Fields(v)
    BY <2>2, FieldAssumption DEF Fields
  <2>4. S_FMT_imm(v) = S_FMT_imm(word) => funct7(v) = funct7(word) /\ r = word.rd
    BY <2>1, <2>2, <2>3, SFaithful, Zenon
  <2>5. /\ B_FMT_imm(v) % 2 = 0
        /\ B_FMT_imm(v) = B_FMT_imm(word) => funct7(v) = funct7(word) /\ r = word.rd
    BY <2>1, <2>2, <2>3, BFaithful, Zenon
  <2>6. /\ J_FMT_imm(v) % 2 = 0
        /\ J_FMT_imm(v) = J_FMT_imm(word) => t = word.top /\ s = word.rs1 /\ f = word.funct3
    BY <2>1, <2>2, <2>3, JFaithful, Zenon
  <2>7. U_FMT_imm(v) = U_FMT_imm(word) => t = word.top /\ s = word.rs1 /\ f = word.funct3
    BY <2>1, <2>2, <2>3, UFaithful, Zenon
  <2>8. I_FMT_imm(v) = I_FMT_imm(word) => t = word.top
    BY <2>1, <2>2, <2>3, IFaithful, Zenon
  <2>9. QED
    BY <2>4, <2>5, <2>6, <2>7, <2>8 DEF v
<1>2. QED
  BY <1>1, Invariant, PTL
=============================================================================
