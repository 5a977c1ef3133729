----------------------------- MODULE DeviceProofs -----------------------------
(***************************************************************************)
(* What holds of Device for every set of names and passwords: the stored   *)
(* network is the chosen one, whole; a device that was set up is not set   *)
(* up again at boot; a service that could do its work releases what it has *)
(* taken; and, for every set of orders and of faults of the line, the key  *)
(* counts only if it was pressed and the head moves only as it was told.   *)
(***************************************************************************)
EXTENDS Device, TLAPS, WellFoundedInduction

-----------------------------------------------------------------------------
(* The checksum of modbus.c *)

\* Induction over the natural numbers, for a set: the least number outside it
\* would be one too many.
LEMMA SetInduction ==
    ASSUME NEW S, 0 \in S, \A n \in Nat : n \in S => n + 1 \in S
    PROVE  Nat \subseteq S
<1> DEFINE T == Nat \ S
<1> SUFFICES ASSUME T # {} PROVE FALSE
  OBVIOUS
<1>1. IsWellFoundedOn(OpToRel(<, Nat), Nat)
  BY NatLessThanWellFounded
<1>2. PICK x \in T : \A y \in T : ~(<<y, x>> \in OpToRel(<, Nat))
  BY <1>1, WFMin
<1>3. \A y \in Nat : y < x => y \in S
  BY <1>2 DEF OpToRel
<1>4. x \in Nat /\ x # 0
  BY <1>2
<1>5. x - 1 \in Nat /\ x = (x - 1) + 1 /\ x - 1 < x
  BY <1>4
<1>6. x - 1 \in S
  BY <1>3, <1>5
<1> QED
  BY <1>2, <1>5, <1>6

\* lrc of CalcLrc, byte by byte, without the wrap.
Adds(s, msg, len) ==
    /\ s \in [0..len -> Nat] /\ s[0] = 0
    /\ \A n \in 1..len : s[n] = s[n - 1] + msg[n]

\* There is such a sum of any bytes.
LEMMA AddsExists ==
    ASSUME NEW len \in Nat, NEW msg, \A n \in 1..len : msg[n] \in Nat
    PROVE  \E s : Adds(s, msg, len)
<1> DEFINE S == {n \in Nat : n <= len => \E s : Adds(s, msg, n)}
<1>1. 0 \in S
  <2>1. Adds([n \in 0..0 |-> 0], msg, 0)
    BY DEF Adds
  <2> QED BY <2>1
<1>2. ASSUME NEW n \in Nat, n \in S PROVE n + 1 \in S
  <2> SUFFICES ASSUME n + 1 <= len PROVE \E s : Adds(s, msg, n + 1)
    OBVIOUS
  <2>1. PICK s : Adds(s, msg, n)
    BY <1>2
  <2> DEFINE r == [k \in 0..(n + 1) |-> IF k = n + 1 THEN s[n] + msg[n + 1] ELSE s[k]]
  <2>2. Adds(r, msg, n + 1)
    <3>1. s[n] \in Nat /\ msg[n + 1] \in Nat
      BY <2>1 DEF Adds
    <3>2. r \in [0..(n + 1) -> Nat] /\ r[0] = 0
      BY <2>1, <3>1 DEF Adds
    <3>3. ASSUME NEW k \in 1..(n + 1) PROVE r[k] = r[k - 1] + msg[k]
      <4>1. CASE k = n + 1
        BY <4>1
      <4>2. CASE k # n + 1
        BY <4>2, <2>1 DEF Adds
      <4> QED BY <4>1, <4>2
    <3> QED BY <3>2, <3>3 DEF Adds
  <2> QED BY <2>2
<1> HIDE DEF S
<1>3. len \in S
  BY <1>1, <1>2, SetInduction
<1> QED BY <1>3 DEF S

\* CalcLrc is made of that sum.
LEMMA CalcLrcAdds ==
    ASSUME NEW len \in Nat, NEW msg, \A n \in 1..len : msg[n] \in Nat
    PROVE  \E s : Adds(s, msg, len) /\ CalcLrc(msg, len) = (256 - (s[len] % 256)) % 256
<1> DEFINE e(f, n) == IF n = 0 THEN 0 ELSE f[n - 1] + msg[n]
           lrc == CHOOSE lrc : lrc = [n \in 0..len |-> e(lrc, n)]
<1>1. CalcLrc(msg, len) = (256 - (lrc[len] % 256)) % 256
  BY DEF CalcLrc
<1>2. PICK s : Adds(s, msg, len)
  BY AddsExists
<1>3. s = [n \in 0..len |-> e(s, n)]
  BY <1>2 DEF Adds
<1>4. lrc = [n \in 0..len |-> e(lrc, n)]
  <2> HIDE DEF e
  <2> QED BY <1>3
<1> HIDE DEF lrc
<1>5. lrc \in [0..len -> Nat]
  <2> DEFINE S == {n \in Nat : n <= len => lrc[n] = s[n]}
  <2>1. 0 \in S
    BY <1>4, <1>2 DEF Adds
  <2>2. ASSUME NEW n \in Nat, n \in S PROVE n + 1 \in S
    BY <1>4, <1>2, <2>2 DEF Adds
  <2>3. Nat \subseteq S
    <3> HIDE DEF S
    <3> QED BY <2>1, <2>2, SetInduction
  <2>4. \A n \in 0..len : lrc[n] = s[n]
    BY <2>3
  <2>5. lrc = [n \in 0..len |-> lrc[n]]
    BY <1>4
  <2> QED BY <2>4, <2>5, <1>2 DEF Adds
<1>6. Adds(lrc, msg, len)
  BY <1>4, <1>5 DEF Adds
<1> QED BY <1>1, <1>6

LEMMA ByteNat == \A b : b \in Byte <=> b \in Nat /\ b < 256
  BY DEF Byte

\* Two messages that differ in one byte at most.
OneChange(len, m, w, c) ==
    /\ len \in Nat /\ c \in 1..len
    /\ \A n \in 1..len : m[n] \in Byte
    /\ \A n \in 1..len : w[n] \in Byte
    /\ \A n \in 1..len : n # c => w[n] = m[n]

\* Their sums differ as that byte does.
LEMMA AddsDiffer ==
    ASSUME NEW len, NEW m, NEW w, NEW c, OneChange(len, m, w, c),
           NEW s, Adds(s, m, len), NEW r, Adds(r, w, len)
    PROVE  r[len] + m[c] = s[len] + w[c]
<1>0. /\ len \in Nat /\ c \in 1..len
      /\ \A n \in 1..len : m[n] \in Nat
      /\ \A n \in 1..len : w[n] \in Nat
      /\ \A n \in 1..len : n # c => w[n] = m[n]
  BY ByteNat DEF OneChange
<1> DEFINE S == {n \in Nat : n <= len => r[n] + (IF n < c THEN 0 ELSE m[c])
                                         = s[n] + (IF n < c THEN 0 ELSE w[c])}
<1>1. 0 \in S
  BY <1>0 DEF Adds
<1>2. ASSUME NEW n \in Nat, n \in S PROVE n + 1 \in S
  <2> SUFFICES ASSUME n + 1 <= len PROVE n + 1 \in S
    OBVIOUS
  <2>1. /\ r[n + 1] = r[n] + w[n + 1] /\ s[n + 1] = s[n] + m[n + 1]
        /\ r[n] \in Nat /\ s[n] \in Nat /\ w[n + 1] \in Nat /\ m[n + 1] \in Nat
    <3>1. n + 1 \in 1..len /\ (n + 1) - 1 = n /\ n \in 0..len
      BY <1>0
    <3> QED BY <1>0, <3>1 DEF Adds
  <2>2. n + 1 # c => w[n + 1] = m[n + 1]
    BY <1>0
  <2>3. m[c] \in Nat /\ w[c] \in Nat
    BY <1>0
  <2> QED BY <1>0, <1>2, <2>1, <2>2, <2>3
<1> HIDE DEF S
<1>3. len \in S
  BY <1>0, <1>1, <1>2, SetInduction
<1> QED BY <1>0, <1>3 DEF S

LEMMA LrcsDiffer ==
    ASSUME NEW len, NEW m, NEW w, NEW c, OneChange(len, m, w, c)
    PROVE  \E x \in Nat, y \in Nat :
              /\ CalcLrc(m, len) = (256 - (x % 256)) % 256
              /\ CalcLrc(w, len) = (256 - (y % 256)) % 256
              /\ y + m[c] = x + w[c]
<1>1. len \in Nat /\ (\A n \in 1..len : m[n] \in Nat) /\ (\A n \in 1..len : w[n] \in Nat)
  BY ByteNat DEF OneChange
<1>2. PICK s : Adds(s, m, len) /\ CalcLrc(m, len) = (256 - (s[len] % 256)) % 256
  BY <1>1, CalcLrcAdds
<1>3. PICK r : Adds(r, w, len) /\ CalcLrc(w, len) = (256 - (r[len] % 256)) % 256
  BY <1>1, CalcLrcAdds
<1>4. r[len] + m[c] = s[len] + w[c]
  BY <1>2, <1>3, AddsDiffer
<1>5. r[len] \in Nat /\ s[len] \in Nat
  BY <1>1, <1>2, <1>3 DEF Adds
<1> QED BY <1>2, <1>3, <1>4, <1>5

LEMMA Wrapped ==
    ASSUME NEW a \in Nat
    PROVE  /\ (256 - (a % 256)) % 256 \in Nat /\ (256 - (a % 256)) % 256 < 256
           /\ (256 - (a % 256)) % 256 = 0 <=> a % 256 = 0
           /\ (a + ((256 - (a % 256)) % 256)) % 256 = 0
  OBVIOUS

LEMMA Apart256 ==
    ASSUME NEW a \in Nat, NEW b \in Nat, NEW x \in Byte, NEW y \in Byte,
           b + x = a + y, x # y, a % 256 = 0
    PROVE  b % 256 # 0
<1>1. PICK k \in Nat : a = 256 * k
  OBVIOUS
<1> SUFFICES ASSUME b % 256 = 0 PROVE FALSE
  OBVIOUS
<1>2. PICK l \in Nat : b = 256 * l
  OBVIOUS
<1> QED
  BY <1>1, <1>2, ByteNat

\* CalcLrc is 0 for no message that came of one with 0 by a change of one byte.
LEMMA ChangeDetected ==
    ASSUME NEW len, NEW m, NEW w, NEW c, OneChange(len, m, w, c),
           w[c] # m[c], CalcLrc(m, len) = 0
    PROVE  CalcLrc(w, len) # 0
<1>1. PICK x \in Nat, y \in Nat :
         /\ CalcLrc(m, len) = (256 - (x % 256)) % 256
         /\ CalcLrc(w, len) = (256 - (y % 256)) % 256
         /\ y + m[c] = x + w[c]
  BY LrcsDiffer
<1>2. x % 256 = 0
  BY <1>1, Wrapped
<1>3. m[c] \in Byte /\ w[c] \in Byte
  BY DEF OneChange
<1>4. y % 256 # 0
  BY <1>1, <1>2, <1>3, Apart256
<1> QED
  BY <1>1, <1>4, Wrapped

\* A frame as YDLModbusPack lays it out, with the checksum that CalcLrc looks for.
IsFrame(f, dev, addr, cmd, members) ==
    /\ f \in Seq(Byte) /\ Len(f) = 5 + Len(members)
    /\ f[1] = YDL_MODBUS_START /\ f[2] = addr + 16 * dev /\ f[3] = Len(f) /\ f[5] = cmd
    /\ \A j \in 1..Len(members) : f[5 + j] = members[j]
    /\ CalcLrc(f, Len(f)) = 0

LEMMA CalcLrcByte ==
    ASSUME NEW n \in Nat, NEW m \in [1..n -> Byte]
    PROVE  CalcLrc(m, n) \in Byte
<1>1. \A k \in 1..n : m[k] \in Nat
  BY ByteNat
<1>2. PICK s : Adds(s, m, n) /\ CalcLrc(m, n) = (256 - (s[n] % 256)) % 256
  BY <1>1, CalcLrcAdds
<1>3. s[n] \in Nat
  BY <1>2 DEF Adds
<1> QED
  BY <1>2, <1>3, Wrapped, ByteNat

\* The checksum in the place of a 0 makes CalcLrc 0.
LEMMA Checksummed ==
    ASSUME NEW n, NEW m, NEW w, NEW c, OneChange(n, m, w, c), m[c] = 0, w[c] = CalcLrc(m, n)
    PROVE  CalcLrc(w, n) = 0
<1>1. PICK x \in Nat, y \in Nat :
         /\ CalcLrc(m, n) = (256 - (x % 256)) % 256
         /\ CalcLrc(w, n) = (256 - (y % 256)) % 256
         /\ y + m[c] = x + w[c]
  BY LrcsDiffer
<1>2. y = x + ((256 - (x % 256)) % 256)
  BY <1>1, Wrapped
<1>3. y % 256 = 0
  BY <1>2, Wrapped
<1> QED
  BY <1>1, <1>3, Wrapped

\* What YDLModbusPack packs is such a frame.
LEMMA PackFacts ==
    ASSUME NEW dev \in 0..15, NEW addr \in 0..15, NEW cmd \in Byte,
           NEW members \in Seq(Byte), Len(members) <= 250
    PROVE  IsFrame(YDLModbusPack(dev, addr, cmd, members), dev, addr, cmd, members)
<1> DEFINE n == 5 + Len(members)
           head == <<YDL_MODBUS_START, addr + 16 * dev, n, 0, cmd>>
           raw == head \o members
           f == YDLModbusPack(dev, addr, cmd, members)
<1>1. f = [raw EXCEPT ![4] = CalcLrc(raw, n)]
  <2>1. addr % 16 = addr /\ dev % 16 = dev /\ HeadLen + 1 + Len(members) = n
    BY DEF HeadLen
  <2> QED BY <2>1 DEF YDLModbusPack
<1>2. n \in Nat /\ n >= 5 /\ n <= 255 /\ Len(members) \in Nat
  OBVIOUS
<1>3. head \in Seq(Byte) /\ Len(head) = 5
  <2>1. /\ YDL_MODBUS_START \in Byte /\ addr + 16 * dev \in Byte /\ n \in Byte
        /\ 0 \in Byte /\ cmd \in Byte
    <3>1. addr + 16 * dev \in Nat /\ addr + 16 * dev < 256
      OBVIOUS
    <3>2. n \in Nat /\ n < 256
      BY <1>2
    <3> HIDE DEF n
    <3> QED BY <3>1, <3>2, ByteNat DEF YDL_MODBUS_START
  <2> HIDE DEF n
  <2> QED BY <2>1
<1>4. /\ raw \in Seq(Byte) /\ Len(raw) = n
      /\ raw[1] = YDL_MODBUS_START /\ raw[2] = addr + 16 * dev
      /\ raw[3] = n /\ raw[4] = 0 /\ raw[5] = cmd
      /\ \A j \in 1..Len(members) : raw[5 + j] = members[j]
  BY <1>2, <1>3
<1>5. \A j \in 1..Len(members) : 5 + j \in 1..n /\ 5 + j # 4
  BY <1>2
<1> HIDE DEF n, head, raw, f
<1>6. /\ f \in Seq(Byte) /\ Len(f) = n
      /\ \A k \in 1..n : k # 4 => f[k] = raw[k]
      /\ CalcLrc(f, n) = 0
  <2>1. raw \in [1..n -> Byte]
    BY <1>4
  <2>2. CalcLrc(raw, n) \in Byte /\ 4 \in 1..n
    BY <1>2, <2>1, CalcLrcByte
  <2>3. /\ f \in [1..n -> Byte] /\ f[4] = CalcLrc(raw, n)
        /\ \A k \in 1..n : k # 4 => f[k] = raw[k]
    BY <1>1, <2>1, <2>2
  <2>4. CalcLrc(f, n) = 0
    <3>1. (\A k \in 1..n : raw[k] \in Byte) /\ (\A k \in 1..n : f[k] \in Byte)
      BY <2>1, <2>3
    <3>2. n \in Nat /\ 4 \in 1..n
      BY <1>2, <2>2
    <3>3. raw[4] = 0 /\ f[4] = CalcLrc(raw, n) /\ \A k \in 1..n : k # 4 => f[k] = raw[k]
      BY <1>4, <2>3
    <3>4. OneChange(n, raw, f, 4)
      BY <3>1, <3>2, <3>3 DEF OneChange
    <3> QED BY <3>3, <3>4, Checksummed
  <2> QED BY <1>2, <2>3, <2>4
<1>7. \A j \in 1..Len(members) : f[5 + j] = members[j]
  BY <1>4, <1>5, <1>6
<1>8. f[1] = YDL_MODBUS_START /\ f[2] = addr + 16 * dev /\ f[3] = n /\ f[5] = cmd
  BY <1>2, <1>4, <1>6
<1> QED
  BY <1>6, <1>7, <1>8 DEF IsFrame, n, f

(* What comes of a frame on the line *)

\* Of what may become of a frame the analysis takes only the frame itself, also when it
\* finds something older behind the bytes that were read.
LEMMA OnlyIntact ==
    ASSUME NEW F, NEW dev, NEW addr, NEW cmd, NEW members \in Seq(Byte),
           IsFrame(F, dev, addr, cmd, members), NEW a \in Carried(F), NEW buf, NEW self,
           \A n \in 1..Len(a) : buf[n] = a[n], Len(a) < 3 => buf[3] # Len(a),
           Accepts(self, buf, Len(a))
    PROVE  a = F
<1> DEFINE N == Len(F)
<1>1. /\ F \in Seq(Byte) /\ N \in Nat /\ N >= 5
      /\ F[3] = N /\ CalcLrc(F, N) = 0 /\ \A n \in 1..N : F[n] \in Byte
  <2>1. Len(members) \in Nat
    OBVIOUS
  <2> QED BY <2>1 DEF IsFrame
<1>2. buf[3] = Len(a) /\ CalcLrc(buf, Len(a)) = 0
  BY DEF Accepts
<1>3. ASSUME NEW n \in 0..(N - 1), a = SubSeq(F, 1, n)
      PROVE  FALSE
  <2>1. Len(a) = n /\ \A k \in 1..n : a[k] = F[k]
    BY <1>1, <1>3
  <2>2. CASE n >= 3
    BY <1>1, <1>2, <2>1, <2>2
  <2>3. CASE n < 3
    BY <1>2, <2>1, <2>3
  <2> QED BY <1>1, <2>2, <2>3
<1>4. ASSUME NEW c \in 1..N, NEW d \in Deltas, a = [F EXCEPT ![c] = (@ + d) % 256]
      PROVE  FALSE
  <2>1. F[c] \in Nat /\ F[c] < 256 /\ d \in Nat /\ 0 < d /\ d < 256
    BY <1>1, DeltaAssumption, ByteNat
  <2>2. /\ (F[c] + d) % 256 # F[c]
        /\ (F[c] + d) % 256 \in Nat /\ (F[c] + d) % 256 < 256
    BY <2>1
  <2>3. (F[c] + d) % 256 \in Byte
    BY <2>2, ByteNat
  <2>4. /\ Len(a) = N /\ a[c] = (F[c] + d) % 256
        /\ \A n \in 1..N : n # c => a[n] = F[n]
    BY <1>1, <1>4
  <2>5. /\ \A n \in 1..N : buf[n] \in Byte
        /\ \A n \in 1..N : n # c => buf[n] = F[n]
        /\ buf[c] # F[c]
    <3>1. \A n \in 1..N : buf[n] = a[n]
      BY <2>4
    <3>2. buf[c] = (F[c] + d) % 256
      BY <2>4, <3>1
    <3>3. \A n \in 1..N : n # c => buf[n] = F[n]
      BY <2>4, <3>1
    <3>4. \A n \in 1..N : buf[n] \in Byte
      BY <1>1, <2>3, <3>2, <3>3
    <3> QED BY <2>2, <3>2, <3>3, <3>4
  <2>6. CalcLrc(buf, N) # 0
    <3>1. OneChange(N, F, buf, c)
      BY <1>1, <2>5 DEF OneChange
    <3> HIDE DEF N
    <3> QED BY <1>1, <2>5, <3>1, ChangeDetected
  <2> QED BY <1>2, <2>4, <2>6
<1> QED
  BY <1>3, <1>4 DEF Carried

KeyAnswer(k) == YDLModbusPack(HeadAddr, MODBUS_ADDR, CMD_READ_KEY, Member(KeyTag, <<k>>))
OrderFrame(o) ==
    YDLModbusPack(MODBUS_ADDR, HeadAddr, CMD_WRITE_PAN, Member(cmd_map[o.cmd], Value(o)))

LEMMA MemberFacts ==
    ASSUME NEW tag \in Byte, NEW val \in Seq(Byte), Len(val) <= 248
    PROVE  /\ Member(tag, val) \in Seq(Byte) /\ Len(Member(tag, val)) = 2 + Len(val)
           /\ Member(tag, val)[1] = tag /\ Member(tag, val)[2] = Len(val)
           /\ \A j \in 1..Len(val) : Member(tag, val)[2 + j] = val[j]
<1>1. Len(val) \in Byte
  BY ByteNat
<1>2. <<tag, Len(val)>> \in Seq(Byte) /\ Len(<<tag, Len(val)>>) = 2
  BY <1>1
<1> QED
  BY <1>2 DEF Member

\* A frame with one member, byte by byte.
OneMemberFrame(f, dev, addr, cmd, tag, val) ==
    /\ IsFrame(f, dev, addr, cmd, Member(tag, val)) /\ Member(tag, val) \in Seq(Byte)
    /\ Len(f) = 7 + Len(val)
    /\ f[6] = tag /\ f[7] = Len(val) /\ \A j \in 1..Len(val) : f[7 + j] = val[j]

LEMMA PackOne ==
    ASSUME NEW dev \in 0..15, NEW addr \in 0..15, NEW cmd \in Byte, NEW tag \in Byte,
           NEW val \in Seq(Byte), Len(val) <= 248
    PROVE  OneMemberFrame(YDLModbusPack(dev, addr, cmd, Member(tag, val)), dev, addr, cmd, tag, val)
<1> DEFINE m == Member(tag, val)
           f == YDLModbusPack(dev, addr, cmd, m)
<1>0. Len(val) \in Nat
  OBVIOUS
<1>1. /\ m \in Seq(Byte) /\ Len(m) = 2 + Len(val) /\ m[1] = tag /\ m[2] = Len(val)
      /\ \A j \in 1..Len(val) : m[2 + j] = val[j]
  BY MemberFacts
<1> HIDE DEF m, f
<1>2. IsFrame(f, dev, addr, cmd, m)
  <2>1. m \in Seq(Byte) /\ Len(m) <= 250
    BY <1>0, <1>1
  <2>2. IsFrame(YDLModbusPack(dev, addr, cmd, m), dev, addr, cmd, m)
    BY <2>1, PackFacts
  <2> QED BY <2>2 DEF f
<1>3. /\ Len(f) = 7 + Len(val)
      /\ \A j \in 1..(2 + Len(val)) : f[5 + j] = m[j]
  BY <1>0, <1>1, <1>2 DEF IsFrame
<1>4. f[6] = tag /\ f[7] = Len(val)
  <2>1. 1 \in 1..(2 + Len(val)) /\ 2 \in 1..(2 + Len(val)) /\ 5 + 1 = 6 /\ 5 + 2 = 7
    BY <1>0
  <2> QED BY <1>1, <1>3, <2>1
<1>5. ASSUME NEW j \in 1..Len(val)
      PROVE  f[7 + j] = val[j]
  <2>1. 2 + j \in 1..(2 + Len(val)) /\ 5 + (2 + j) = 7 + j
    BY <1>0
  <2> QED BY <1>1, <1>3, <2>1
<1> QED
  BY <1>1, <1>2, <1>3, <1>4, <1>5 DEF m, f, OneMemberFrame

LEMMA Addresses ==
    /\ MODBUS_ADDR \in 0..15 /\ HeadAddr \in 0..15
    /\ CMD_READ_KEY \in Byte /\ CMD_WRITE_PAN \in Byte /\ KeyTag \in Byte
  BY ByteNat DEF MODBUS_ADDR, HeadAddr, CMD_READ_KEY, CMD_WRITE_PAN, KeyTag

LEMMA KeyFrames ==
    /\ IsFrame(KeyRequest, MODBUS_ADDR, HeadAddr, CMD_READ_KEY, <<>>)
    /\ \A k \in 0..1 :
          LET a == KeyAnswer(k)
          IN  /\ IsFrame(a, HeadAddr, MODBUS_ADDR, CMD_READ_KEY, Member(KeyTag, <<k>>))
              /\ Member(KeyTag, <<k>>) \in Seq(Byte)
              /\ Len(a) = 8 /\ a[6] = KeyTag /\ a[7] = 1 /\ a[8] = k
<1>1. IsFrame(KeyRequest, MODBUS_ADDR, HeadAddr, CMD_READ_KEY, <<>>)
  <2>1. <<>> \in Seq(Byte) /\ Len(<<>>) <= 250
    OBVIOUS
  <2> QED BY <2>1, Addresses, PackFacts DEF KeyRequest
<1>2. ASSUME NEW k \in 0..1
      PROVE  LET a == KeyAnswer(k)
             IN  /\ IsFrame(a, HeadAddr, MODBUS_ADDR, CMD_READ_KEY, Member(KeyTag, <<k>>))
                 /\ Member(KeyTag, <<k>>) \in Seq(Byte)
                 /\ Len(a) = 8 /\ a[6] = KeyTag /\ a[7] = 1 /\ a[8] = k
  <2> DEFINE val == <<k>>
             f == YDLModbusPack(HeadAddr, MODBUS_ADDR, CMD_READ_KEY, Member(KeyTag, val))
  <2>1. k \in Byte
    BY ByteNat
  <2>2. val \in Seq(Byte) /\ Len(val) = 1 /\ val[1] = k
    BY <2>1
  <2>3. KeyAnswer(k) = f
    BY DEF KeyAnswer
  <2> HIDE DEF val
  <2>4. Len(val) <= 248
    BY <2>2
  <2>5. OneMemberFrame(f, HeadAddr, MODBUS_ADDR, CMD_READ_KEY, KeyTag, val)
    BY <2>2, <2>4, Addresses, PackOne
  <2> HIDE DEF f
  <2>6. Len(f) = 8 /\ f[7] = 1 /\ f[7 + 1] = val[1]
    BY <2>2, <2>5 DEF OneMemberFrame
  <2> QED BY <2>2, <2>3, <2>5, <2>6 DEF val, OneMemberFrame
<1> QED BY <1>1, <1>2

\* A member that ends where the message ends, or further on, is the only one.
LEMMA OneMember ==
    ASSUME NEW buf, NEW len \in Nat, len >= 6, \A p \in 0..len : buf[p + 1] \in Nat,
           8 + buf[7] > len
    PROVE  Members(buf, len) = <<[tag |-> buf[6], at |-> 8]>>
<1> DEFINE R == {[tag |-> buf[p], at |-> p + 2] : p \in Nat}
           e(g, p) == IF p > len THEN <<>>
                      ELSE <<[tag |-> buf[p], at |-> p + 2]>> \o g[p + 2 + buf[p + 1]]
           Solves(g, m) == g \in [Nat -> Seq(R)] /\ \A p \in Nat : p + m > len => g[p] = e(g, p)
           S == {m \in Nat : \E g : Solves(g, m)}
<1>1. 0 \in S
  <2>1. Solves([p \in Nat |-> <<>>], 0)
    OBVIOUS
  <2> QED BY <2>1
<1>2. ASSUME NEW m \in Nat, m \in S PROVE m + 1 \in S
  <2>1. PICK g : Solves(g, m)
    BY <1>2
  <2>2. CASE m > len
    <3>1. \A p \in Nat : p + m > len
      BY <2>2
    <3>2. \A p \in Nat : g[p] = e(g, p)
      <4> HIDE DEF e
      <4> QED BY <2>1, <3>1
    <3>3. Solves(g, m + 1)
      <4> HIDE DEF e
      <4> QED BY <2>1, <3>2
    <3> HIDE DEF Solves
    <3> QED BY <3>3
  <2>3. CASE m <= len
    <3> DEFINE q == len - m
               h == [g EXCEPT ![q] = e(g, q)]
    <3>1. q \in Nat /\ q <= len
      BY <2>3
    <3>2. buf[q + 1] \in Nat
      BY <3>1
    <3>3. e(g, q) \in Seq(R)
      <4>1. g[q + 2 + buf[q + 1]] \in Seq(R)
        BY <2>1, <3>1, <3>2
      <4>2. [tag |-> buf[q], at |-> q + 2] \in R
        BY <3>1
      <4> HIDE DEF R, q
      <4> QED BY <3>1, <4>1, <4>2
    <3>4. h \in [Nat -> Seq(R)]
      BY <2>1, <3>1, <3>3
    <3>5. ASSUME NEW p \in Nat, p + (m + 1) > len
          PROVE  h[p] = e(h, p)
      <4>1. p >= q
        BY <3>5
      <4>2. CASE p = q
        <5>1. h[p] = e(g, q)
          BY <2>1, <3>1, <4>2
        <5>2. q + 2 + buf[q + 1] \in Nat /\ q + 2 + buf[q + 1] # q
          BY <3>1, <3>2
        <5>3. h[q + 2 + buf[q + 1]] = g[q + 2 + buf[q + 1]]
          BY <2>1, <5>2
        <5> QED BY <4>2, <5>1, <5>3
      <4>3. CASE p > q
        <5>1. h[p] = g[p] /\ g[p] = e(g, p)
          BY <2>1, <3>1, <4>3
        <5>2. CASE p > len
          BY <5>1, <5>2
        <5>3. CASE p <= len
          <6>1. buf[p + 1] \in Nat
            BY <5>3
          <6>2. p + 2 + buf[p + 1] \in Nat /\ p + 2 + buf[p + 1] # q
            BY <3>1, <4>3, <6>1
          <6>3. h[p + 2 + buf[p + 1]] = g[p + 2 + buf[p + 1]]
            BY <2>1, <6>2
          <6> QED BY <5>1, <5>3, <6>3
        <5> QED BY <5>2, <5>3
      <4> QED BY <3>1, <4>1, <4>2, <4>3
    <3>6. Solves(h, m + 1)
      BY <3>4, <3>5
    <3> HIDE DEF h, Solves
    <3> QED BY <3>6
  <2> QED BY <2>2, <2>3
<1>3. \E g : g = [p \in Nat |-> e(g, p)]
  <2>1. len + 1 \in S
    <3> HIDE DEF S
    <3> QED BY <1>1, <1>2, SetInduction
  <2>2. PICK g : Solves(g, len + 1)
    BY <2>1
  <2>3. g \in [Nat -> Seq(R)] /\ \A p \in Nat : g[p] = e(g, p)
    BY <2>2
  <2>4. g = [p \in Nat |-> g[p]]
    BY <2>3
  <2> HIDE DEF e
  <2> QED BY <2>3, <2>4
<1> DEFINE from == CHOOSE from : from = [p \in Nat |-> e(from, p)]
<1>4. Members(buf, len) = from[6]
  BY DEF Members, HeadLen
<1>5. from = [p \in Nat |-> e(from, p)]
  <2> HIDE DEF e
  <2> QED BY <1>3
<1> HIDE DEF from
<1>6. buf[7] \in Nat
  BY 6 \in 0..len
<1>7. from[8 + buf[7]] = <<>>
  BY <1>5, <1>6
<1>8. from[6] = <<[tag |-> buf[6], at |-> 8]>>
  <2>1. from[6] = e(from, 6)
    <3> HIDE DEF e
    <3> QED BY <1>5
  <2>2. 6 + 2 + buf[6 + 1] = 8 + buf[7] /\ ~(6 > len) /\ 6 + 2 = 8
    BY <1>6
  <2>3. from[6] = <<[tag |-> buf[6], at |-> 8]>> \o <<>>
    BY <1>7, <2>1, <2>2
  <2> QED BY <2>3
<1> QED BY <1>4, <1>8

(* The order and its frame *)

\* A number that fits in 16 bits comes out of its two bytes as it went in.
LEMMA SplitFacts ==
    ASSUME NEW v \in Int
    PROVE  /\ High(v) \in Byte /\ Low(v) \in Byte
           /\ v \in Int16 => Signed16(High(v), Low(v)) = v
<1> DEFINE q == v \div 256
           l == v % 256
<1>1. q \in Int /\ l \in Nat /\ l < 256 /\ v = 256 * q + l
  OBVIOUS
<1> HIDE DEF q, l
<1>2. q % 256 \in Nat /\ q % 256 < 256
  BY <1>1
<1>3. High(v) = q % 256 /\ Low(v) = l
  BY DEF High, Low, q, l
<1>4. ASSUME v >= -32768, v <= 32767
      PROVE  (((q % 256) * 256 + l + 32768) % 65536) - 32768 = v
  <2>1. q >= -128 /\ q <= 127
    BY <1>1, <1>4
  <2>2. CASE q >= 0
    <3>1. q % 256 = q
      BY <2>1, <2>2, <1>1
    <3>2. q * 256 + l + 32768 = v + 32768 /\ v + 32768 >= 0 /\ v + 32768 < 65536
      BY <1>1, <1>4
    <3>3. (v + 32768) % 65536 = v + 32768
      BY <3>2
    <3> QED BY <3>1, <3>2, <3>3
  <2>3. CASE q < 0
    <3>1. q % 256 = q + 256
      BY <2>1, <2>3, <1>1
    <3>2. (q + 256) * 256 + l + 32768 = v + 98304
      BY <1>1
    <3>3. v + 98304 >= 65536 /\ v + 98304 < 131072
      BY <1>1, <1>4, <2>3
    <3>4. (v + 98304) % 65536 = v + 32768
      BY <3>3
    <3> QED BY <3>1, <3>2, <3>4
  <2> QED BY <1>1, <2>2, <2>3
<1>5. High(v) \in Byte /\ Low(v) \in Byte
  BY <1>1, <1>2, <1>3, ByteNat
<1>6. ASSUME v \in Int16
      PROVE  Signed16(High(v), Low(v)) = v
  <2>1. v >= -32768 /\ v <= 32767
    <3> DEFINE low == -32768
    <3>1. low \in Int
      OBVIOUS
    <3>2. Int16 = low..32767
      BY DEF Int16
    <3> HIDE DEF low
    <3>3. v >= low /\ v <= 32767
      BY <1>6, <3>1, <3>2
    <3> QED BY <3>3 DEF low
  <2>2. Signed16(High(v), Low(v)) = (((q % 256) * 256 + l + 32768) % 65536) - 32768
    BY <1>3 DEF Signed16
  <2> QED BY <1>4, <2>1, <2>2
<1> QED BY <1>5, <1>6

LEMMA TwoSplit ==
    ASSUME NEW v \in Int, NEW w \in Int
    PROVE  Split(v) \o Split(w) = <<High(v), Low(v), High(w), Low(w)>>
<1> DEFINE b == <<High(v), Low(v), High(w), Low(w)>>
           r == Split(v) \o Split(w)
<1>1. /\ High(v) \in Byte /\ Low(v) \in Byte /\ High(w) \in Byte /\ Low(w) \in Byte
  BY SplitFacts
<1>2. /\ r \in Seq(Byte) /\ Len(r) = 4
      /\ r[1] = High(v) /\ r[2] = Low(v) /\ r[3] = High(w) /\ r[4] = Low(w)
  BY <1>1 DEF Split
<1>3. b \in Seq(Byte) /\ Len(b) = 4
  BY <1>1
<1> HIDE DEF r
<1>4. r = [n \in 1..4 |-> r[n]] /\ b = [n \in 1..4 |-> b[n]]
  BY <1>2, <1>3
<1>5. \A n \in 1..4 : r[n] = b[n]
  BY <1>2
<1> QED BY <1>4, <1>5 DEF r

\* `bytes' are n bytes, and they are read as the numbers s when these fit in 16 bits.
ReadsAs(bytes, n, s) ==
    /\ bytes \in Seq(Byte)
    /\ Len(bytes) = n
    /\ Range(s) \subseteq Int16 => Numbers(bytes) = s

\* Two numbers, three numbers, in two bytes each.
LEMMA TwoNumbers ==
    ASSUME NEW v \in Int, NEW w \in Int
    PROVE  ReadsAs(Split(v) \o Split(w), 4, <<v, w>>)
<1> DEFINE b == <<High(v), Low(v), High(w), Low(w)>>
<1>2. /\ High(v) \in Byte /\ Low(v) \in Byte /\ High(w) \in Byte /\ Low(w) \in Byte
  BY SplitFacts
<1>1. Split(v) \o Split(w) = b
  BY TwoSplit
<1>3. b \in Seq(Byte) /\ Len(b) = 4
  BY <1>2
<1>4. ASSUME Range(<<v, w>>) \subseteq Int16
      PROVE  Numbers(b) = <<v, w>>
  <2>1. v \in Int16 /\ w \in Int16
    <3>1. v = <<v, w>>[1] /\ w = <<v, w>>[2] /\ 1 \in DOMAIN <<v, w>> /\ 2 \in DOMAIN <<v, w>>
      OBVIOUS
    <3> QED BY <1>4, <3>1 DEF Range
  <2>2. Signed16(High(v), Low(v)) = v /\ Signed16(High(w), Low(w)) = w
    BY <2>1, SplitFacts
  <2>3. Numbers(b) = [n \in 1..2 |-> Signed16(b[2 * n - 1], b[2 * n])]
    BY <1>3 DEF Numbers
  <2> DEFINE r == [n \in 1..2 |-> Signed16(b[2 * n - 1], b[2 * n])]
  <2>4. r[1] = v /\ r[2] = w
    BY <2>2
  <2>5. r = <<v, w>>
    <3>1. r = [n \in 1..2 |-> r[n]] /\ <<v, w>> = [n \in 1..2 |-> <<v, w>>[n]]
      OBVIOUS
    <3> HIDE DEF r
    <3> QED BY <2>4, <3>1
  <2> QED BY <2>3, <2>5
<1>5. ReadsAs(b, 4, <<v, w>>)
  <2> HIDE DEF b
  <2> QED BY <1>3, <1>4 DEF ReadsAs
<1> QED
  <2> HIDE DEF b
  <2> QED BY <1>1, <1>5

LEMMA ThreeNumbers ==
    ASSUME NEW v \in Int, NEW w \in Int, NEW z \in Int
    PROVE  ReadsAs(Split(v) \o Split(w) \o Split(z), 6, <<v, w, z>>)
<1> DEFINE b == <<High(v), Low(v), High(w), Low(w), High(z), Low(z)>>
<1>2. /\ High(v) \in Byte /\ Low(v) \in Byte /\ High(w) \in Byte /\ Low(w) \in Byte
      /\ High(z) \in Byte /\ Low(z) \in Byte
  BY SplitFacts
<1>1. Split(v) \o Split(w) \o Split(z) = b
  <2> DEFINE q == <<High(v), Low(v), High(w), Low(w)>>
             r == q \o <<High(z), Low(z)>>
  <2>1. Split(v) \o Split(w) \o Split(z) = r
    BY TwoSplit DEF Split
  <2>3. /\ r \in Seq(Byte) /\ Len(r) = 6
        /\ r[1] = High(v) /\ r[2] = Low(v) /\ r[3] = High(w) /\ r[4] = Low(w)
        /\ r[5] = High(z) /\ r[6] = Low(z)
    BY <1>2
  <2>4. b \in Seq(Byte) /\ Len(b) = 6
    BY <1>2
  <2> HIDE DEF r
  <2>5. r = [n \in 1..6 |-> r[n]] /\ b = [n \in 1..6 |-> b[n]]
    BY <2>3, <2>4
  <2>6. \A n \in 1..6 : r[n] = b[n]
    BY <2>3
  <2> QED BY <2>1, <2>5, <2>6 DEF r
<1>3. b \in Seq(Byte) /\ Len(b) = 6
  BY <1>2
<1>4. ASSUME Range(<<v, w, z>>) \subseteq Int16
      PROVE  Numbers(b) = <<v, w, z>>
  <2>1. v \in Int16 /\ w \in Int16 /\ z \in Int16
    <3>1. /\ v = <<v, w, z>>[1] /\ w = <<v, w, z>>[2] /\ z = <<v, w, z>>[3]
          /\ 1 \in DOMAIN <<v, w, z>> /\ 2 \in DOMAIN <<v, w, z>> /\ 3 \in DOMAIN <<v, w, z>>
      OBVIOUS
    <3> QED BY <1>4, <3>1 DEF Range
  <2>2. /\ Signed16(High(v), Low(v)) = v /\ Signed16(High(w), Low(w)) = w
        /\ Signed16(High(z), Low(z)) = z
    BY <2>1, SplitFacts
  <2>3. Numbers(b) = [n \in 1..3 |-> Signed16(b[2 * n - 1], b[2 * n])]
    BY <1>3 DEF Numbers
  <2> DEFINE r == [n \in 1..3 |-> Signed16(b[2 * n - 1], b[2 * n])]
  <2>4. r[1] = v /\ r[2] = w /\ r[3] = z
    BY <2>2
  <2>5. r = <<v, w, z>>
    <3>1. r = [n \in 1..3 |-> r[n]] /\ <<v, w, z>> = [n \in 1..3 |-> <<v, w, z>>[n]]
      OBVIOUS
    <3> HIDE DEF r
    <3> QED BY <2>4, <3>1
  <2> QED BY <2>3, <2>5
<1>5. ReadsAs(b, 6, <<v, w, z>>)
  <2> HIDE DEF b
  <2> QED BY <1>3, <1>4 DEF ReadsAs
<1> QED
  <2> HIDE DEF b
  <2> QED BY <1>1, <1>5

\* An order that panMsgDeal sends.
Sendable(o) == o \in Orders /\ o.cmd \in DOMAIN cmd_map /\ Complete(o)

LEMMA ValueFacts ==
    ASSUME NEW o, Sendable(o)
    PROVE  /\ cmd_map[o.cmd] \in Byte
           /\ Value(o) \in Seq(Byte) /\ Len(Value(o)) >= 1 /\ Len(Value(o)) <= 6
           /\ Range(Meant(o)) \subseteq Int16 => Numbers(Value(o)) = Meant(o)
<1>1. o.cmd \in {"setRelAngle", "setAbtAngle", "setSector", "resetPosition"}
  BY DEF Sendable, cmd_map
<1>2. cmd_map[o.cmd] \in Byte
  BY <1>1, ByteNat DEF cmd_map
<1>3. /\ "vertical" \in DOMAIN o => o.vertical \in Int
      /\ "level" \in DOMAIN o => o.level \in Int
      /\ "angle" \in DOMAIN o => o.angle \in Int
  BY OrdersAssumption DEF Sendable
<1>4. CASE o.cmd \in {"setRelAngle", "setAbtAngle"}
  <2>1. /\ Value(o) = Split(o.vertical) \o Split(o.level)
        /\ Meant(o) = <<o.vertical, o.level>>
    BY <1>4 DEF Value, Meant
  <2>2. o.vertical \in Int /\ o.level \in Int
    BY <1>3, <1>4 DEF Sendable, Complete, Needed
  <2>3. ReadsAs(Split(o.vertical) \o Split(o.level), 4, <<o.vertical, o.level>>)
    BY <2>2, TwoNumbers
  <2>4. ReadsAs(Value(o), 4, Meant(o))
    BY <2>1, <2>3
  <2> QED BY <1>2, <2>4 DEF ReadsAs
<1>5. CASE o.cmd = "setSector"
  <2>1. /\ Value(o) = Split(o.vertical) \o Split(o.level) \o Split(o.angle)
        /\ Meant(o) = <<o.vertical, o.level, o.angle>>
    BY <1>5 DEF Value, Meant
  <2>2. o.vertical \in Int /\ o.level \in Int /\ o.angle \in Int
    BY <1>3, <1>5 DEF Sendable, Complete, Needed
  <2>3. ReadsAs(Split(o.vertical) \o Split(o.level) \o Split(o.angle), 6,
                <<o.vertical, o.level, o.angle>>)
    BY <2>2, ThreeNumbers
  <2>4. ReadsAs(Value(o), 6, Meant(o))
    BY <2>1, <2>3
  <2> QED BY <1>2, <2>4 DEF ReadsAs
<1>6. CASE o.cmd = "resetPosition"
  <2>1. Value(o) = <<1>> /\ Meant(o) = <<1>>
    BY <1>6 DEF Value, Meant
  <2>2. <<1>> \in Seq(Byte) /\ Len(<<1>>) = 1 /\ Numbers(<<1>>) = <<1>>
    BY ByteNat DEF Numbers
  <2> QED BY <1>2, <2>1, <2>2
<1> QED BY <1>1, <1>4, <1>5, <1>6

\* The frame of an order, and what the head reads in it.
LEMMA OrderFacts ==
    ASSUME NEW o, Sendable(o)
    PROVE  LET f == OrderFrame(o)
               m == Member(cmd_map[o.cmd], Value(o))
           IN  /\ IsFrame(f, MODBUS_ADDR, HeadAddr, CMD_WRITE_PAN, m) /\ m \in Seq(Byte)
               /\ f[6] = cmd_map[o.cmd] /\ SubSeq(f, 8, 7 + f[7]) = Value(o)
<1> DEFINE tag == cmd_map[o.cmd]
           val == Value(o)
           f == YDLModbusPack(MODBUS_ADDR, HeadAddr, CMD_WRITE_PAN, Member(tag, val))
<1>1. f = OrderFrame(o)
  BY DEF OrderFrame
<1>2. tag \in Byte /\ val \in Seq(Byte) /\ Len(val) >= 1 /\ Len(val) <= 6
  BY ValueFacts
<1> HIDE DEF tag, val
<1>3. Len(val) <= 248
  BY <1>2
<1>4. OneMemberFrame(f, MODBUS_ADDR, HeadAddr, CMD_WRITE_PAN, tag, val)
  BY <1>2, <1>3, Addresses, PackOne
<1> HIDE DEF f
<1>5. SubSeq(f, 8, 7 + f[7]) = val
  <2> DEFINE n == Len(val)
             s == SubSeq(f, 8, 7 + n)
  <2>1. n \in Nat /\ n >= 1 /\ f \in Seq(Byte) /\ Len(f) = 7 + n /\ f[7] = n
    BY <1>2, <1>4 DEF OneMemberFrame, IsFrame
  <2>2. s = [j \in 1..n |-> f[7 + j]]
    <3> HIDE DEF n
    <3>1. s = [j \in 1..((7 + n) - 8 + 1) |-> f[j + 8 - 1]]
      BY <2>1
    <3> QED BY <2>1, <3>1
  <2>3. \A j \in 1..n : f[7 + j] = val[j]
    BY <1>4 DEF OneMemberFrame
  <2>4. val = [j \in 1..n |-> val[j]]
    BY <1>2
  <2> QED BY <2>1, <2>2, <2>3, <2>4
<1> QED BY <1>1, <1>4, <1>5 DEF OneMemberFrame, tag, val

(* The exchange *)

\* What has been sent in this exchange, and what has come back: an answer that says the
\* key is pressed only if the head has said so.
PanInv ==
    /\ talk \in {"none", "order", "key"}
    /\ talk = "none" => frame = <<>> /\ answer = <<>>
    /\ talk = "order" => Sendable(order) /\ frame \in {<<>>, OrderFrame(order)}
    /\ talk = "key" =>
          /\ frame \in {<<>>, KeyRequest}
          /\ frame # <<>> => answer = <<>>
          /\ \/ answer \in {<<>>, KeyRequest, KeyAnswer(0)}
             \/ answer = KeyAnswer(1) /\ saidKey

LEMMA PanInitial == Init => PanInv
  BY DEF Init, PanInit, PanInv

LEMMA PanApart ==
    ASSUME PanInv, UNCHANGED panVars PROVE PanInv'
  BY DEF PanInv, panVars

\* What the head takes for a frame is the frame that was sent.
LEMMA HeadTakesSent ==
    ASSUME PanInv, frame # <<>>, NEW f \in Carried(frame), Len(f) > HeadLen,
           Accepts(HeadAddr, f, Len(f))
    PROVE  /\ f = frame
           /\ \/ talk = "key" /\ frame = KeyRequest /\ f[5] = CMD_READ_KEY
              \/ /\ talk = "order" /\ Sendable(order) /\ frame = OrderFrame(order)
                 /\ f[5] = CMD_WRITE_PAN
<1>1. CASE talk = "key"
  <2>1. frame = KeyRequest
    BY <1>1 DEF PanInv
  <2>2. IsFrame(KeyRequest, MODBUS_ADDR, HeadAddr, CMD_READ_KEY, <<>>) /\ <<>> \in Seq(Byte)
    BY KeyFrames
  <2>3. (\A n \in 1..Len(f) : f[n] = f[n]) /\ ~(Len(f) < 3)
    BY DEF HeadLen
  <2>4. f = KeyRequest
    BY <2>1, <2>2, <2>3, OnlyIntact
  <2> QED BY <1>1, <2>1, <2>2, <2>4 DEF IsFrame
<1>2. CASE talk = "order"
  <2>1. Sendable(order) /\ frame = OrderFrame(order)
    BY <1>2 DEF PanInv
  <2> DEFINE m == Member(cmd_map[order.cmd], Value(order))
             F == OrderFrame(order)
  <2>2. IsFrame(F, MODBUS_ADDR, HeadAddr, CMD_WRITE_PAN, m) /\ m \in Seq(Byte)
    BY <2>1, OrderFacts
  <2>3. (\A n \in 1..Len(f) : f[n] = f[n]) /\ ~(Len(f) < 3)
    BY DEF HeadLen
  <2> HIDE DEF m, F
  <2>4. f = F
    <3>1. f \in Carried(F)
      BY <2>1 DEF F
    <3> QED BY <2>2, <2>3, <3>1, OnlyIntact
  <2>5. f[5] = CMD_WRITE_PAN
    BY <2>2, <2>4 DEF IsFrame
  <2> QED BY <1>2, <2>1, <2>4, <2>5 DEF F
<1> QED BY <1>1, <1>2 DEF PanInv

LEMMA HeadHearsKeeps ==
    ASSUME PanInv, HeadHears PROVE PanInv'
<1>1. frame # <<>> /\ frame' = <<>> /\ UNCHANGED <<talk, order>>
  BY DEF HeadHears
<1>2. PICK f \in Carried(frame), k \in 0..1 :
        IF Len(f) > HeadLen /\ Accepts(HeadAddr, f, Len(f))
        THEN /\ answer' \in {<<>>, HeadAnswer(f, k)}
             /\ saidKey' = (f[5] = CMD_READ_KEY /\ k = 1)
        ELSE UNCHANGED <<answer, saidKey>>
  BY DEF HeadHears
<1>3. CASE talk = "key"
  <2>1. CASE Len(f) > HeadLen /\ Accepts(HeadAddr, f, Len(f))
    <3>1. f[5] = CMD_READ_KEY
      BY <1>1, <1>3, <2>1, HeadTakesSent
    <3>2. HeadAnswer(f, k) = KeyAnswer(k)
      BY <3>1 DEF HeadAnswer, KeyAnswer
    <3>3. \/ answer' = <<>>
          \/ answer' = KeyAnswer(k) /\ (saidKey' <=> k = 1)
      BY <1>2, <2>1, <3>1, <3>2
    <3>4. k = 0 \/ k = 1
      OBVIOUS
    <3> QED BY <1>1, <1>3, <3>3, <3>4 DEF PanInv, KeyAnswer, KeyRequest
  <2>2. CASE ~(Len(f) > HeadLen /\ Accepts(HeadAddr, f, Len(f)))
    BY <1>1, <1>2, <1>3, <2>2 DEF PanInv
  <2> QED BY <2>1, <2>2
<1>4. CASE talk = "order"
  BY <1>1, <1>4 DEF PanInv
<1> QED BY <1>1, <1>3, <1>4 DEF PanInv

LEMMA PanPreserved ==
    ASSUME PanInv, [Next]_vars PROVE PanInv'
<1>1. CASE UNCHANGED panVars
  BY <1>1, PanApart
<1>2. CASE Ask
  BY <1>2 DEF Ask, AskKey, PanInv
<1>3. CASE Answered
  BY <1>3 DEF Answered, KeyEnds, PanInv
<1>4. CASE Order
  <2>1. PICK o \in Orders : SendOrder(o)
    BY <1>4 DEF Order
  <2>2. talk' = "order" /\ order' = o /\ frame' = OrderFrame(o) /\ Sendable(o)
    BY <2>1 DEF SendOrder, OrderFrame, Sendable
  <2> QED BY <2>2 DEF PanInv
<1>5. CASE OrderEnds
  BY <1>5 DEF OrderEnds, PanInv
<1>6. CASE HeadHears
  BY <1>6, HeadHearsKeeps
<1>7. CASE Echo
  BY <1>7 DEF Echo, PanInv
<1>8. CASE PanDown
  BY <1>8 DEF PanDown, PanInv
<1>9. \/ UNCHANGED panVars \/ Ask \/ Answered \/ Order \/ OrderEnds \/ HeadHears \/ Echo
      \/ PanDown
  BY DEF Next, Own, vars, PowerOn, Check, CheckOverruns, Reported, KeyFails, LookupFails,
         NtpFails, NtpAnswers, WildLookup, Work, Reboot, Talk, OrderCrashes, PromptMissing,
         PowerCut, Down, Apart
<1> QED BY <1>1, <1>2, <1>3, <1>4, <1>5, <1>6, <1>7, <1>8, <1>9

-----------------------------------------------------------------------------
(* The key *)

LEMMA CarriedLen ==
    ASSUME NEW F \in Seq(Byte), NEW a \in Carried(F)
    PROVE  Len(a) \in Nat /\ Len(a) <= Len(F)
<1>1. Len(F) \in Nat
  OBVIOUS
<1>2. ASSUME NEW n \in 0..(Len(F) - 1), a = SubSeq(F, 1, n)
      PROVE  Len(a) \in Nat /\ Len(a) <= Len(F)
  BY <1>1, <1>2
<1>3. ASSUME NEW n \in 1..Len(F), NEW d \in Deltas, a = [F EXCEPT ![n] = (@ + d) % 256]
      PROVE  Len(a) = Len(F)
  BY <1>1, <1>3
<1> QED BY <1>1, <1>2, <1>3 DEF Carried

\* What getKeyStatus takes for a frame is the frame that was sent back to it, whatever of
\* its request is left in the buffer.
LEMMA KeyTakesSent ==
    ASSUME NEW F, NEW dev, NEW addr, NEW cmd, NEW members \in Seq(Byte),
           IsFrame(F, dev, addr, cmd, members), Len(F) <= KeyBufLen, NEW a \in Carried(F),
           Accepts(MODBUS_ADDR, KeyBuf(a), Len(a))
    PROVE  a = F
<1>1. F \in Seq(Byte)
  BY DEF IsFrame
<1>2. Len(a) \in Nat /\ Len(a) <= 16
  BY <1>1, CarriedLen DEF KeyBufLen
<1>3. KeyRequest[3] = 5 /\ Len(KeyRequest) = 5
  BY KeyFrames DEF IsFrame
<1> DEFINE buf == KeyBuf(a)
<1>4. \A n \in 1..Len(a) : buf[n] = a[n]
  BY <1>2 DEF KeyBuf, KeyBufLen
<1>5. Len(a) < 3 => buf[3] # Len(a)
  <2> SUFFICES ASSUME Len(a) < 3 PROVE buf[3] = 5
    OBVIOUS
  <2> QED BY <1>2, <1>3 DEF KeyBuf, KeyBufLen
<1> HIDE DEF buf
<1>6. Accepts(MODBUS_ADDR, buf, Len(a))
  BY DEF buf
<1> QED BY <1>4, <1>5, <1>6, OnlyIntact

\* The answer that says the key is not pressed is read so.
LEMMA ReleasedRead == KeyOf(KeyAnswer(0)) \subseteq {0}
<1> DEFINE a == KeyAnswer(0)
           buf == KeyBuf(a)
<1>1. /\ IsFrame(a, HeadAddr, MODBUS_ADDR, CMD_READ_KEY, Member(KeyTag, <<0>>))
      /\ Len(a) = 8 /\ a[6] = KeyTag /\ a[7] = 1 /\ a[8] = 0
  BY KeyFrames
<1> HIDE DEF a
<1>2. a \in Seq(Byte) /\ KeyRequest \in Seq(Byte)
  BY <1>1, KeyFrames DEF IsFrame
<1>3. /\ \A n \in 1..Len(a) : a[n] \in Nat
      /\ \A n \in 1..Len(KeyRequest) : KeyRequest[n] \in Nat
  <2>1. /\ \A n \in 1..Len(a) : a[n] \in Byte
        /\ \A n \in 1..Len(KeyRequest) : KeyRequest[n] \in Byte
    BY <1>2
  <2> QED BY <2>1, ByteNat
<1>4. /\ \A n \in 1..16 : buf[n] \in Nat
      /\ buf[6] = KeyTag /\ buf[7] = 1 /\ buf[8] = 0
  <2>1. Len(KeyRequest) \in Nat /\ Len(a) = 8
    BY <1>1, <1>2
  <2>2. buf = [n \in 1..16 |-> IF n <= 8 THEN a[n]
                                ELSE IF n <= Len(KeyRequest) THEN KeyRequest[n] ELSE 0]
    BY <2>1 DEF KeyBuf, KeyBufLen
  <2>3. ASSUME NEW n \in 1..16 PROVE buf[n] \in Nat
    <3>1. CASE n <= 8
      <4>1. n \in 1..Len(a)
        BY <2>1, <3>1
      <4>2. a[n] \in Nat
        BY <1>3, <4>1
      <4> QED BY <2>2, <3>1, <4>2
    <3>2. CASE ~(n <= 8) /\ n <= Len(KeyRequest)
      BY <1>3, <2>1, <2>2, <3>2
    <3>3. CASE ~(n <= 8) /\ ~(n <= Len(KeyRequest))
      BY <2>2, <3>3
    <3> QED BY <3>1, <3>2, <3>3
  <2>4. buf[6] = a[6] /\ buf[7] = a[7] /\ buf[8] = a[8]
    BY <2>2
  <2> QED BY <1>1, <2>3, <2>4
<1> HIDE DEF buf
<1>5. Members(buf, 8) = <<[tag |-> KeyTag, at |-> 8]>>
  <2>1. \A p \in 0..8 : buf[p + 1] \in Nat
    BY <1>4
  <2>2. 8 + buf[7] > 8
    BY <1>4
  <2>3. Members(buf, 8) = <<[tag |-> buf[6], at |-> 8]>>
    BY <2>1, <2>2, OneMember
  <2> QED BY <1>4, <2>3
<1>6. KeyOf(a) = IF Len(a) = 0 \/ ~Accepts(MODBUS_ADDR, buf, Len(a)) THEN {0}
                 ELSE IF Members(buf, Len(a)) = <<>> THEN 0..1
                 ELSE IF Members(buf, Len(a))[1].tag = KeyTag
                 THEN {buf[Members(buf, Len(a))[1].at]} ELSE {0}
  BY DEF KeyOf, buf
<1>7. Members(buf, Len(a)) = <<[tag |-> KeyTag, at |-> 8]>>
  BY <1>1, <1>5
<1>8. KeyOf(a) = {0} \/ KeyOf(a) = {buf[8]}
  BY <1>6, <1>7
<1> QED BY <1>4, <1>8 DEF a

\* No other answer than the one that says so is taken for a pressed key.
LEMMA KeyHeard ==
    ASSUME answer \in {<<>>, KeyRequest, KeyAnswer(0)}
    PROVE  KeyAnswers \subseteq {0}
<1> SUFFICES ASSUME NEW a \in Carried(answer) PROVE KeyOf(a) \subseteq {0}
  BY DEF KeyAnswers
<1>1. CASE Len(a) = 0 \/ ~Accepts(MODBUS_ADDR, KeyBuf(a), Len(a))
  BY <1>1 DEF KeyOf
<1>2. CASE Len(a) # 0 /\ Accepts(MODBUS_ADDR, KeyBuf(a), Len(a))
  <2>1. CASE answer = <<>>
    <3>1. <<>> \in Seq(Byte) /\ Len(<<>>) = 0
      OBVIOUS
    <3>2. Len(a) \in Nat /\ Len(a) <= 0
      BY <2>1, <3>1, CarriedLen
    <3> QED BY <1>2, <3>2
  <2>2. CASE answer = KeyRequest
    <3>1. IsFrame(KeyRequest, MODBUS_ADDR, HeadAddr, CMD_READ_KEY, <<>>) /\ <<>> \in Seq(Byte)
      BY KeyFrames
    <3>2. Len(KeyRequest) = 5 /\ KeyRequest[2] = 1
      BY <3>1 DEF IsFrame, MODBUS_ADDR, HeadAddr
    <3>3. a = KeyRequest
      <4>1. Len(KeyRequest) <= KeyBufLen /\ a \in Carried(KeyRequest)
        BY <2>2, <3>2 DEF KeyBufLen
      <4> QED BY <1>2, <3>1, <4>1, KeyTakesSent
    <3>4. KeyBuf(a)[2] = 1
      BY <3>2, <3>3 DEF KeyBuf, KeyBufLen
    <3> QED BY <1>2, <3>4 DEF Accepts, MODBUS_ADDR
  <2>3. CASE answer = KeyAnswer(0)
    <3> DEFINE F == KeyAnswer(0)
    <3>1. /\ IsFrame(F, HeadAddr, MODBUS_ADDR, CMD_READ_KEY, Member(KeyTag, <<0>>))
          /\ Member(KeyTag, <<0>>) \in Seq(Byte)
          /\ Len(F) = 8
      BY KeyFrames
    <3> HIDE DEF F
    <3>2. a = F
      <4>1. a \in Carried(F)
        BY <2>3 DEF F
      <4>2. Len(F) <= KeyBufLen
        BY <3>1 DEF KeyBufLen
      <4> QED BY <1>2, <3>1, <4>1, <4>2, KeyTakesSent
    <3> QED BY <1>2, <3>2, ReleasedRead DEF F
  <2> QED BY <2>1, <2>2, <2>3
<1> QED BY <1>1, <1>2

\* The key starts a set-up only if the head has said so in answer to this question: what
\* the line makes of a frame never passes the checksum, and an echo is addressed to the
\* head (wpa2APP.c:519-549; modbus.c:116-158).
THEOREM OnlyPressedKey == Spec => KeyWasPressed
<1>1. ASSUME PanInv, Next, where' = "setup", where \in {"key", "running"}
      PROVE  saidKey
  <2>1. Answered
    BY <1>1 DEF Next, Own, PowerOn, Check, CheckOverruns, Reported, Ask, KeyFails, Answered,
           LookupFails, NtpFails, NtpAnswers, WildLookup, Work, Reboot, Talk, Order,
           OrderCrashes, PromptMissing, PowerCut, Down, Goes, Again, deviceVars
  <2>2. talk = "key" /\ \E k \in KeyAnswers : KeyCounts(k)
    BY <1>1, <2>1 DEF Answered, KeyEnds, NextStop
  <2>3. ~(KeyAnswers \subseteq {0})
    BY <2>2 DEF KeyCounts
  <2> QED BY <1>1, <2>2, <2>3, KeyHeard DEF PanInv
<1>2. PanInv /\ [Next]_vars =>
        [where' = "setup" /\ where \in {"key", "running"} => saidKey]_vars
  BY <1>1
<1>3. Spec => []PanInv
  BY PanInitial, PanPreserved, PTL DEF Spec
<1> QED BY <1>2, <1>3, PTL DEF Spec, KeyWasPressed

\* The head moves only while an order is being dealt with, and as that one means
\* (modbus_app.c:179-262; modbus.c:60-158): a number that fits in 16 bits comes out of its
\* two bytes as it went in.
THEOREM HeadObeys == Spec => HeadMovesAsMeant
<1>1. ASSUME PanInv, Next, did' \notin {did, Nothing}
      PROVE  /\ order # Nothing
             /\ did'.tag = cmd_map[order.cmd]
             /\ Range(Meant(order)) \subseteq Int16 => did'.numbers = Meant(order)
  <2>1. HeadHears
    BY <1>1 DEF Next, Own, PowerOn, Check, CheckOverruns, Reported, Ask, AskKey, KeyFails,
           Answered, KeyEnds, LookupFails, NtpFails, NtpAnswers, WildLookup, Work, Reboot,
           Talk, OrderEnds, Echo, Order, SendOrder, OrderCrashes, PromptMissing, PowerCut,
           Down, PanDown, Apart, panVars
  <2>2. PICK f \in Carried(frame) :
          /\ Len(f) > HeadLen /\ Accepts(HeadAddr, f, Len(f))
          /\ f[5] = CMD_WRITE_PAN
          /\ did' = [tag |-> f[6], numbers |-> Numbers(SubSeq(f, 8, 7 + f[7]))]
    BY <1>1, <2>1 DEF HeadHears
  <2>3. frame # <<>>
    BY <2>1 DEF HeadHears
  <2>4. f = frame /\ talk = "order" /\ Sendable(order) /\ frame = OrderFrame(order)
    <3>1. CMD_READ_KEY # CMD_WRITE_PAN
      BY DEF CMD_READ_KEY, CMD_WRITE_PAN
    <3> QED BY <1>1, <2>2, <2>3, <3>1, HeadTakesSent
  <2>5. f[6] = cmd_map[order.cmd] /\ SubSeq(f, 8, 7 + f[7]) = Value(order)
    BY <2>4, OrderFacts
  <2>6. did'.tag = cmd_map[order.cmd] /\ did'.numbers = Numbers(Value(order))
    BY <2>2, <2>5
  <2>7. order # Nothing
    BY <2>4, OrdersAssumption DEF Sendable
  <2> QED BY <2>4, <2>6, <2>7, ValueFacts
<1>2. PanInv /\ [Next]_vars =>
        [did' \notin {did, Nothing} =>
            /\ order # Nothing
            /\ did'.tag = cmd_map[order.cmd]
            /\ Range(Meant(order)) \subseteq Int16 => did'.numbers = Meant(order)]_panVars
  BY <1>1 DEF vars, panVars
<1>3. Spec => []PanInv
  BY PanInitial, PanPreserved, PTL DEF Spec
<1> QED BY <1>2, <1>3, PTL DEF Spec, HeadMovesAsMeant

-----------------------------------------------------------------------------
(* The set-up of the network *)

Stages == {"idle", "sys", "config", "run", "stop_ai", "stop_ao", "exit", "done"}
Nets == [ssid : Names \cup {Empty}, psk : Passwords \cup {Empty}, open : BOOLEAN]

\* Where a service is, the job is one that has a service; so nothing is heard
\* while the requests are made.
ServedJob == stage # "idle" => job \in Prompts \cup {"listen"}

WifiTypeOK ==
    /\ heard \in [ssid : Names \cup {NotHeard}, psk : Passwords \cup {NotHeard}]
    /\ supplicant \in Nets /\ stored \in Nets
    /\ harmed \in BOOLEAN

\* What the requests made so far have brought about, for each rest of the list.
SsidSet == harmed \/ supplicant.ssid = Ssid
OpenSet == harmed \/ supplicant.open = (Passwd = Empty)
PskSet == harmed \/ Passwd = Empty \/ supplicant.psk = Passwd

Requested ==
    job = "set" =>
        \/ requests \in {<<>>, <<"enable">>, RequestList}
        \/ Passwd = Empty /\ requests = <<"none", "save", "enable">> /\ SsidSet
        \/ Passwd # Empty /\ requests = <<"wpa", "psk", "save", "enable">> /\ SsidSet
        \/ Passwd # Empty /\ requests = <<"psk", "save", "enable">> /\ SsidSet /\ OpenSet
        \/ requests = <<"save", "enable">> /\ SsidSet /\ OpenSet /\ PskSet

WifiInv == WifiTypeOK /\ ServedJob /\ Requested /\ StoredIsChosen

USE FactoryAssumption, NamesAssumption

LEMMA WifiInitial == Init => WifiInv
<1> SUFFICES ASSUME WifiInit PROVE WifiInv
  BY DEF Init
<1>1. WifiTypeOK
  <2>1. New \in Nets
    BY DEF New, Nets
  <2>2. NoAnswers \in [ssid : Names \cup {NotHeard}, psk : Passwords \cup {NotHeard}]
    BY DEF NoAnswers
  <2> QED BY <2>1, <2>2 DEF WifiInit, WifiTypeOK
<1> QED BY <1>1 DEF WifiInit, AudioInit, WifiInv, ServedJob, Requested, StoredIsChosen

\* Nothing of the set-up changes in a step of the others.
LEMMA WifiApart ==
    ASSUME WifiInv, UNCHANGED wifiVars, UNCHANGED stage
    PROVE  WifiInv'
  BY DEF WifiInv, WifiTypeOK, ServedJob, Requested, StoredIsChosen, wifiVars, network,
         RequestList, SsidSet, OpenSet, PskSet, Ssid, Passwd, Text, Nets

\* In a step that makes no request and leaves none the networks stay.
LEMMA WifiAside ==
    ASSUME WifiInv, UNCHANGED <<stored, chosen>>,
           supplicant' \in Nets,
           heard' \in [ssid : Names \cup {NotHeard}, psk : Passwords \cup {NotHeard}],
           harmed' \in BOOLEAN, job' # "set",
           ServedJob'
    PROVE  WifiInv'
  BY DEF WifiInv, WifiTypeOK, Requested, StoredIsChosen, Nets

\* What a request that is obeyed does to the networks.
LEMMA ObeyedKeeps ==
    ASSUME WifiInv, job = "set", requests # <<>>, Obeyed(Head(requests))
    PROVE  /\ supplicant' \in Nets /\ stored' \in Nets
           /\ StoredIsChosen'
<1>1. Ssid \in Names \cup {Empty} /\ Passwd \in Passwords \cup {Empty}
  BY DEF WifiInv, WifiTypeOK, Ssid, Passwd, Text
<1>2. supplicant' \in Nets
  BY <1>1 DEF WifiInv, WifiTypeOK, Nets, Obeyed
<1>3. CASE Head(requests) = "save"
  <2>1. requests = <<"save", "enable">>
    BY <1>3 DEF WifiInv, Requested, RequestList
  <2>2. SsidSet /\ OpenSet /\ PskSet
    BY <2>1 DEF WifiInv, Requested, RequestList
  <2>3. /\ stored' = supplicant
        /\ chosen' = IF harmed THEN NoNetwork ELSE [ssid |-> Ssid, psk |-> Passwd]
    BY <1>3 DEF Obeyed
  <2>4. StoredIsChosen'
    BY <2>2, <2>3 DEF StoredIsChosen, SsidSet, OpenSet, PskSet
  <2> QED BY <1>2, <2>3, <2>4 DEF WifiInv, WifiTypeOK
<1>4. CASE Head(requests) # "save"
  <2>1. UNCHANGED <<stored, chosen>>
    BY <1>4 DEF Obeyed
  <2> QED BY <1>2, <2>1 DEF WifiInv, WifiTypeOK, StoredIsChosen
<1> QED BY <1>3, <1>4

LEMMA RequestMade ==
    ASSUME WifiInv, Request PROVE WifiInv'
<1>1. /\ job = "set" /\ requests # <<>> /\ requests' = Tail(requests)
      /\ UNCHANGED <<stage, job, heard>>
  BY DEF Request, audioVars
<1>2. /\ Ssid' = Ssid /\ Passwd' = Passwd /\ RequestList' = RequestList
  BY <1>1 DEF Ssid, Passwd, Text, RequestList
<1>3. \/ Obeyed(Head(requests)) /\ harmed' = harmed
      \/ UNCHANGED <<supplicant, stored, chosen>> /\ harmed' = TRUE
  BY DEF Request, NotObeyed, network
<1>4. /\ supplicant' \in Nets /\ stored' \in Nets
      /\ StoredIsChosen'
  BY <1>1, <1>3, ObeyedKeeps DEF WifiInv, WifiTypeOK, StoredIsChosen
<1>5. WifiTypeOK' /\ ServedJob'
  BY <1>1, <1>3, <1>4 DEF WifiInv, WifiTypeOK, ServedJob
<1>6. Requested'
  <2>1. CASE requests = RequestList
    <3>1. /\ Head(requests) = "ssid"
          /\ \/ Passwd = Empty /\ requests' = <<"none", "save", "enable">>
             \/ Passwd # Empty /\ requests' = <<"wpa", "psk", "save", "enable">>
      BY <1>1, <2>1 DEF RequestList
    <3>2. SsidSet'
      BY <1>2, <1>3, <3>1 DEF WifiInv, WifiTypeOK, Nets, SsidSet, Obeyed
    <3> QED BY <1>2, <3>1, <3>2 DEF Requested
  <2>2. CASE Passwd = Empty /\ requests = <<"none", "save", "enable">> /\ SsidSet
    <3>1. Head(requests) = "none" /\ requests' = <<"save", "enable">>
      BY <1>1, <2>2
    <3>2. SsidSet' /\ OpenSet' /\ PskSet'
      BY <1>2, <1>3, <2>2, <3>1
      DEF WifiInv, WifiTypeOK, Nets, SsidSet, OpenSet, PskSet, Obeyed
    <3> QED BY <1>2, <2>2, <3>1, <3>2 DEF Requested
  <2>3. CASE Passwd # Empty /\ requests = <<"wpa", "psk", "save", "enable">> /\ SsidSet
    <3>1. Head(requests) = "wpa" /\ requests' = <<"psk", "save", "enable">>
      BY <1>1, <2>3
    <3>2. SsidSet' /\ OpenSet'
      BY <1>2, <1>3, <2>3, <3>1
      DEF WifiInv, WifiTypeOK, Nets, SsidSet, OpenSet, PskSet, Obeyed
    <3> QED BY <1>2, <2>3, <3>1, <3>2 DEF Requested
  <2>4. CASE Passwd # Empty /\ requests = <<"psk", "save", "enable">> /\ SsidSet /\ OpenSet
    <3>1. Head(requests) = "psk" /\ requests' = <<"save", "enable">>
      BY <1>1, <2>4
    <3>2. SsidSet' /\ OpenSet' /\ PskSet'
      <4>1. CASE harmed'
        BY <4>1 DEF SsidSet, OpenSet, PskSet
      <4>2. CASE ~harmed'
        <5>1. supplicant' = [supplicant EXCEPT !.psk = Passwd] /\ harmed' = harmed
          BY <1>3, <3>1, <4>2 DEF Obeyed
        <5>2. /\ supplicant'.ssid = supplicant.ssid
              /\ supplicant'.open = supplicant.open
              /\ supplicant'.psk = Passwd
          BY <5>1 DEF WifiInv, WifiTypeOK, Nets
        <5> QED BY <1>2, <2>4, <5>1, <5>2 DEF SsidSet, OpenSet, PskSet
      <4> QED BY <4>1, <4>2
    <3> QED BY <1>2, <2>4, <3>1, <3>2 DEF Requested
  <2>5. CASE requests \in {<<"save", "enable">>, <<"enable">>}
    <3>1. requests = <<"save", "enable">> => requests' = <<"enable">>
      BY <1>1
    <3>2. requests = <<"enable">> => requests' = <<>>
      BY <1>1
    <3> QED BY <2>5, <3>1, <3>2 DEF Requested
  <2> QED BY <1>1, <2>1, <2>2, <2>3, <2>4, <2>5 DEF WifiInv, Requested
<1> QED BY <1>4, <1>5, <1>6 DEF WifiInv

LEMMA WifiStepKeeps ==
    ASSUME WifiInv, WifiStep PROVE WifiInv'
<1>1. CASE Serve
  <2>1. /\ UNCHANGED <<job, requests, supplicant, stored, chosen, harmed>>
        /\ \/ job \in Prompts /\ heard' = heard
           \/ job = "listen" /\ heard' = NoAnswers
    BY <1>1 DEF Serve, network
  <2>2. NoAnswers \in [ssid : Names \cup {NotHeard}, psk : Passwords \cup {NotHeard}]
    BY DEF NoAnswers
  <2>3. job' # "set" /\ ServedJob'
    BY <2>1 DEF Prompts, ServedJob
  <2> QED BY <2>1, <2>2, <2>3, WifiAside DEF WifiInv, WifiTypeOK
<1>2. CASE Hear
  <2>1. /\ stage = "run"
        /\ UNCHANGED <<stage, job, requests, supplicant, stored, chosen, harmed>>
    BY <1>2 DEF Hear, network, audioVars
  <2>2. heard' \in [ssid : Names \cup {NotHeard}, psk : Passwords \cup {NotHeard}]
    BY <1>2 DEF Hear, WifiInv, WifiTypeOK
  <2>3. job' # "set" /\ ServedJob'
    BY <2>1 DEF WifiInv, ServedJob, Prompts
  <2> QED BY <2>1, <2>2, <2>3, WifiAside DEF WifiInv, WifiTypeOK
<1>3. CASE ServiceStep
  <2>1. stage # "idle" /\ UNCHANGED wifiVars
    BY <1>3 DEF ServiceStep, AudioStep, SysInit, SysInitFails, Configure, ReadFails,
                StopAi, StopAo, Disable, Exit, Finish, At
  <2>2. UNCHANGED <<job, heard, requests, supplicant, stored, chosen, harmed>>
    BY <2>1 DEF wifiVars, network
  <2>3. job' # "set" /\ ServedJob'
    BY <2>1, <2>2 DEF WifiInv, ServedJob, Prompts
  <2> QED BY <2>2, <2>3, WifiAside DEF WifiInv, WifiTypeOK
<1>4. CASE PromptReturns
  <2>1. /\ stage' = "idle" /\ job' \in {"listen", "reboot", "none"}
        /\ UNCHANGED <<heard, requests, supplicant, stored, chosen, harmed>>
    BY <1>4 DEF PromptReturns, Return, At, network
  <2>2. job' # "set" /\ ServedJob'
    BY <2>1 DEF ServedJob
  <2> QED BY <2>1, <2>2, WifiAside DEF WifiInv, WifiTypeOK
<1>5. CASE ListenReturns
  <2>1. /\ stage' = "idle" /\ job' = "set" /\ requests' \in {RequestList, <<>>}
        /\ harmed' = ~AllHeard
        /\ UNCHANGED <<heard, supplicant, stored, chosen>>
    BY <1>5 DEF ListenReturns, Return, At, network
  <2>2. RequestList' = RequestList
    BY <2>1 DEF RequestList, Passwd, Text
  <2>3. WifiTypeOK' /\ ServedJob' /\ StoredIsChosen'
    BY <2>1 DEF WifiInv, WifiTypeOK, ServedJob, StoredIsChosen, AllHeard
  <2>4. Requested'
    BY <2>1, <2>2 DEF Requested
  <2> QED BY <2>3, <2>4 DEF WifiInv
<1>6. CASE Request
  BY <1>6, RequestMade
<1>7. CASE RequestFails
  <2>1. /\ job = "set" /\ requests # <<>> /\ requests' = <<>>
        /\ UNCHANGED <<stage, job, heard, harmed>>
    BY <1>7 DEF RequestFails, audioVars
  <2>2. CASE NotObeyed
    BY <2>1, <2>2 DEF NotObeyed, network, WifiInv, WifiTypeOK, ServedJob, Requested,
                      StoredIsChosen
  <2>3. CASE Obeyed(Head(requests))
    <3>1. supplicant' \in Nets /\ stored' \in Nets /\ StoredIsChosen'
      BY <2>1, <2>3, ObeyedKeeps
    <3> QED BY <2>1, <3>1 DEF WifiInv, WifiTypeOK, ServedJob, Requested
  <2> QED BY <1>7, <2>2, <2>3 DEF RequestFails
<1>8. CASE SetReturns
  <2>1. /\ requests = <<>> /\ job' = "confirm"
        /\ UNCHANGED <<stage, heard, requests, supplicant, stored, chosen, harmed>>
    BY <1>8 DEF SetReturns, audioVars, network
  <2>2. job' # "set" /\ ServedJob'
    BY <2>1 DEF ServedJob, Prompts
  <2> QED BY <2>1, <2>2, WifiAside DEF WifiInv, WifiTypeOK
<1> QED BY <1>1, <1>2, <1>3, <1>4, <1>5, <1>6, <1>7, <1>8 DEF WifiStep
\* One step of the device keeps the invariant.
LEMMA WifiPreserved ==
    ASSUME WifiInv, [Next]_vars PROVE WifiInv'
<1>1. CASE UNCHANGED vars
  <2>1. UNCHANGED <<stage, wifiVars>>
    BY <1>1 DEF vars, audioVars
  <2> QED BY <2>1, WifiApart
<1>2. CASE PowerOn \/ CheckOverruns \/ Reported \/ Ask \/ KeyFails \/ LookupFails \/ NtpFails
           \/ NtpAnswers \/ WildLookup \/ Talk \/ Order \/ OrderCrashes \/ PromptMissing
  <2>1. UNCHANGED <<stage, wifiVars>>
    BY <1>2 DEF PowerOn, CheckOverruns, Reported, Ask, KeyFails, LookupFails, NtpFails,
        NtpAnswers, WildLookup, Talk, Order, OrderCrashes, PromptMissing, Apart, audioVars
  <2> QED BY <2>1, WifiApart
<1>3. CASE Check \/ Answered
  <2>1. UNCHANGED <<stage, heard, supplicant, stored, chosen, harmed>>
    BY <1>3 DEF Check, Answered, Apart, audioVars, network
  <2>2. CASE job' \in {"ask", "report"}
    <3>1. job' # "set" /\ ServedJob'
      BY <2>2 DEF ServedJob, Prompts
    <3> QED BY <2>1, <3>1, WifiAside DEF WifiInv, WifiTypeOK
  <2>3. CASE job' = job
    <3>1. UNCHANGED <<stage, wifiVars>>
      BY <1>3, <2>1, <2>3 DEF Check, Answered, wifiVars, network
    <3> QED BY <3>1, WifiApart
  <2> QED BY <1>3, <2>2, <2>3 DEF Check, Answered, Configuring
<1>4. CASE Work
  BY <1>4, WifiStepKeeps DEF Work
<1>5. CASE Reboot \/ PowerCut
  <2>1. /\ stage' = "idle" /\ job' = "none" /\ heard' = NoAnswers /\ harmed' = FALSE
        /\ supplicant' = stored /\ UNCHANGED <<stored, chosen>>
    BY <1>5 DEF Reboot, PowerCut, Down, WifiDown
  <2>2. NoAnswers \in [ssid : Names \cup {NotHeard}, psk : Passwords \cup {NotHeard}]
    BY DEF NoAnswers
  <2>3. job' # "set" /\ ServedJob'
    BY <2>1 DEF ServedJob
  <2> QED BY <2>1, <2>2, <2>3, WifiAside DEF WifiInv, WifiTypeOK
<1> QED BY <1>1, <1>2, <1>3, <1>4, <1>5 DEF Next, Own

\* The stored network is the chosen one, whole, whatever fails between the
\* requests of set_wifi_config (wpa2APP.c:174-272).
THEOREM StoredChosen == Spec => []StoredIsChosen
<1>1. Spec => []WifiInv
  BY WifiInitial, WifiPreserved, PTL DEF Spec
<1> QED BY <1>1, PTL DEF WifiInv

\* The check at boot of a network that was chosen finds a new device's only if
\* a new device's was chosen.
LEMMA CheckSetsUpNew ==
    ASSUME WifiInv, where = "check", where' = "setup", Next
    PROVE  chosen = NoNetwork \/ TakenForNew(chosen)
<1>1. Check
  BY DEF Next, Own, PowerOn, CheckOverruns, Reported, Ask, KeyFails, Answered, LookupFails,
         NtpFails, NtpAnswers, WildLookup, Work, Reboot, Talk, Order, OrderCrashes,
         PromptMissing, PowerCut, Down, Goes, Again, deviceVars
<1>2. LooksNew(stored)
  BY <1>1 DEF Check
<1> QED BY <1>2 DEF WifiInv, WifiTypeOK, Nets, StoredIsChosen, LooksNew, TakenForNew

\* A device that was set up is set up again only for the key, or with a
\* network that looks like a new device's (unidoliMainAPP.c:45).
THEOREM NoSecondSetUp == Spec => SetUpOnce
<1>1. WifiInv /\ [Next]_vars =>
        [where = "check" /\ where' = "setup"
          => chosen = NoNetwork \/ TakenForNew(chosen)]_vars
  BY CheckSetsUpNew
<1>2. Spec => []WifiInv
  BY WifiInitial, WifiPreserved, PTL DEF Spec
<1> QED BY <1>1, <1>2, PTL DEF Spec, SetUpOnce

-----------------------------------------------------------------------------
(* The audio device *)

\* What is enabled on the way out, unless something could not be ended.
AudioInv ==
    /\ stage \in Stages /\ media \subseteq {"sys", "ai", "ao"}
    /\ stage = "stop_ao" => "stop" \in trouble \/ "ai" \notin media
    /\ stage = "exit" => "stop" \in trouble \/ media \subseteq {"sys"}
    /\ AudioReleased

LEMMA AudioInitial == Init => AudioInv
  BY DEF Init, WifiInit, AudioInit, AudioInv, AudioReleased, Stages

LEMMA AudioApart ==
    ASSUME AudioInv, UNCHANGED audioVars PROVE AudioInv'
  BY DEF AudioInv, AudioReleased, audioVars

LEMMA AudioStepKeeps ==
    ASSUME AudioInv, AudioStep \/ Finish \/ StartListen \/ StartPrompt \/ Return
    PROVE  AudioInv'
<1>1. CASE SysInit
  BY <1>1 DEF SysInit, At, AudioInv, AudioReleased, Stages
<1>2. CASE SysInitFails
  BY <1>2 DEF SysInitFails, At, AudioInv, AudioReleased, Stages
<1>3. CASE Configure
  <2>1. Len(Enabled) = 2 /\ Enabled[1] = "ai" /\ Enabled[2] = "ao"
    BY DEF Enabled
  <2>2. \A k \in 1..2 : Enabled[k] \in {"ai", "ao"}
    BY <2>1
  <2>3. stage' = "run" /\ \E n \in 0..2 : media' = media \cup {Enabled[k] : k \in 1..n}
    BY <1>3, <2>1 DEF Configure, At
  <2>4. media' \subseteq {"sys", "ai", "ao"}
    <3>1. PICK n \in 0..2 : media' = media \cup {Enabled[k] : k \in 1..n}
      BY <2>3
    <3>2. {Enabled[k] : k \in 1..n} \subseteq {"ai", "ao"}
      BY <2>2
    <3> QED BY <3>1, <3>2 DEF AudioInv
  <2> QED BY <2>3, <2>4 DEF AudioInv, AudioReleased, Stages
<1>4. CASE ReadFails \/ Finish
  BY <1>4 DEF ReadFails, Finish, At, AudioInv, AudioReleased, Stages
<1>5. CASE StopAi
  BY <1>5 DEF StopAi, Disable, At, AudioInv, AudioReleased, Stages
<1>6. CASE StopAo
  BY <1>6 DEF StopAo, Disable, At, AudioInv, AudioReleased, Stages
<1>7. CASE Exit
  <2>1. stage = "exit" /\ stage' = "done" /\ media' = media \ {"sys"} /\ prompt' = prompt
    BY <1>7 DEF Exit, At
  <2>2. trouble \subseteq trouble'
    BY <1>7 DEF Exit
  <2>3. trouble' \cap {"sys", "stop"} = {} => media' = {}
    BY <2>1, <2>2 DEF AudioInv
  <2>4. prompt' /\ trouble' \cap {"sys", "gpio"} = {} => ~amplifier'
    BY <1>7 DEF Exit
  <2> QED BY <2>1, <2>3, <2>4 DEF AudioInv, AudioReleased, Stages
<1>8. CASE StartListen \/ StartPrompt \/ Return
  BY <1>8 DEF StartListen, StartPrompt, Return, At, AudioInv, AudioReleased, Stages
<1> QED BY <1>1, <1>2, <1>3, <1>4, <1>5, <1>6, <1>7, <1>8 DEF AudioStep

LEMMA AudioPreserved ==
    ASSUME AudioInv, [Next]_vars PROVE AudioInv'
<1>1. CASE UNCHANGED vars
  BY <1>1, AudioApart DEF vars
<1>2. CASE PowerOn \/ CheckOverruns \/ Reported \/ Ask \/ KeyFails \/ LookupFails \/ NtpFails
           \/ NtpAnswers \/ WildLookup \/ Talk \/ Order \/ OrderCrashes \/ PromptMissing
           \/ Check \/ Answered
  <2>1. UNCHANGED audioVars
    BY <1>2 DEF PowerOn, CheckOverruns, Reported, Ask, KeyFails, LookupFails, NtpFails,
        NtpAnswers, WildLookup, Talk, Order, OrderCrashes, PromptMissing, Check, Answered, Apart
  <2> QED BY <2>1, AudioApart
<1>3. CASE Work
  <2>1. CASE Serve \/ ServiceStep \/ PromptReturns \/ ListenReturns
    BY <2>1, AudioStepKeeps DEF Serve, ServiceStep, PromptReturns, ListenReturns
  <2>2. CASE Hear \/ Request \/ RequestFails \/ SetReturns
    <3>1. UNCHANGED audioVars
      BY <2>2 DEF Hear, Request, RequestFails, SetReturns
    <3> QED BY <3>1, AudioApart
  <2> QED BY <1>3, <2>1, <2>2 DEF Work, WifiStep
<1>4. CASE Reboot \/ PowerCut
  BY <1>4 DEF Reboot, PowerCut, Down, WifiDown, AudioInv, AudioReleased, Stages
<1> QED BY <1>1, <1>2, <1>3, <1>4 DEF Next, Own

\* A service that could begin and end its work leaves nothing enabled, and
\* after a prompt not the amplifier (wpa2APP.c:58-172).
THEOREM Released == Spec => []AudioReleased
<1>1. Spec => []AudioInv
  BY AudioInitial, AudioPreserved, PTL DEF Spec
<1> QED BY <1>1, PTL DEF AudioInv
=============================================================================
