---------------------------- MODULE HistoryProofs ----------------------------
(***************************************************************************)
(* The ring of decode/history.rs holds the window and implements           *)
(* HistoryWindow, for every ring size, reserve and byte alphabet.          *)
(***************************************************************************)
EXTENDS History, SequenceTheorems, TLAPS

(* Masking a position that has run at most one ring past the end. *)
LEMMA MaskSmall ==
  ASSUME NEW n \in Nat, n < RingSize
  PROVE  Mask(n) = n
  BY SizeAssumption DEF Mask

LEMMA MaskWrap ==
  ASSUME NEW n \in Nat, RingSize <= n, n < 2 * RingSize
  PROVE  Mask(n) = n - RingSize
  BY SizeAssumption DEF Mask

(* A new history satisfies the invariant. *)
LEMMA InitIInv == Init => IInv
<1> SUFFICES ASSUME Init PROVE IInv
  OBVIOUS
<1> USE SizeAssumption, ByteAssumption DEF Init, Slots, WindowSize, Least, Call, NoRequest
<1>1. TypeOK
  BY DEF TypeOK
<1>2. RingHoldsWindow
  BY DEF RingHoldsWindow, Stored, Holds, SlotOf
<1>3. ReachIsExact /\ ContextBytes /\ FilledRepeats /\ CallInProgress
  BY DEF ReachIsExact, ContextBytes, FilledRepeats, CallInProgress, Stored
<1>4. QED
  BY <1>1, <1>2, <1>3 DEF IInv

(* Arithmetic of the remainder. *)
LEMMA ModUnique ==
  ASSUME NEW d \in Nat \ {0}, NEW q \in Int, NEW r \in 0..(d - 1), NEW x \in Int, x = q * d + r
  PROVE  x % d = r
OBVIOUS

LEMMA DivModId ==
  ASSUME NEW d \in Nat \ {0}, NEW x \in Nat
  PROVE  x = (x \div d) * d + (x % d)
OBVIOUS

LEMMA DivMod ==
  ASSUME NEW d \in Nat \ {0}, NEW x \in Nat
  PROVE  \E q \in Int, r \in 0..(d - 1) : x = q * d + r /\ x % d = r
<1>1. x \div d \in Int
  OBVIOUS
<1>2. x % d \in 0..(d - 1)
  OBVIOUS
<1>3. x = (x \div d) * d + (x % d)
  BY DivModId
<1>4. QED
  BY <1>1, <1>2, <1>3

LEMMA ModMinus ==
  ASSUME NEW d \in Nat \ {0}, NEW x \in Nat, NEW l \in Nat, l % d = 0, x >= l
  PROVE  (x - l) % d = x % d
<1>1. PICK q \in Int, r \in 0..(d - 1) : x = q * d + r /\ x % d = r
  BY DivMod
<1>2. PICK p \in Int, z \in 0..(d - 1) : l = p * d + z /\ l % d = z
  BY DivMod
<1>3. q - p \in Int /\ x - l \in Int /\ x - l = (q - p) * d + r
  BY <1>1, <1>2
<1>4. (x - l) % d = r
  BY <1>3, ModUnique
<1>5. QED
  BY <1>1, <1>4

LEMMA ModPlus ==
  ASSUME NEW d \in Nat \ {0}, NEW x \in Nat, NEW l \in Nat, l % d = 0, x % d = 0
  PROVE  (x + l) % d = 0
<1>1. (x + l) - l = x /\ x + l \in Nat /\ x + l >= l
  OBVIOUS
<1>2. ((x + l) - l) % d = (x + l) % d
  BY <1>1, ModMinus
<1>3. QED
  BY <1>1, <1>2

(* A contiguous run of bytes is stored at the write position, whether it    *)
(* grows the vector or overwrites the oldest bytes: buf, s, n and w become  *)
(* buf2, t, m and w2.                                                       *)
StoresRun(buf, buf2, s, t, n, m, w, w2) ==
  /\ n \in Nat /\ m \in Nat /\ w \in Slots
  /\ n <= m /\ w + (m - n) <= RingSize
  /\ w2 = IF w + (m - n) = RingSize THEN 0 ELSE w + (m - n)
  /\ n < RingSize => w = n
  /\ Holds(buf, n, w, s)
  /\ \A j \in 1..n : t[j] = s[j]
  /\ \A i \in Slots : buf2[i] = IF w <= i /\ i < w + (m - n) THEN t[n + i - w + 1]
                                                            ELSE buf[i]

(* Such a run moves the window forward from the first n to the first m bytes. *)
LEMMA StoreRun ==
  ASSUME NEW buf, NEW buf2, NEW s, NEW t, NEW n, NEW m, NEW w, NEW w2,
         StoresRun(buf, buf2, s, t, n, m, w, w2)
  PROVE  Holds(buf2, m, w2, t)
<1> USE StoresRun(buf, buf2, s, t, n, m, w, w2) DEF StoresRun
<1> USE SizeAssumption DEF Slots
<1> SUFFICES ASSUME NEW j \in 1..m, j + RingSize > m
             PROVE  buf2[SlotOf(j, m, w2)] = t[j]
  BY DEF Holds
<1>1. CASE j > n
  <2>1. SlotOf(j, m, w2) = w + (j - n) - 1
    BY <1>1 DEF SlotOf
  <2>2. /\ w + (j - n) - 1 \in Slots /\ w <= w + (j - n) - 1
        /\ w + (j - n) - 1 < w + (m - n) /\ n + (w + (j - n) - 1) - w + 1 = j
    BY <1>1
  <2>3. QED
    BY <2>1, <2>2
<1>2. CASE j <= n
  <2>1. j \in 1..n /\ j + RingSize > n /\ buf[SlotOf(j, n, w)] = s[j]
    BY <1>2 DEF Holds
  <2>2. SlotOf(j, m, w2) = SlotOf(j, n, w)
    BY <1>2 DEF SlotOf
  <2>3. /\ SlotOf(j, n, w) \in Slots
        /\ ~ (w <= SlotOf(j, n, w) /\ SlotOf(j, n, w) < w + (m - n))
    BY <1>2 DEF SlotOf
  <2>4. QED
    BY <2>1, <2>2, <2>3
<1>3. QED
  BY <1>1, <1>2

(* The facts about the state that nearly every step needs. *)
LEMMA Facts ==
  ASSUME IInv
  PROVE  /\ TypeOK /\ RingHoldsWindow /\ ReachIsExact /\ ContextBytes
         /\ FilledRepeats /\ CallInProgress
         /\ Len(out) \in Nat /\ Len(rest) \in Nat /\ Stored \in Nat
         /\ Stored = Len(out) - Len(rest)
         /\ len = IF Stored <= RingSize THEN Stored ELSE RingSize
         /\ (Stored < RingSize => write = Stored)
         /\ len \in 0..RingSize /\ write \in Slots
         /\ Holds(buffer, Stored, write, out)
BY SizeAssumption
   DEF IInv, TypeOK, RingHoldsWindow, CallInProgress, Stored, Least

(* Appending a slice to a sequence appends its length and moves no element. *)
LEMMA Concat ==
  ASSUME NEW S, NEW s \in Seq(S), NEW t \in Seq(S)
  PROVE  /\ s \o t \in Seq(S)
         /\ Len(s \o t) = Len(s) + Len(t)
         /\ \A i \in 1..Len(s) : (s \o t)[i] = s[i]
         /\ \A i \in (Len(s) + 1)..(Len(s) + Len(t)) : (s \o t)[i] = t[i - Len(s)]
OBVIOUS

(* The last two elements of a sequence, where it has them, are elements. *)
LEMMA LastTwo ==
  ASSUME NEW S, NEW s \in Seq(S), s # <<>>
  PROVE  /\ Len(s) \in Nat \ {0}
         /\ s[Len(s)] \in S
         /\ Len(s) # 1 => s[Len(s) - 1] \in S
<1> DEFINE n == Len(s)
<1>1. n \in Nat /\ n # 0
  BY EmptySeq
<1>2. \A i \in 1..Len(s) : s[i] \in S
  OBVIOUS
<1>3. n \in 1..n /\ (n # 1 => n - 1 \in 1..n)
  <2> HIDE DEF n
  <2>1. QED
    BY <1>1
<1>4. s[Len(s)] \in S
  BY <1>2, <1>3
<1>5. Len(s) # 1 => s[Len(s) - 1] \in S
  BY <1>2, <1>3
<1>6. QED
  BY <1>1, <1>4, <1>5

(* push stores its byte in the one slot that leaves the window. *)
LEMMA PushIInv ==
  ASSUME IInv, NEW b \in Byte, Push(b)
  PROVE  IInv'
<1>f. /\ TypeOK /\ RingHoldsWindow /\ ReachIsExact /\ ContextBytes
      /\ CallInProgress /\ Len(out) \in Nat
      /\ len = (IF Stored <= RingSize THEN Stored ELSE RingSize)
      /\ (Stored < RingSize => write = Stored)
      /\ len \in 0..RingSize /\ write \in Slots
      /\ Holds(buffer, Stored, write, out)
  BY Facts
<1>n. Len(out) \in Nat
  BY Facts
<1>r. /\ pc = "idle" /\ pc' = "idle" /\ rest = <<>> /\ rest' = <<>>
      /\ output' = output /\ request' = request
  BY <1>f DEF CallInProgress, Push, locals
<1>e. Len(rest) = 0 /\ Len(rest') = 0 /\ Stored = Len(out)
  BY <1>n, <1>r DEF Stored
<1>l. Len(out') = Len(out) + 1
  BY <1>f DEF TypeOK, Push
<1>o. /\ out' \in Seq(Byte) /\ Len(out') = Len(out) + 1
      /\ out'[Len(out) + 1] = b
      /\ \A j \in 1..Len(out) : out'[j] = out[j]
  BY <1>f DEF TypeOK, Push
<1>s. Stored' = Stored + 1
  BY <1>n, <1>e, <1>l DEF Stored
<1>w. /\ buffer' = [buffer EXCEPT ![write] = b]
      /\ write' = IF write + 1 = RingSize THEN 0 ELSE write + 1
      /\ len' = IF len < RingSize THEN len + 1 ELSE len
      /\ write' \in Slots
  <2>1. CASE len < RingSize
    <3>1. write = len /\ len + 1 <= RingSize
      BY <1>f, <2>1, SizeAssumption
    <3>2. QED
      BY <1>f, <2>1, <3>1, SizeAssumption, MaskSmall, MaskWrap DEF Push, Slots
  <2>2. CASE len = RingSize
    BY <1>f, <2>2, SizeAssumption, MaskSmall, MaskWrap DEF Push, Slots
  <2>3. QED
    BY <1>f, <2>1, <2>2, SizeAssumption
<1>1. TypeOK'
  BY <1>f, <1>r, <1>o, <1>w, SizeAssumption DEF TypeOK, Push, Call, Slots, Reachable, Least, WindowSize
<1>2. RingHoldsWindow'
  <2> DEFINE n == Stored
  <2> DEFINE m == Stored'
  <2>1. /\ n \in Nat /\ m \in Nat /\ m = n + 1 /\ RingSize \in Nat
        /\ write \in 0..(RingSize - 1) /\ out'[n + 1] = b
        /\ write' = (IF write + 1 = RingSize THEN 0 ELSE write + 1)
        /\ \A i \in 0..(RingSize - 1) : buffer'[i] = IF i = write THEN b ELSE buffer[i]
    BY <1>f, <1>n, <1>e, <1>o, <1>s, <1>w, SizeAssumption DEF Slots, TypeOK
  <2> HIDE DEF n, m
  <2>2. /\ n <= m /\ m - n = 1 /\ write + (m - n) <= RingSize
        /\ write' = IF write + (m - n) = RingSize THEN 0 ELSE write + (m - n)
    BY <2>1
  <2>3. ASSUME NEW i \in Slots
        PROVE  buffer'[i] = IF write <= i /\ i < write + (m - n)
                              THEN out'[n + i - write + 1] ELSE buffer[i]
    <3>1. i \in 0..(RingSize - 1)
      BY DEF Slots
    <3>2. i = write => n + i - write + 1 = n + 1
      BY <2>1
    <3>3. i = write <=> write <= i /\ i < write + (m - n)
      BY <2>1, <3>1
    <3>4. QED
      BY <2>1, <3>1, <3>2, <3>3
  <2>4. Holds(buffer, n, write, out) /\ (n < RingSize => write = n)
        /\ \A j \in 1..n : out'[j] = out[j]
    BY <1>f, <1>e, <1>o DEF n
  <2>5. Holds(buffer', m, write', out')
    <3>1. StoresRun(buffer, buffer', out, out', n, m, write, write')
      BY <1>f, <1>w, <2>1, <2>2, <2>3, <2>4 DEF StoresRun
    <3>2. QED
      BY <3>1, StoreRun
  <2>6. QED
    BY <1>f, <1>r, <1>s, <1>w, <2>5, SizeAssumption DEF m, RingHoldsWindow, Slots, Least
<1>3. ReachIsExact'
  BY <1>f, <1>r, <1>o, <1>w, SizeAssumption DEF ReachIsExact, Push, Reachable, Least, WindowSize
<1>4. ContextBytes'
  BY <1>f, <1>o DEF ContextBytes, Push
<1>5. FilledRepeats' /\ CallInProgress'
  BY <1>r, <1>o, <1>f DEF FilledRepeats, CallInProgress
<1>6. QED
  BY <1>1, <1>2, <1>3, <1>4, <1>5 DEF IInv

(* The fields push_slice sets before it stores a byte. *)
LEMMA BeginPushIInv ==
  ASSUME IInv, NEW bytes \in Seq(Byte), bytes # <<>>, BeginPush(bytes),
         pc \in {"idle", "double"}, output' = output, request' = request,
         last' \in [op : {"none", "push", "copy", "error"}, distance : Nat, count : Nat]
  PROVE  IInv'
<1>f. /\ TypeOK /\ RingHoldsWindow /\ ReachIsExact /\ ContextBytes
      /\ CallInProgress /\ Len(out) \in Nat /\ Stored \in Nat
      /\ Stored = Len(out) - Len(rest) /\ out \in Seq(Byte)
  BY Facts DEF TypeOK
<1>n. Len(out) \in Nat /\ Stored \in Nat
  BY Facts
<1>b. /\ Len(bytes) \in Nat \ {0} /\ bytes[Len(bytes)] \in Byte
      /\ Len(bytes) # 1 => bytes[Len(bytes) - 1] \in Byte
  BY LastTwo
<1>r. rest = <<>> /\ rest' = bytes /\ pc' = "grow" /\ Stored = Len(out)
  BY <1>f DEF CallInProgress, BeginPush
<1>u. buffer' = buffer /\ len' = len /\ write' = write
  BY DEF BeginPush
<1>o. /\ out' \in Seq(Byte) /\ Len(out') = Len(out) + Len(bytes)
      /\ \A i \in 1..Len(out) : out'[i] = out[i]
      /\ \A i \in (Len(out) + 1)..Len(out') : out'[i] = bytes[i - Len(out)]
  BY <1>f, Concat DEF BeginPush
<1>s. Stored' = Stored
  BY <1>f, <1>b, <1>r, <1>o DEF Stored
<1>1. TypeOK'
  <2>1. previous' \in Byte /\ second' \in Byte
    BY <1>b, <1>f DEF TypeOK, UpdatePrevious, BeginPush
  <2>2. available' \in 0..WindowSize
    BY <1>b, <1>f, SizeAssumption DEF TypeOK, BeginPush, Reachable, Least, WindowSize
  <2>3. QED
    BY <1>f, <1>r, <1>u, <1>o, <2>1, <2>2 DEF TypeOK
<1>2. RingHoldsWindow'
  <2>1. Holds(buffer', Stored', write', out')
    BY <1>f, <1>r, <1>u, <1>s, <1>o DEF RingHoldsWindow, Holds
  <2>2. QED
    BY <1>f, <1>u, <1>s, <2>1 DEF RingHoldsWindow
<1>3. ReachIsExact'
  BY <1>f, <1>b, <1>r, <1>o, SizeAssumption
  DEF ReachIsExact, BeginPush, Reachable, Least, WindowSize
<1>4. ContextBytes'
  <2>1. /\ Len(out') \in (Len(out) + 1)..Len(out') /\ Len(out') - Len(out) = Len(bytes)
        /\ out'[Len(out')] = bytes[Len(bytes)]
    BY <1>b, <1>o, <1>n
  <2>2. CASE Len(bytes) = 1
    BY <1>f, <1>b, <1>o, <2>1, <2>2 DEF ContextBytes, BeginPush, UpdatePrevious
  <2>3. CASE Len(bytes) # 1
    <3> DEFINE n == Len(out)
    <3> DEFINE m == Len(bytes)
    <3> DEFINE k == Len(out')
    <3>a. n \in Nat /\ m \in Nat \ {0} /\ m # 1 /\ k = n + m
      BY <1>b, <1>o, <1>n, <2>3
    <3> HIDE DEF n, m, k
    <3>b. k - 1 \in (n + 1)..k /\ (k - 1) - n = m - 1
      BY <3>a
    <3>1. /\ Len(out') - 1 \in (Len(out) + 1)..Len(out')
          /\ (Len(out') - 1) - Len(out) = Len(bytes) - 1
      BY <3>b DEF n, m, k
    <3>2. out'[Len(out') - 1] = bytes[(Len(out') - 1) - Len(out)]
      BY <1>o, <3>1
    <3>3. out'[Len(out') - 1] = bytes[Len(bytes) - 1]
      BY <3>1, <3>2
    <3>4. QED
      BY <1>n, <1>b, <1>o, <2>1, <2>3, <3>3 DEF ContextBytes, BeginPush, UpdatePrevious
  <2>4. QED
    BY <2>2, <2>3
<1>5. FilledRepeats'
  BY <1>r DEF FilledRepeats
<1>6. CallInProgress'
  <2>1. Len(rest') <= Len(out')
    BY <1>n, <1>b, <1>r, <1>o
  <2>2. ASSUME NEW i \in 1..Len(rest') PROVE rest'[i] = out'[Stored' + i]
    <3>1. Stored' + i \in (Len(out) + 1)..Len(out') /\ Stored' + i - Len(out) = i
      BY <1>n, <1>b, <1>r, <1>o, <1>s
    <3>2. QED
      BY SMTT(30), <1>n, <1>b, <1>o, <1>r, <1>s, <3>1
  <2>3. QED
    BY <1>r, <2>1, <2>2 DEF CallInProgress
<1>7. QED
  BY <1>1, <1>2, <1>3, <1>4, <1>5, <1>6 DEF IInv

(* push_slice stores the first k of the remaining bytes in one run. *)
LEMMA StoreRest ==
  ASSUME IInv, NEW k \in 0..Len(rest), write + k <= RingSize,
         buffer' = [s \in Slots |-> IF s \in write..(write + k - 1)
                                      THEN rest[s - write + 1] ELSE buffer[s]],
         write' = Mask(write + k),
         rest' = SubSeq(rest, k + 1, Len(rest)),
         out' = out
  PROVE  /\ Holds(buffer', Stored', write', out')
         /\ Stored \in Nat /\ Stored' = Stored + k
         /\ buffer' \in [Slots -> Byte \cup {Unset}]
         /\ write' = (IF write + k = RingSize THEN 0 ELSE write + k)
         /\ write' \in Slots
         /\ rest' \in Seq(Byte) /\ Len(rest') = Len(rest) - k
         /\ \A i \in 1..Len(rest') : rest'[i] = out'[Stored' + i]
<1>f. /\ TypeOK /\ Len(out) \in Nat /\ Len(rest) \in Nat /\ Stored \in Nat
      /\ Stored = Len(out) - Len(rest)
      /\ (Stored < RingSize => write = Stored) /\ write \in Slots
      /\ Holds(buffer, Stored, write, out)
  BY Facts
<1>c. /\ Len(rest) <= Len(out)
      /\ \A i \in 1..Len(rest) : rest[i] = out[Stored + i]
  BY Facts DEF CallInProgress
<1>b. /\ rest \in Seq(Byte) /\ buffer \in [Slots -> Byte \cup {Unset}]
      /\ \A i \in 1..Len(rest) : rest[i] \in Byte
  BY <1>f DEF TypeOK
<1> DEFINE l == Len(rest)
<1> DEFINE n == Stored
<1>r. /\ rest' \in Seq(Byte) /\ Len(rest') = l - k
      /\ \A i \in 1..(l - k) : rest'[i] = rest[i + k]
  <2> HIDE DEF l
  <2>1. k + 1 \in Int /\ l \in Int /\ k \in 0..l
    BY <1>f DEF l
  <2>2. \A i \in (k + 1)..l : rest[i] \in Byte
    BY <1>b, <2>1 DEF l
  <2>3. rest' = SubSeq(rest, k + 1, l)
    BY DEF l
  <2>4. /\ rest' \in Seq(Byte)
        /\ Len(rest') = (IF k + 1 <= l THEN l - (k + 1) + 1 ELSE 0)
        /\ \A i \in 1..(l - (k + 1) + 1) : rest'[i] = rest[(k + 1) + i - 1]
    BY <2>1, <2>2, <2>3, SubSeqProperties
  <2>5. l - (k + 1) + 1 = l - k /\ \A i \in 1..(l - k) : (k + 1) + i - 1 = i + k
    BY <2>1
  <2>6. QED
    BY <2>1, <2>4, <2>5
<1>s. Stored' = n + k
  <2>1. Stored' = Len(out) - (l - k)
    BY <1>r DEF Stored
  <2> HIDE DEF l, n
  <2>2. n = Len(out) - l /\ l \in Nat /\ Len(out) \in Nat
    BY <1>f DEF l, n
  <2>3. QED
    BY <2>1, <2>2
<1>w. write' = (IF write + k = RingSize THEN 0 ELSE write + k) /\ write' \in Slots
  BY <1>f, SizeAssumption, MaskSmall, MaskWrap DEF Slots
<1>t. buffer' \in [Slots -> Byte \cup {Unset}]
  <2>1. ASSUME NEW s \in Slots, s \in write..(write + k - 1)
        PROVE  s - write + 1 \in 1..Len(rest)
    BY <1>f, <2>1, SizeAssumption DEF Slots
  <2>2. QED
    BY <1>b, <2>1
<1>h. Holds(buffer', n + k, write', out')
  <2>1. /\ n \in Nat /\ k \in Nat /\ l \in Nat /\ k <= l /\ n + k \in Nat
        /\ write \in Slots /\ write \in Nat /\ RingSize \in Nat
    BY <1>f, SizeAssumption DEF Slots
  <2> HIDE DEF l, n
  <2>2. n <= n + k /\ (n + k) - n = k
    BY <2>1
  <2>3. ASSUME NEW i \in Slots
        PROVE  buffer'[i] = IF write <= i /\ i < write + k THEN out'[n + i - write + 1]
                                                           ELSE buffer[i]
    <3>1. i \in Nat /\ (i \in write..(write + k - 1) <=> write <= i /\ i < write + k)
      BY <2>1, SizeAssumption DEF Slots
    <3>2. CASE write <= i /\ i < write + k
      <4>1. i - write + 1 \in 1..l /\ n + (i - write + 1) = n + i - write + 1
        BY <2>1, <3>1, <3>2
      <4>2. rest[i - write + 1] = out[n + (i - write + 1)]
        BY <1>c, <4>1 DEF l, n
      <4>3. QED
        BY <3>1, <3>2, <4>1, <4>2
    <3>3. CASE ~ (write <= i /\ i < write + k)
      BY <3>1, <3>3
    <3>4. QED
      BY <3>2, <3>3
  <2>4. /\ n < RingSize => write = n
        /\ Holds(buffer, n, write, out)
        /\ \A j \in 1..n : out'[j] = out[j]
    BY <1>f DEF n
  <2>5. StoresRun(buffer, buffer', out, out', n, n + k, write, write')
    BY <1>w, <2>1, <2>2, <2>3, <2>4 DEF StoresRun
  <2>6. QED
    BY <2>5, StoreRun
<1>i. ASSUME NEW i \in 1..Len(rest') PROVE rest'[i] = out'[Stored' + i]
  <2>1. i + k \in 1..l /\ n + (i + k) = n + k + i /\ i \in 1..(l - k)
    BY SMTT(30), <1>f, <1>r
  <2>2. rest'[i] = out[n + (i + k)]
    BY <1>c, <1>r, <2>1
  <2>3. QED
    BY <1>s, <2>1, <2>2
<1>q. QED
  BY <1>f, <1>r, <1>s, <1>w, <1>t, <1>h, <1>i

(* The fields that storing a byte of a slice leaves alone. *)
LEMMA Unmoved ==
  ASSUME IInv, UNCHANGED <<available, previous, second, output, request, out, last>>
  PROVE  /\ ContextBytes'
         /\ available' = Least(Len(out'), WindowSize) /\ available' \in 0..WindowSize
         /\ previous' \in Byte /\ second' \in Byte /\ output' \in Seq(Byte)
         /\ out' \in Seq(Byte) /\ request' \in [distance : Nat, count : Nat]
         /\ last' \in [op : {"none", "push", "copy", "error"}, distance : Nat, count : Nat]
BY DEF IInv, TypeOK, ContextBytes, ReachIsExact

(* The turn of push_slice that appends to a buffer not yet full. *)
LEMMA GrowIInv ==
  ASSUME IInv, Grow
  PROVE  IInv'
<1> DEFINE k == Growth
<1>f. /\ TypeOK /\ RingHoldsWindow /\ CallInProgress
      /\ Len(rest) \in Nat /\ Stored \in Nat /\ Len(out) \in Nat
      /\ len = (IF Stored <= RingSize THEN Stored ELSE RingSize)
      /\ (Stored < RingSize => write = Stored) /\ len \in 0..RingSize
  BY Facts
<1>p. pc' = "wrap" /\ UNCHANGED <<available, previous, second, output, request, out, last>>
  BY DEF Grow
<1>u. /\ ContextBytes' /\ available' = Least(Len(out'), WindowSize)
      /\ available' \in 0..WindowSize /\ previous' \in Byte /\ second' \in Byte
      /\ output' \in Seq(Byte) /\ out' \in Seq(Byte)
      /\ request' \in [distance : Nat, count : Nat]
      /\ last' \in [op : {"none", "push", "copy", "error"}, distance : Nat, count : Nat]
  BY <1>p, Unmoved
<1>g. /\ ReachIsExact' /\ FilledRepeats'
  BY <1>p, <1>u DEF ReachIsExact, FilledRepeats
<1>1. CASE len < RingSize
  <2> DEFINE l == Len(rest)
  <2>a. write = len /\ l \in Nat
    BY <1>f, <1>1
  <2>b. k = IF l <= RingSize - len THEN l ELSE RingSize - len
    BY DEF Least, Growth
  <2>1. /\ k \in 0..Len(rest) /\ write = len /\ write + k <= RingSize
        /\ (k < Len(rest) => len + k = RingSize) /\ len + k \in 0..RingSize
    <3> HIDE DEF k, l
    <3>1. /\ k \in 0..l /\ write + k <= RingSize
          /\ (k < l => len + k = RingSize) /\ len + k \in 0..RingSize
      BY <1>f, <1>1, <2>a, <2>b, SizeAssumption
    <3>2. QED
      BY <2>a, <3>1 DEF l
  <2>2. /\ buffer' = [s \in Slots |-> IF s \in write..(write + k - 1)
                                        THEN rest[s - write + 1] ELSE buffer[s]]
        /\ write' = Mask(write + k) /\ rest' = SubSeq(rest, k + 1, Len(rest))
        /\ len' = len + k /\ out' = out
    BY <1>1, <2>1 DEF Grow, StoreFrom
  <2> HIDE DEF k
  <2>3. /\ Holds(buffer', Stored', write', out')
        /\ Stored' = Stored + k
        /\ buffer' \in [Slots -> Byte \cup {Unset}]
        /\ write' = (IF write + k = RingSize THEN 0 ELSE write + k)
        /\ write' \in Slots
        /\ rest' \in Seq(Byte) /\ Len(rest') = Len(rest) - k
        /\ \A i \in 1..Len(rest') : rest'[i] = out'[Stored' + i]
    BY <2>1, <2>2, StoreRest
  <2>4. TypeOK'
    BY <1>p, <1>u, <2>1, <2>2, <2>3 DEF TypeOK
  <2>5. RingHoldsWindow'
    BY <1>f, <1>1, <2>1, <2>2, <2>3, SizeAssumption DEF RingHoldsWindow, Least
  <2>6. CallInProgress'
    <3>1. Len(rest') <= Len(out')
      BY <1>f, <2>1, <2>2, <2>3 DEF CallInProgress
    <3>2. rest' # <<>> => Len(rest') # 0
      BY <2>3, EmptySeq
    <3>3. rest' # <<>> => len' = RingSize
      BY <1>f, <2>1, <2>2, <2>3, <3>2
    <3>4. QED
      BY <1>p, <2>3, <3>1, <3>3 DEF CallInProgress
  <2>7. QED
    BY <1>u, <1>g, <2>4, <2>5, <2>6 DEF IInv
<1>2. CASE len = RingSize
  <2>1. UNCHANGED <<buffer, len, write, rest>>
    BY <1>2, SizeAssumption DEF Grow
  <2>2. TypeOK'
    BY <1>f, <1>p, <2>1 DEF TypeOK
  <2>3. Stored' = Stored
    BY <1>p, <2>1 DEF Stored
  <2>4. RingHoldsWindow'
    BY <1>f, <1>p, <2>1, <2>3 DEF RingHoldsWindow
  <2>5. CallInProgress'
    BY <1>f, <1>p, <1>2, <2>1, <2>3 DEF CallInProgress
  <2>6. QED
    BY <1>u, <1>g, <2>2, <2>4, <2>5 DEF IInv
<1>3. QED
  BY <1>f, <1>1, <1>2, SizeAssumption

(* A turn of push_slice's loop over the full ring. *)
LEMMA WrapIInv ==
  ASSUME IInv, Wrap
  PROVE  IInv'
<1> DEFINE k == Contiguous
<1>f. /\ TypeOK /\ RingHoldsWindow /\ CallInProgress
      /\ Len(rest) \in Nat /\ Stored \in Nat /\ Len(out) \in Nat
      /\ len = (IF Stored <= RingSize THEN Stored ELSE RingSize)
      /\ write \in Slots
  BY Facts
<1>p. /\ pc' = "wrap" /\ len' = len /\ len = RingSize
      /\ UNCHANGED <<available, previous, second, output, request, out, last>>
  BY <1>f DEF Wrap, CallInProgress
<1>u. /\ ContextBytes' /\ available' = Least(Len(out'), WindowSize)
      /\ available' \in 0..WindowSize /\ previous' \in Byte /\ second' \in Byte
      /\ output' \in Seq(Byte) /\ out' \in Seq(Byte)
      /\ request' \in [distance : Nat, count : Nat]
      /\ last' \in [op : {"none", "push", "copy", "error"}, distance : Nat, count : Nat]
  BY <1>p, Unmoved
<1>g. /\ ReachIsExact' /\ FilledRepeats'
  BY <1>p, <1>u DEF ReachIsExact, FilledRepeats
<1>1. k \in 0..Len(rest) /\ write + k <= RingSize
  BY <1>f, SizeAssumption DEF Contiguous, Least, Slots
<1>2. /\ buffer' = [s \in Slots |-> IF s \in write..(write + k - 1)
                                      THEN rest[s - write + 1] ELSE buffer[s]]
      /\ write' = Mask(write + k) /\ rest' = SubSeq(rest, k + 1, Len(rest))
      /\ out' = out
  BY DEF Wrap, StoreFrom
<1> HIDE DEF k
<1>3. /\ Holds(buffer', Stored', write', out')
      /\ Stored' = Stored + k
      /\ buffer' \in [Slots -> Byte \cup {Unset}]
      /\ write' \in Slots
      /\ rest' \in Seq(Byte) /\ Len(rest') = Len(rest) - k
      /\ \A i \in 1..Len(rest') : rest'[i] = out'[Stored' + i]
  BY <1>1, <1>2, StoreRest
<1>4. TypeOK'
  BY <1>f, <1>p, <1>u, <1>3 DEF TypeOK
<1>5. RingHoldsWindow'
  BY <1>f, <1>p, <1>1, <1>3, SizeAssumption DEF RingHoldsWindow, Least
<1>6. CallInProgress'
  <2>1. Len(rest') <= Len(out')
    BY <1>f, <1>1, <1>2, <1>3 DEF CallInProgress
  <2>2. QED
    BY <1>p, <1>3, <2>1 DEF CallInProgress
<1>7. QED
  BY <1>u, <1>g, <1>4, <1>5, <1>6 DEF IInv

(* push_slice, called with any slice, preserves the invariant. *)
LEMMA PushSliceIInv ==
  ASSUME IInv, NEW bytes \in Slices, PushSlice(bytes)
  PROVE  IInv'
<1>1. bytes \in Seq(Byte)
  BY BoundAssumption DEF Slices
<1>2. Len(bytes) \in Nat
  BY <1>1
<1>3. QED
  BY <1>1, <1>2, BeginPushIInv DEF PushSlice, Call

(* push_slice returns when no byte is left to store. *)
LEMMA EndPushIInv ==
  ASSUME IInv, EndPush
  PROVE  IInv'
<1>1. /\ pc' = "idle" /\ rest = <<>> /\ rest' = rest /\ output' = <<>>
      /\ request' = NoRequest /\ UNCHANGED <<buffer, len, write, available, previous,
                                            second, out, last>>
  BY DEF EndPush, fields
<1>2. Stored' = Stored /\ Stored = Len(out) /\ Len(out) \in Nat
  <2>1. Len(rest) = 0 /\ Len(out) \in Nat
    BY <1>1, Facts, EmptySeq
  <2>2. QED
    BY <1>1, <2>1 DEF Stored
<1>3. TypeOK'
  BY <1>1 DEF IInv, TypeOK, NoRequest
<1>4. RingHoldsWindow' /\ ContextBytes' /\ FilledRepeats' /\ CallInProgress'
  BY <1>1, <1>2 DEF IInv, RingHoldsWindow, ContextBytes, FilledRepeats, CallInProgress
<1>5. ReachIsExact'
  <2>1. len = (IF Len(out) <= RingSize THEN Len(out) ELSE RingSize)
        /\ available = Least(Len(out), WindowSize)
    BY <1>2, Facts DEF ReachIsExact
  <2>2. available <= len
    BY <1>2, <2>1, SizeAssumption DEF Least, WindowSize
  <2>3. QED
    BY <1>1, <2>1, <2>2 DEF ReachIsExact
<1>6. QED
  BY <1>3, <1>4, <1>5 DEF IInv

(* A copy refused for its distance changes nothing the invariant is about. *)
LEMMA RejectCopyIInv ==
  ASSUME IInv, NEW distance \in Nat, NEW count \in Nat, RejectCopy(distance, count)
  PROVE  IInv'
<1>1. /\ UNCHANGED <<fields, locals, out>>
      /\ last' \in [op : {"none", "push", "copy", "error"}, distance : Nat, count : Nat]
  BY DEF RejectCopy, Call
<1>2. QED
  BY <1>1 DEF IInv, fields, locals, TypeOK, RingHoldsWindow, ReachIsExact, ContextBytes,
              FilledRepeats, CallInProgress, Stored, MaxBackwardDistance

(* copy_history_prefix returns the bytes of the stream from distance back.  *)
LEMMA PrefixIsWindow ==
  ASSUME IInv, pc = "idle", NEW d \in 1..MaxBackwardDistance, NEW n \in 1..d
  PROVE  /\ HistoryPrefix(d, n) \in Seq(Byte)
         /\ Len(HistoryPrefix(d, n)) = n
         /\ \A i \in 1..n : HistoryPrefix(d, n)[i] = out[Len(out) - d + i]
<1> DEFINE s == Len(out)
<1>f. /\ s \in Nat /\ Stored = s /\ write \in Slots
      /\ len = (IF s <= RingSize THEN s ELSE RingSize)
      /\ (s < RingSize => write = s) /\ len \in 0..RingSize
      /\ Holds(buffer, s, write, out) /\ out \in Seq(Byte)
  <2>1. Len(rest) = 0 /\ Len(out) \in Nat
    BY Facts, EmptySeq DEF CallInProgress
  <2>2. Stored = s
    BY <2>1 DEF Stored
  <2>3. QED
    BY <2>2, Facts DEF TypeOK
<1>d. d \in Nat /\ n \in Nat /\ 1 <= n /\ n <= d /\ d <= len /\ d <= s /\ d <= RingSize
  <2>1. MaxBackwardDistance <= len /\ MaxBackwardDistance \in Nat
    BY Facts, SizeAssumption
    DEF MaxBackwardDistance, ReachIsExact, Least, WindowSize, TypeOK
  <2>2. QED
    BY <1>f, <2>1, SizeAssumption
<1>w. RingSize \in Nat /\ write \in 0..(RingSize - 1)
  BY <1>f, SizeAssumption DEF Slots
<1> HIDE DEF s
<1>h. ASSUME NEW i \in 1..n
      PROVE  /\ s - d + i \in 1..s
             /\ buffer[SlotOf(s - d + i, s, write)] = out[s - d + i]
  <2>1. s - d + i \in 1..s /\ (s - d + i) + RingSize > s
    BY <1>f, <1>d, <1>w
  <2>2. QED
    BY <1>f, <2>1 DEF Holds
<1>b. \A i \in 1..n : out[s - d + i] \in Byte
  BY <1>f, <1>h, ElementOfSeq DEF s
<1>i. ASSUME NEW i \in 1..n
      PROVE  HistoryPrefix(d, n)[i] = out[s - d + i]
  <2>1. CASE len < RingSize
    <3>1. write = s /\ len = s
      BY <1>f, <1>w, <2>1
    <3>2. SlotOf(s - d + i, s, write) = len - d + i - 1
      BY <1>f, <1>d, <3>1 DEF SlotOf
    <3>3. HistoryPrefix(d, n)[i] = buffer[len - d + i - 1]
      BY <2>1 DEF HistoryPrefix
    <3>4. QED
      BY <1>h, <3>2, <3>3
  <2>2. CASE len = RingSize
    <3> DEFINE start == Mask(write + RingSize - d)
    <3> DEFINE first == Least(n, RingSize - start)
    <3>1. start = IF d <= write THEN write - d ELSE write + RingSize - d
      BY <1>d, <1>w, MaskSmall, MaskWrap
    <3>2. HistoryPrefix(d, n)[i] = IF i <= first THEN buffer[start + i - 1]
                                                ELSE buffer[i - first - 1]
      BY <1>w, <2>2 DEF HistoryPrefix
    <3> HIDE DEF start
    <3>3. first = IF n <= RingSize - start THEN n ELSE RingSize - start
      BY DEF Least
    <3> HIDE DEF first
    <3>4. SlotOf(s - d + i, s, write) = IF i <= first THEN start + i - 1 ELSE i - first - 1
      BY <1>f, <1>d, <1>w, <3>1, <3>3 DEF SlotOf
    <3>5. QED
      BY <1>h, <3>2, <3>4
  <2>3. QED
    BY <1>f, <1>w, <2>1, <2>2
<1>l. /\ Len(HistoryPrefix(d, n)) = n
      /\ HistoryPrefix(d, n) \in Seq(Byte)
  <2>1. /\ DOMAIN HistoryPrefix(d, n) = 1..n
        /\ HistoryPrefix(d, n) = [i \in 1..n |-> HistoryPrefix(d, n)[i]]
    BY DEF HistoryPrefix
  <2>2. \A i \in 1..n : HistoryPrefix(d, n)[i] \in Byte
    BY <1>b, <1>i
  <2> DEFINE p == HistoryPrefix(d, n)
  <2> HIDE DEF p
  <2>3. p \in [1..n -> Byte]
    BY <2>1, <2>2 DEF p
  <2>4. p \in Seq(Byte) /\ Len(p) = n
    BY <1>d, <2>3
  <2>5. QED
    BY <2>4 DEF p
<1>q. QED
  BY <1>i, <1>l DEF s

(* copy_into, up to the prefix it takes from the ring. *)
LEMMA CopyIntoIInv ==
  ASSUME IInv, NEW distance \in Nat, NEW count \in Nat, NEW space \in Nat,
         CopyInto(distance, count, space)
  PROVE  IInv'
<1> DEFINE produced == Least(count, space)
<1>1. /\ pc = "idle" /\ distance \in 1..MaxBackwardDistance /\ produced \in Nat
      /\ UNCHANGED <<fields, out>>
  <2>1. MaxBackwardDistance \in Nat
    BY Facts, SizeAssumption DEF TypeOK, MaxBackwardDistance, Least, WindowSize
  <2>2. QED
    BY <2>1 DEF CopyInto, InvalidDistance, Least
<1>2. CASE produced = 0
  <2>1. /\ UNCHANGED <<fields, locals, out>>
        /\ last' \in [op : {"none", "push", "copy", "error"}, distance : Nat, count : Nat]
    BY <1>2 DEF CopyInto, Call
  <2>2. QED
    BY <2>1 DEF IInv, fields, locals, TypeOK, RingHoldsWindow, ReachIsExact, ContextBytes,
                FilledRepeats, CallInProgress, Stored, MaxBackwardDistance
<1>3. CASE produced # 0
  <2> DEFINE n == Least(produced, distance)
  <2>1. /\ output' = HistoryPrefix(distance, n)
        /\ request' = [distance |-> distance, count |-> produced]
        /\ pc' = "double" /\ UNCHANGED <<rest, last>>
    BY <1>3 DEF CopyInto
  <2>u. UNCHANGED <<buffer, len, write, available, previous, second, out>>
    BY <1>1 DEF fields
  <2> HIDE DEF produced
  <2>m. MaxBackwardDistance \in Nat
    BY Facts, SizeAssumption DEF TypeOK, MaxBackwardDistance, Least, WindowSize
  <2>2. /\ n \in 1..distance /\ n \in 1..produced /\ (n < produced => n = distance)
    BY <1>1, <1>3, <2>m DEF Least
  <2> HIDE DEF n
  <2>3. /\ output' \in Seq(Byte) /\ Len(output') = n
        /\ \A i \in 1..n : output'[i] = out[Len(out) - distance + i]
    BY <1>1, <2>1, <2>2, PrefixIsWindow
  <2>4. Stored' = Stored /\ MaxBackwardDistance' = MaxBackwardDistance
    BY <2>1, <2>u DEF Stored, MaxBackwardDistance
  <2>5. TypeOK'
    BY <1>1, <2>1, <2>u, <2>3 DEF IInv, TypeOK
  <2>6. RingHoldsWindow' /\ ReachIsExact' /\ ContextBytes' /\ CallInProgress'
    BY <1>1, <2>1, <2>u, <2>4
    DEF IInv, RingHoldsWindow, ReachIsExact, ContextBytes, CallInProgress
  <2>7. FilledRepeats'
    <3>1. distance \in Nat \ {0} /\ Len(out) \in Nat /\ n \in Nat
      BY <1>1, <2>m, <2>2, Facts
    <3>2. n < produced => n % distance = 0
      BY <2>2, <3>1
    <3>3. ASSUME NEW i \in 1..n
          PROVE  output'[i] = out[Len(out) - distance + 1 + ((i - 1) % distance)]
      <4>1. i - 1 \in 0..(distance - 1)
        BY <2>2, <3>1
      <4>2. (i - 1) % distance = i - 1
        BY <3>1, <4>1
      <4>3. Len(out) - distance + 1 + (i - 1) = Len(out) - distance + i
        BY <3>1, <2>2
      <4>4. QED
        BY <2>3, <4>2, <4>3
    <3>4. QED
      BY <1>1, <2>1, <2>u, <2>2, <2>3, <2>4, <3>2, <3>3 DEF FilledRepeats
  <2>8. QED
    BY <2>5, <2>6, <2>7 DEF IInv
<1>4. QED
  BY <1>2, <1>3

(* A turn of copy_into's loop, which repeats what it has filled. *)
LEMMA DoubleIInv ==
  ASSUME IInv, Double
  PROVE  IInv'
<1> DEFINE o == Len(output)
<1> DEFINE c == request.count
<1> DEFINE d == request.distance
<1> DEFINE chunk == Least(c - o, o)
<1> DEFINE base == Len(out) - d + 1
<1>1. /\ pc = "double" /\ UNCHANGED <<fields, pc, rest, request, out, last>>
      /\ o < c /\ output' = output \o SubSeq(output, 1, chunk)
  BY DEF Double
<1>m. MaxBackwardDistance \in Nat /\ Len(out) \in Nat
  BY Facts, SizeAssumption DEF TypeOK, MaxBackwardDistance, Least, WindowSize
<1>2. /\ o \in Nat /\ c \in Nat /\ d \in Nat \ {0} /\ 1 <= o /\ o < c
      /\ output \in Seq(Byte)
  <2>1. c \in Nat /\ d \in Nat /\ output \in Seq(Byte) /\ o \in Nat
    BY DEF IInv, TypeOK
  <2>2. o \in 1..c /\ d \in 1..MaxBackwardDistance
    BY <1>1 DEF IInv, FilledRepeats
  <2> HIDE DEF o, c, d, chunk, base
  <2>3. QED
    BY <1>1, <1>m, <2>1, <2>2
<1>3. /\ o % d = 0
      /\ \A i \in 1..o : output[i] = out[base + ((i - 1) % d)]
  BY <1>1 DEF IInv, FilledRepeats
<1>u. /\ UNCHANGED <<buffer, len, write, available, previous, second, pc, rest, out, last>>
      /\ request' = request
      /\ Stored' = Stored /\ MaxBackwardDistance' = MaxBackwardDistance
  BY <1>1 DEF fields, Stored, MaxBackwardDistance
<1>v. chunk = IF c - o <= o THEN c - o ELSE o
  BY DEF Least
<1> HIDE DEF o, c, d, chunk, base
<1>4. chunk \in 1..o /\ chunk \in Nat /\ o + chunk <= c /\ (o + chunk < c => chunk = o)
  BY <1>2, <1>v
<1>5. /\ output' \in Seq(Byte) /\ Len(output') = o + chunk
      /\ \A i \in 1..o : output'[i] = output[i]
      /\ \A i \in (o + 1)..(o + chunk) : output'[i] = output[i - o]
  <2> DEFINE t == SubSeq(output, 1, chunk)
  <2>1. \A i \in 1..chunk : output[i] \in Byte
    BY <1>2, <1>4, ElementOfSeq DEF o
  <2>2. /\ t \in Seq(Byte) /\ Len(t) = (IF 1 <= chunk THEN chunk - 1 + 1 ELSE 0)
        /\ \A i \in 1..(chunk - 1 + 1) : t[i] = output[1 + i - 1]
    BY <1>4, <2>1, SubSeqProperties
  <2>3. /\ Len(t) = chunk
        /\ \A i \in 1..chunk : t[i] = output[i]
    BY <1>4, <2>2
  <2> HIDE DEF t
  <2>4. /\ output \o t \in Seq(Byte)
        /\ Len(output \o t) = Len(output) + Len(t)
        /\ \A i \in 1..Len(output) : (output \o t)[i] = output[i]
        /\ \A i \in (Len(output) + 1)..(Len(output) + Len(t)) :
              (output \o t)[i] = t[i - Len(output)]
    BY <1>2, <2>2, Concat
  <2>5. output' = output \o t
    BY <1>1 DEF t
  <2>6. /\ output' \in Seq(Byte) /\ Len(output') = o + chunk
        /\ \A i \in 1..o : output'[i] = output[i]
        /\ \A i \in (o + 1)..(o + chunk) : output'[i] = t[i - o]
    BY <2>3, <2>4, <2>5 DEF o
  <2>7. ASSUME NEW i \in (o + 1)..(o + chunk) PROVE t[i - o] = output[i - o]
    <3>1. i - o \in 1..chunk
      BY <1>2, <1>4
    <3>2. QED
      BY <2>3, <3>1
  <2>8. QED
    BY <2>6, <2>7
<1>6. ASSUME NEW i \in 1..(o + chunk)
      PROVE  output'[i] = out[base + ((i - 1) % d)]
  <2>1. CASE i <= o
    <3>1. i \in 1..o
      BY <1>2, <1>4, <2>1
    <3>2. QED
      BY <1>3, <1>5, <3>1
  <2>2. CASE i > o
    <3>1. /\ i \in (o + 1)..(o + chunk) /\ i - o \in 1..o
          /\ i - 1 \in Nat /\ i - 1 >= o /\ (i - o) - 1 = (i - 1) - o
      BY <1>2, <1>4, <2>2
    <3>2. ((i - 1) - o) % d = (i - 1) % d
      BY <1>2, <1>3, <3>1, ModMinus
    <3>3. output'[i] = out[base + (((i - o) - 1) % d)]
      BY <1>3, <1>5, <3>1
    <3>4. QED
      BY <3>1, <3>2, <3>3
  <2>3. QED
    BY <1>2, <1>4, <2>1, <2>2
<1>7. o + chunk < c => (o + chunk) % d = 0
  BY <1>2, <1>3, <1>4, ModPlus
<1>8. FilledRepeats'
  <2>1. d \in 1..MaxBackwardDistance
    BY <1>1 DEF IInv, FilledRepeats, d
  <2>2. o + chunk \in 1..c
    BY <1>2, <1>4
  <2>3. d' = d /\ c' = c /\ base' = base
    BY <1>u DEF d, c, base
  <2>4. QED
    BY <1>5, <1>6, <1>7, <1>u, <2>1, <2>2, <2>3 DEF FilledRepeats, d, c, base
<1>9. TypeOK'
  BY <1>5, <1>u DEF IInv, TypeOK
<1>10. RingHoldsWindow' /\ ReachIsExact' /\ ContextBytes' /\ CallInProgress'
  BY <1>u DEF IInv, RingHoldsWindow, ReachIsExact, ContextBytes, CallInProgress
<1>11. QED
  BY <1>8, <1>9, <1>10 DEF IInv

(* copy_into hands what it has filled to push_slice. *)
LEMMA CopyPushIInv ==
  ASSUME IInv, CopyPush
  PROVE  IInv'
<1>1. /\ pc = "double" /\ BeginPush(output) /\ output' = output /\ request' = request
      /\ last' = Call("copy", request.distance, request.count)
  BY DEF CopyPush
<1>2. output \in Seq(Byte) /\ request \in [distance : Nat, count : Nat]
  BY DEF IInv, TypeOK
<1>3. output # <<>>
  <2>1. Len(output) >= 1 /\ request.count \in Nat
    BY <1>1, <1>2 DEF IInv, FilledRepeats
  <2>2. Len(<<>>) = 0
    BY EmptySeq
  <2>3. QED
    BY <2>1, <2>2
<1>4. last' \in [op : {"none", "push", "copy", "error"}, distance : Nat, count : Nat]
  BY <1>1, <1>2 DEF Call
<1>5. QED
  BY <1>1, <1>2, <1>3, <1>4, BeginPushIInv

(* Every step preserves the invariant. *)
LEMMA NextIInv ==
  ASSUME IInv, [Next]_vars
  PROVE  IInv'
<1>1. CASE Caller
  <2>1. ASSUME NEW b \in Byte, Push(b) PROVE IInv'
    BY <2>1, PushIInv
  <2>2. ASSUME NEW bytes \in Slices, PushSlice(bytes) PROVE IInv'
    BY <2>2, PushSliceIInv
  <2>3. ASSUME NEW distance \in 0..(RingSize + 1), NEW count \in 0..MaxSlice,
               NEW space \in 0..MaxSlice,
               CopyInto(distance, count, space) \/ RejectCopy(distance, count)
        PROVE  IInv'
    <3>1. distance \in Nat /\ count \in Nat /\ space \in Nat
      BY SizeAssumption, BoundAssumption
    <3>2. QED
      BY <2>3, <3>1, CopyIntoIInv, RejectCopyIInv
  <2>4. QED
    BY <1>1, <2>1, <2>2, <2>3 DEF Caller
<1>2. CASE Loops
  BY <1>2, GrowIInv, WrapIInv, EndPushIInv, DoubleIInv, CopyPushIInv DEF Loops
<1>3. CASE UNCHANGED vars
  BY <1>3 DEF vars, fields, locals, IInv, TypeOK, RingHoldsWindow, ReachIsExact,
              ContextBytes, FilledRepeats, CallInProgress, Stored, MaxBackwardDistance
<1>4. QED
  BY <1>1, <1>2, <1>3 DEF Next

-----------------------------------------------------------------------------
(* The theorems. *)

(* The inductive invariant holds of every run. *)
THEOREM Invariance == Spec => []IInv
<1>1. Init => IInv
  BY InitIInv
<1>2. IInv /\ [Next]_vars => IInv'
  BY NextIInv
<1>3. QED
  BY <1>1, <1>2, PTL DEF Spec

(* Type correctness: no index of the ring leaves it (History, all methods). *)
THEOREM TypeCorrect == Spec => []TypeOK
<1>1. IInv => TypeOK
  BY DEF IInv
<1>2. QED
  BY <1>1, Invariance, PTL

(* push and push_slice keep the last RingSize bytes in the ring, each in the *)
(* slot its position implies, for every ring size and every slice length.    *)
THEOREM RingCorrect == Spec => []RingHoldsWindow
<1>1. IInv => RingHoldsWindow
  BY DEF IInv
<1>2. QED
  BY <1>1, Invariance, PTL

(* max_backward_distance is min(bytes decoded, window) between any two calls *)
(* and the slots it reaches have been written.                               *)
THEOREM ReachCorrect == Spec => []ReachIsExact
<1>1. IInv => ReachIsExact
  BY DEF IInv
<1>2. QED
  BY <1>1, Invariance, PTL

(* previous_bytes returns the last two bytes of the stream, whichever mix of *)
(* push, push_slice and copy_into produced them.                             *)
THEOREM ContextCorrect == Spec => []ContextBytes
<1>1. IInv => ContextBytes
  BY DEF IInv
<1>2. QED
  BY <1>1, Invariance, PTL

(* The doubling loop of copy_into never fills a byte that a byte-by-byte     *)
(* LZ77 copy would not have produced.                                        *)
THEOREM CopyCorrect == Spec => []FilledRepeats
<1>1. IInv => FilledRepeats
  BY DEF IInv
<1>2. QED
  BY <1>1, Invariance, PTL

-----------------------------------------------------------------------------
(* The ring implements the unbounded window. *)

(* A new history is an empty window. *)
LEMMA InitRefines == Init => Window!Init
BY DEF Init, Window!Init, Call, Window!Call

(* The reach of the window is what max_backward_distance returns. *)
LEMMA ReachRefines ==
  ASSUME IInv
  PROVE  Window!Reach = MaxBackwardDistance
<1>1. Len(out) \in Nat /\ available = Least(Len(out), WindowSize)
  BY Facts DEF ReachIsExact
<1>2. QED
  BY <1>1, SizeAssumption
  DEF Window!Reach, Window!Least, MaxBackwardDistance, Least, WindowSize

(* What is stored is stored at the end of the window's stream. *)
LEMMA AppendRefines ==
  ASSUME out \in Seq(Byte), NEW bytes \in Seq(Byte), out' = out \o bytes
  PROVE  /\ out' \in Seq(Byte) /\ Window!Extends(out, out')
         /\ Len(out') = Len(out) + Len(bytes) /\ Len(out') - Len(out) = Len(bytes)
         /\ \A i \in (Len(out) + 1)..Len(out') : out'[i] = bytes[i - Len(out)]
<1>1. Len(out) \in Nat /\ Len(bytes) \in Nat
  OBVIOUS
<1>2. /\ out' \in Seq(Byte) /\ Len(out') = Len(out) + Len(bytes)
      /\ \A i \in 1..Len(out) : out'[i] = out[i]
      /\ \A i \in (Len(out) + 1)..(Len(out) + Len(bytes)) : out'[i] = bytes[i - Len(out)]
  BY Concat
<1>3. QED
  BY <1>1, <1>2 DEF Window!Extends

(* A copy is complete with one step of the window: the bytes so far away, repeated. *)
LEMMA CopyPushRefines ==
  ASSUME IInv, CopyPush
  PROVE  Window!CopyBack
<1> DEFINE n == Len(out)
<1> DEFINE c == request.count
<1> DEFINE d == request.distance
<1>1. /\ pc = "double" /\ Len(output) = c /\ out' = out \o output
      /\ last' = Call("copy", d, c) /\ out \in Seq(Byte) /\ output \in Seq(Byte)
  BY Facts DEF CopyPush, BeginPush, TypeOK
<1>2. /\ out' \in Seq(Byte) /\ Window!Extends(out, out')
      /\ Len(out') = n + c
      /\ \A i \in (n + 1)..(n + c) : out'[i] = output[i - n]
  BY <1>1, AppendRefines
<1>3. last'.op = "copy" /\ last'.distance = d /\ last'.count = c
  BY <1>1 DEF Call
<1>4. /\ d \in 1..MaxBackwardDistance
      /\ \A i \in 1..c : output[i] = out[n - d + 1 + ((i - 1) % d)]
  BY <1>1 DEF IInv, FilledRepeats
<1>5. /\ n \in Nat /\ c \in Nat /\ d \in Nat \ {0} /\ d <= n
      /\ d \in 1..Window!Reach
  <2>1. /\ MaxBackwardDistance \in Nat /\ MaxBackwardDistance <= n /\ n \in Nat
        /\ c \in Nat
    BY <1>1, Facts, SizeAssumption
    DEF MaxBackwardDistance, ReachIsExact, Least, WindowSize, TypeOK
  <2>2. QED
    BY <1>4, <2>1, ReachRefines
<1>6. \A i \in 1..n : out'[i] = out[i]
  BY <1>2 DEF Window!Extends
<1> HIDE DEF n, c, d
<1>7. ASSUME NEW i \in (n + 1)..(n + c) PROVE out'[i] = out'[i - d]
  <2> DEFINE x == i - n
  <2>1. x \in 1..c /\ x \in Nat /\ i = n + x /\ out'[i] = output[x]
    BY <1>2, <1>5
  <2> HIDE DEF x
  <2>2. output[x] = out[n - d + 1 + ((x - 1) % d)]
    BY <1>4, <2>1
  <2>3. CASE x <= d
    <3>1. x - 1 \in 0..(d - 1)
      BY <1>5, <2>1, <2>3
    <3>2. (x - 1) % d = x - 1
      BY <1>5, <3>1
    <3>3. n - d + 1 + (x - 1) = i - d /\ i - d \in 1..n
      BY <1>5, <2>1, <2>3
    <3>4. QED
      BY <1>6, <2>1, <2>2, <3>2, <3>3
  <2>4. CASE x > d
    <3>1. /\ x - d \in 1..c /\ i - d \in (n + 1)..(n + c) /\ (i - d) - n = x - d
          /\ x - 1 \in Nat /\ x - 1 >= d /\ (x - d) - 1 = (x - 1) - d
      BY <1>5, <2>1, <2>4
    <3>2. d % d = 0
      BY <1>5, ModUnique, 1 \in Int, 0 \in 0..(d - 1), d = 1 * d + 0
    <3>3. ((x - 1) - d) % d = (x - 1) % d
      BY <1>5, <3>1, <3>2, ModMinus
    <3>4. out'[i - d] = output[x - d]
      BY <1>2, <3>1
    <3>5. output[x - d] = out[n - d + 1 + (((x - d) - 1) % d)]
      BY <1>4, <3>1
    <3>6. QED
      BY <2>1, <2>2, <3>1, <3>3, <3>4, <3>5
  <2>5. QED
    BY <1>5, <2>1, <2>3, <2>4
<1>8. Window!Repeats(out, out', d)
  BY <1>2, <1>7 DEF n, Window!Repeats
<1>9. QED
  BY <1>2, <1>3, <1>5, <1>8 DEF n, Window!CopyBack

(* Every step of the ring is a step of the window, or none. *)
LEMMA StepRefines ==
  ASSUME IInv, [Next]_vars
  PROVE  [Window!Next]_(Window!vars)
<1>0. out \in Seq(Byte)
  BY DEF IInv, TypeOK
<1>1. ASSUME NEW b \in Byte, Push(b) PROVE Window!Next
  <2>1. <<b>> \in Seq(Byte) /\ Len(<<b>>) = 1 /\ out' = out \o <<b>>
    BY <1>0, <1>1 DEF Push
  <2>2. QED
    BY <1>0, <1>1, <2>1, AppendRefines
    DEF Push, Call, Window!Call, Window!Next, Window!Append_
<1>2. ASSUME NEW bytes \in Slices, PushSlice(bytes) PROVE Window!Next
  <2>1. bytes \in Seq(Byte) /\ out' = out \o bytes
    BY <1>2, BoundAssumption DEF Slices, PushSlice, BeginPush
  <2>2. QED
    BY <1>0, <1>2, <2>1, AppendRefines
    DEF PushSlice, Call, Window!Call, Window!Next, Window!Append_
<1>3. ASSUME NEW distance \in Nat, NEW count \in Nat, NEW space \in Nat,
             CopyInto(distance, count, space)
      PROVE  Window!Next \/ UNCHANGED Window!vars
  <2>1. out' = out
    BY <1>3 DEF CopyInto
  <2>2. CASE last' = last
    BY <2>1, <2>2 DEF Window!vars
  <2>3. CASE last' = Call("copy", distance, 0)
    <3>1. distance \in 1..Window!Reach
      <4>1. MaxBackwardDistance \in Nat
        BY Facts, SizeAssumption DEF TypeOK, MaxBackwardDistance, Least, WindowSize
      <4>2. QED
        BY <1>3, <4>1, ReachRefines DEF CopyInto, InvalidDistance
    <3>2. Window!Extends(out, out') /\ Window!Repeats(out, out', distance)
      BY <1>0, <2>1 DEF Window!Extends, Window!Repeats
    <3>3. Len(out') = Len(out) + 0
      BY <1>0, <2>1
    <3>4. QED
      BY <1>0, <2>1, <2>3, <3>1, <3>2, <3>3
      DEF Call, Window!Next, Window!CopyBack
  <2>4. QED
    BY <1>3, <2>2, <2>3 DEF CopyInto
<1>4. ASSUME NEW distance \in Nat, NEW count \in Nat, RejectCopy(distance, count)
      PROVE  Window!Next
  <2>1. /\ last' = Call("error", distance, count) /\ out' = out
        /\ (distance = 0 \/ distance > MaxBackwardDistance)
    BY <1>4 DEF RejectCopy, InvalidDistance
  <2>2. MaxBackwardDistance \in Nat /\ Window!Reach = MaxBackwardDistance
    BY Facts, ReachRefines, SizeAssumption
    DEF TypeOK, MaxBackwardDistance, Least, WindowSize
  <2>3. ~ (distance \in 1..Window!Reach)
    BY <2>1, <2>2
  <2>4. QED
    BY <2>1, <2>3 DEF Call, Window!Next, Window!RejectCopy
<1>5. CASE Caller
  <2>1. ASSUME NEW distance \in 0..(RingSize + 1), NEW count \in 0..MaxSlice,
               NEW space \in 0..MaxSlice,
               CopyInto(distance, count, space) \/ RejectCopy(distance, count)
        PROVE  Window!Next \/ UNCHANGED Window!vars
    <3>1. distance \in Nat /\ count \in Nat /\ space \in Nat
      BY SizeAssumption, BoundAssumption
    <3>2. QED
      BY <2>1, <3>1, <1>3, <1>4
  <2>2. QED
    BY <1>1, <1>2, <1>5, <2>1 DEF Caller
<1>6. CASE Grow \/ Wrap \/ EndPush \/ Double
  BY <1>6 DEF Grow, Wrap, EndPush, Double, Window!vars
<1>7. CASE CopyPush
  BY <1>7, CopyPushRefines DEF Window!Next
<1>8. CASE UNCHANGED vars
  BY <1>8 DEF vars, Window!vars
<1>9. QED
  BY <1>5, <1>6, <1>7, <1>8 DEF Next, Loops

(* A ring of any size, grown lazily and overwritten in place, behaves as the *)
(* unbounded window: every accepted copy repeats the bytes of the stream and *)
(* every distance outside the window is rejected.                            *)
THEOREM HistoryImplementsWindow == Spec => WindowSpec
<1>1. Init => Window!Init
  BY InitRefines
<1>2. IInv /\ [Next]_vars => [Window!Next]_(Window!vars)
  BY StepRefines
<1>3. QED
  BY <1>1, <1>2, Invariance, PTL DEF Spec, WindowSpec, Window!Spec
=============================================================================
