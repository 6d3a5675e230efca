-------------------------- MODULE SftpFilesProofs ---------------------------
(* Theorems about SftpFiles, for any directory, file, buffers and readers. *)
EXTENDS SftpFiles, SequenceTheorems, WellFoundedInduction, TLAPS

-----------------------------------------------------------------------------
(* Sums. *)

(* Induction over the natural numbers, for a set. *)
LEMMA SetInduction ==
    ASSUME NEW S, 0 \in S, \A n \in Nat : n \in S => n + 1 \in S
    PROVE  Nat \subseteq S
<1> DEFINE R == OpToRel(<, Nat)
           T == Nat \ S
<1>1. IsWellFoundedOn(R, Nat)
  BY NatLessThanWellFounded, Zenon
<1>2. \A x, y \in Nat : y < x => <<y, x>> \in R
  BY Zenon DEF OpToRel
<1> HIDE DEF R
<1> SUFFICES ASSUME T # {} PROVE FALSE
  OBVIOUS
<1>3. PICK x \in T : \A y \in T : ~(<<y, x>> \in R)
  <2>1. T \subseteq Nat
    OBVIOUS
  <2> HIDE DEF T
  <2>2. QED
    BY <1>1, <2>1, WFMin
<1>4. x \in Nat /\ x # 0 /\ x - 1 \in Nat /\ x - 1 < x
  OBVIOUS
<1>5. x - 1 \in S
  BY <1>2, <1>3, <1>4
<1>6. QED
  BY <1>4, <1>5

(* g holds the sums of the first k of s, for k up to n. *)
AreSums(g, s, n) ==
    g = [k \in 0 .. n |-> IF k = 0 THEN 0 ELSE g[k - 1] + s[k]]

(* There are such sums. *)
LEMMA SumsExist ==
    ASSUME NEW s \in Seq(Nat)
    PROVE  \E g : AreSums(g, s, Len(s))
<1> DEFINE S == {n \in Nat : n <= Len(s) => \E g : AreSums(g, s, n)}
<1>1. 0 \in S
  <2>1. AreSums([k \in 0 .. 0 |-> 0], s, 0)
    BY DEF AreSums
  <2>2. QED
    BY <2>1
<1>2. ASSUME NEW n \in Nat, n \in S
      PROVE  n + 1 \in S
  <2> SUFFICES ASSUME n + 1 <= Len(s) PROVE \E g : AreSums(g, s, n + 1)
    OBVIOUS
  <2>1. n <= Len(s)
    OBVIOUS
  <2>2. PICK g : AreSums(g, s, n)
    BY <1>2, <2>1
  <2> DEFINE f == [k \in 0 .. n + 1 |-> IF k <= n THEN g[k] ELSE g[n] + s[n + 1]]
  <2>3. ASSUME NEW k \in 0 .. n + 1
        PROVE  f[k] = IF k = 0 THEN 0 ELSE f[k - 1] + s[k]
    <3>1. CASE k = 0
      BY <2>2, <3>1 DEF AreSums
    <3>2. CASE k # 0 /\ k <= n
      <4>1. k \in 0 .. n /\ k - 1 \in 0 .. n + 1 /\ k - 1 <= n
        BY <3>2
      <4>2. f[k] = g[k] /\ f[k - 1] = g[k - 1]
        BY <4>1, <3>2
      <4>3. g[k] = g[k - 1] + s[k]
        BY <2>2, <3>2, <4>1 DEF AreSums
      <4>4. QED
        BY <3>2, <4>2, <4>3
    <3>3. CASE k = n + 1
      <4>1. f[k] = g[n] + s[n + 1] /\ f[k - 1] = g[n] /\ k # 0
        BY <3>3
      <4>2. QED
        BY <3>3, <4>1
    <3>4. QED
      BY <3>1, <3>2, <3>3
  <2>4. AreSums(f, s, n + 1)
    <3>1. f = [k \in 0 .. n + 1 |-> f[k]]
      OBVIOUS
    <3> HIDE DEF f
    <3>2. QED
      BY <2>3, <3>1 DEF AreSums
  <2>5. QED
    BY <2>4
<1> HIDE DEF S
<1>3. Nat \subseteq S
  BY <1>1, <1>2, SetInduction
<1>4. QED
  BY <1>3 DEF S

(* What Sums is. *)
LEMMA SumsRecursion ==
    ASSUME NEW s \in Seq(Nat)
    PROVE  /\ Sums(s)[0] = 0
           /\ \A k \in 1 .. Len(s) : Sums(s)[k] = Sums(s)[k - 1] + s[k]
<1> DEFINE sum == CHOOSE g : g = [k \in 0 .. Len(s) |-> IF k = 0 THEN 0 ELSE g[k - 1] + s[k]]
<1>1. Sums(s) = sum
  BY DEF Sums
<1>2. AreSums(sum, s, Len(s))
  BY SumsExist DEF AreSums
<1> HIDE DEF sum
<1>3. sum[0] = 0
  BY <1>2 DEF AreSums
<1>4. ASSUME NEW k \in 1 .. Len(s) PROVE sum[k] = sum[k - 1] + s[k]
  BY <1>2 DEF AreSums
<1>5. QED
  BY <1>1, <1>3, <1>4

(* Sums of naturals are naturals. *)
LEMMA SumsType ==
    ASSUME NEW s \in Seq(Nat)
    PROVE  \A k \in 0 .. Len(s) : Sums(s)[k] \in Nat
<1> DEFINE S == {n \in Nat : n <= Len(s) => Sums(s)[n] \in Nat}
<1>1. 0 \in S
  BY SumsRecursion
<1>2. ASSUME NEW n \in Nat, n \in S PROVE n + 1 \in S
  <2> SUFFICES ASSUME n + 1 <= Len(s) PROVE Sums(s)[n + 1] \in Nat
    OBVIOUS
  <2>1. Sums(s)[n] \in Nat /\ n + 1 \in 1 .. Len(s)
    BY <1>2
  <2>2. s[n + 1] \in Nat
    BY <2>1
  <2>3. Sums(s)[n + 1] = Sums(s)[(n + 1) - 1] + s[n + 1]
    BY <2>1, SumsRecursion
  <2>4. QED
    BY <2>1, <2>2, <2>3
<1> HIDE DEF S
<1>3. Nat \subseteq S
  BY <1>1, <1>2, SetInduction
<1>4. QED
  BY <1>3 DEF S

(* Sums grow. *)
LEMMA SumsGrow ==
    ASSUME NEW s \in Seq(Nat), NEW k \in 0 .. Len(s)
    PROVE  \A i \in k .. Len(s) : Sums(s)[k] <= Sums(s)[i]
<1> DEFINE S == {n \in Nat : n \in k .. Len(s) => Sums(s)[k] <= Sums(s)[n]}
<1>1. Len(s) \in Nat /\ k \in Nat /\ Sums(s)[k] \in Nat
  BY SumsType
<1>2. 0 \in S
  <2> SUFFICES ASSUME 0 \in k .. Len(s) PROVE Sums(s)[k] <= Sums(s)[0]
    OBVIOUS
  <2>1. k = 0
    BY <1>1
  <2>2. QED
    BY <1>1, <2>1
<1>3. ASSUME NEW n \in Nat, n \in S PROVE n + 1 \in S
  <2> SUFFICES ASSUME n + 1 \in k .. Len(s) PROVE Sums(s)[k] <= Sums(s)[n + 1]
    OBVIOUS
  <2>1. CASE k = n + 1
    BY <1>1, <2>1
  <2>2. CASE k # n + 1
    <3>1. n \in k .. Len(s) /\ n \in 0 .. Len(s) /\ n + 1 \in 1 .. Len(s)
      BY <1>1, <2>2
    <3>2. Sums(s)[k] <= Sums(s)[n] /\ Sums(s)[n] \in Nat /\ s[n + 1] \in Nat
      BY <1>3, <3>1, SumsType
    <3>3. Sums(s)[n + 1] = Sums(s)[(n + 1) - 1] + s[n + 1] /\ (n + 1) - 1 = n
      BY <3>1, SumsRecursion
    <3>4. Sums(s)[n + 1] = Sums(s)[n] + s[n + 1]
      BY <3>3
    <3>5. QED
      BY <1>1, <3>2, <3>4
  <2>3. QED
    BY <2>1, <2>2
<1> HIDE DEF S
<1>4. Nat \subseteq S
  BY <1>2, <1>3, SetInduction
<1>5. QED
  BY <1>1, <1>4 DEF S

(* Sums do not grow over zeros. *)
LEMMA SumsOverZeros ==
    ASSUME NEW s \in Seq(Nat), NEW k \in 0 .. Len(s),
           \A i \in k + 1 .. Len(s) : s[i] = 0
    PROVE  Sums(s)[Len(s)] = Sums(s)[k]
<1> DEFINE S == {n \in Nat : n \in k .. Len(s) => Sums(s)[k] = Sums(s)[n]}
<1>1. Len(s) \in Nat /\ k \in Nat /\ Sums(s)[k] \in Nat
  BY SumsType
<1>2. 0 \in S
  <2> SUFFICES ASSUME 0 \in k .. Len(s) PROVE Sums(s)[k] = Sums(s)[0]
    OBVIOUS
  <2>1. k = 0
    BY <1>1
  <2>2. QED
    BY <2>1
<1>3. ASSUME NEW n \in Nat, n \in S PROVE n + 1 \in S
  <2> SUFFICES ASSUME n + 1 \in k .. Len(s) PROVE Sums(s)[k] = Sums(s)[n + 1]
    OBVIOUS
  <2>1. CASE k = n + 1
    BY <2>1
  <2>2. CASE k # n + 1
    <3>1. n \in k .. Len(s) /\ n + 1 \in 1 .. Len(s) /\ n + 1 \in k + 1 .. Len(s)
      BY <1>1, <2>2
    <3>2. Sums(s)[k] = Sums(s)[n] /\ s[n + 1] = 0
      BY <1>3, <3>1
    <3>3. Sums(s)[n + 1] = Sums(s)[(n + 1) - 1] + s[n + 1] /\ (n + 1) - 1 = n
      BY <3>1, SumsRecursion
    <3>4. QED
      BY <1>1, <3>2, <3>3
  <2>3. QED
    BY <2>1, <2>2
<1> HIDE DEF S
<1>4. Nat \subseteq S
  BY <1>2, <1>3, SetInduction
<1>5. QED
  BY <1>1, <1>4 DEF S

(* Sums of no larger numbers are no larger. *)
LEMMA SumsBelow ==
    ASSUME NEW s \in Seq(Nat), NEW t \in Seq(Nat), Len(s) = Len(t),
           \A i \in 1 .. Len(s) : s[i] <= t[i]
    PROVE  \A k \in 0 .. Len(s) : Sums(s)[k] <= Sums(t)[k]
<1> DEFINE S == {n \in Nat : n <= Len(s) => Sums(s)[n] <= Sums(t)[n]}
<1>1. 0 \in S
  BY SumsRecursion
<1>2. ASSUME NEW n \in Nat, n \in S PROVE n + 1 \in S
  <2> SUFFICES ASSUME n + 1 <= Len(s) PROVE Sums(s)[n + 1] <= Sums(t)[n + 1]
    OBVIOUS
  <2>1. n \in 0 .. Len(s) /\ n + 1 \in 1 .. Len(s) /\ n <= Len(s) /\ (n + 1) - 1 = n
    OBVIOUS
  <2>2. /\ Sums(s)[n] \in Nat /\ Sums(t)[n] \in Nat /\ Sums(s)[n] <= Sums(t)[n]
        /\ s[n + 1] \in Nat /\ t[n + 1] \in Nat /\ s[n + 1] <= t[n + 1]
    BY <1>2, <2>1, SumsType
  <2>3. /\ Sums(s)[n + 1] = Sums(s)[n] + s[n + 1]
        /\ Sums(t)[n + 1] = Sums(t)[n] + t[n + 1]
    <3>1. Sums(s)[n + 1] = Sums(s)[(n + 1) - 1] + s[n + 1]
      BY <2>1, SumsRecursion
    <3>2. Sums(t)[n + 1] = Sums(t)[(n + 1) - 1] + t[n + 1]
      BY <2>1, SumsRecursion
    <3>3. QED
      BY <2>1, <3>1, <3>2
  <2>4. QED
    BY <2>2, <2>3
<1> HIDE DEF S
<1>3. Nat \subseteq S
  BY <1>1, <1>2, SetInduction
<1>4. QED
  BY <1>3 DEF S

(* If one of them is smaller, so is the sum. *)
LEMMA SumsSmaller ==
    ASSUME NEW s \in Seq(Nat), NEW t \in Seq(Nat), Len(s) = Len(t),
           \A i \in 1 .. Len(s) : s[i] <= t[i],
           NEW k \in 1 .. Len(s), s[k] < t[k]
    PROVE  Sums(s)[Len(s)] < Sums(t)[Len(s)]
<1> DEFINE S == {n \in Nat : n \in k .. Len(s) => Sums(s)[n] < Sums(t)[n]}
<1>1. Len(s) \in Nat /\ k \in Nat /\ k >= 1
  OBVIOUS
<1>2. 0 \in S
  BY <1>1
<1>3. ASSUME NEW n \in Nat, n \in S PROVE n + 1 \in S
  <2> SUFFICES ASSUME n + 1 \in k .. Len(s) PROVE Sums(s)[n + 1] < Sums(t)[n + 1]
    OBVIOUS
  <2>1. n \in 0 .. Len(s) /\ n + 1 \in 1 .. Len(s) /\ (n + 1) - 1 = n
    BY <1>1
  <2>2. /\ Sums(s)[n] \in Nat /\ Sums(t)[n] \in Nat
        /\ s[n + 1] \in Nat /\ t[n + 1] \in Nat /\ s[n + 1] <= t[n + 1]
    BY <2>1, SumsType
  <2>3. Sums(s)[n] <= Sums(t)[n]
    BY <2>1, SumsBelow
  <2>4. Sums(s)[n] < Sums(t)[n] \/ s[n + 1] < t[n + 1]
    <3>1. CASE n + 1 = k
      BY <3>1
    <3>2. CASE n + 1 # k
      <4>1. n \in k .. Len(s)
        BY <1>1, <3>2
      <4>2. QED
        BY <1>3, <4>1
    <3>3. QED
      BY <3>1, <3>2
  <2>5. /\ Sums(s)[n + 1] = Sums(s)[n] + s[n + 1]
        /\ Sums(t)[n + 1] = Sums(t)[n] + t[n + 1]
    <3>1. Sums(s)[n + 1] = Sums(s)[(n + 1) - 1] + s[n + 1]
      BY <2>1, SumsRecursion
    <3>2. Sums(t)[n + 1] = Sums(t)[(n + 1) - 1] + t[n + 1]
      BY <2>1, SumsRecursion
    <3>3. QED
      BY <2>1, <3>1, <3>2
  <2>6. \A a, b, c, d \in Nat : a <= b /\ c <= d /\ (a < b \/ c < d) => a + c < b + d
    OBVIOUS
  <2>7. Sums(s)[n] + s[n + 1] < Sums(t)[n] + t[n + 1]
    BY <2>2, <2>3, <2>4, <2>6, Zenon
  <2>8. QED
    BY <2>5, <2>7, Zenon
<1> HIDE DEF S
<1>4. Nat \subseteq S
  BY <1>2, <1>3, SetInduction
<1>5. QED
  BY <1>1, <1>4 DEF S

(* Every place up to the sum of all is a place in one of them. *)
LEMMA SumsCover ==
    ASSUME NEW s \in Seq(Nat), NEW i \in 1 .. Sums(s)[Len(s)]
    PROVE  \E k \in 1 .. Len(s) : \E j \in 1 .. s[k] : i = Sums(s)[k - 1] + j
<1> DEFINE S == {n \in Nat : n <= Len(s) /\ i <= Sums(s)[n] =>
                               \E k \in 1 .. Len(s) : \E j \in 1 .. s[k] : i = Sums(s)[k - 1] + j}
<1>1. Len(s) \in Nat /\ Sums(s)[Len(s)] \in Nat /\ i \in Nat /\ i >= 1
  <2>1. Len(s) \in Nat /\ Sums(s)[Len(s)] \in Nat
    BY SumsType
  <2>2. QED
    BY <2>1
<1>2. 0 \in S
  BY <1>1, SumsRecursion
<1>3. ASSUME NEW n \in Nat, n \in S PROVE n + 1 \in S
  <2> SUFFICES ASSUME n + 1 <= Len(s), i <= Sums(s)[n + 1]
               PROVE  \E k \in 1 .. Len(s) : \E j \in 1 .. s[k] : i = Sums(s)[k - 1] + j
    OBVIOUS
  <2>1. n \in 0 .. Len(s) /\ n + 1 \in 1 .. Len(s) /\ n <= Len(s) /\ (n + 1) - 1 = n
    BY <1>1
  <2>2. Sums(s)[n] \in Nat /\ s[n + 1] \in Nat
    BY <2>1, SumsType
  <2>3. Sums(s)[n + 1] = Sums(s)[(n + 1) - 1] + s[n + 1]
    BY <2>1, SumsRecursion
  <2>4. CASE i <= Sums(s)[n]
    BY <1>3, <2>1, <2>4
  <2>5. CASE ~(i <= Sums(s)[n])
    <3>1. i - Sums(s)[n] \in 1 .. s[n + 1] /\ i = Sums(s)[(n + 1) - 1] + (i - Sums(s)[n])
      BY <1>1, <2>1, <2>2, <2>3, <2>5
    <3>2. QED
      BY <2>1, <3>1
  <2>6. QED
    BY <2>4, <2>5
<1> HIDE DEF S
<1>4. Nat \subseteq S
  BY <1>2, <1>3, SetInduction
<1>5. QED
  BY <1>1, <1>4 DEF S

-----------------------------------------------------------------------------
(* The inductive invariant, by subject. *)

AppOps == {"open", "opendir", "close"}
FileOps == {"read", "write"}

(* Who makes which requests, and what they carry. *)
GoodRequest(q) ==
    /\ (q.by = App) <=> (q.op \in AppOps)
    /\ (q.by \in Readers) <=> (q.op = "readdir")
    /\ (q.by \in Pieces) <=> (q.op \in FileOps)
    /\ q.opening <= opens
    /\ q.at = "serving" => q.op \in FileOps
    /\ q.op \in {"open", "opendir"} => app = "opening" /\ q.opening = opens
    /\ q.op = "close" => app = "closing" /\ q.opening = opens
    /\ q.op = "readdir" => q.data \in Seq(1 .. Entries)
    /\ q.op = "readdir" /\ q.at = "link" => q.data = <<>>
    /\ q.op = "write" => Len(q.data) = q.size /\ q.total <= q.size

RequestInv == \A q \in requests : GoodRequest(q)

(* The application opens and closes one thing at a time. *)
OneAppRequest == \A p, q \in requests : p.op \in AppOps /\ q.op \in AppOps => p = q

(* What has handle h was opened by opening o. *)
Owned(h, o) ==
    /\ h \in DOMAIN open_files => open_files[h] = o
    /\ h \in DOMAIN dirs => dirs[h].opening = o

(* Handles are given out once, each to an opening of its own. *)
HandleInv ==
    /\ handle_gen <= opens
    /\ app # "nothing" => opens >= 1
    /\ \A q \in requests : q.op \in {"open", "opendir"} /\ q.at = "link" => handle_gen < opens
    /\ \A h \in DOMAIN open_files \cup DOMAIN dirs : h[2] <= handle_gen
    /\ handle_[2] <= handle_gen /\ Owned(handle_, opens)
    /\ \A q \in requests : q.handle[2] <= handle_gen /\ Owned(q.handle, q.opening)
    /\ \A h \in DOMAIN dirs : dirs[h] \in [opening : 1 .. opens, next : 1 .. Entries + 1]

(* A request of the transfer that runs, for a buffer it still waits for. *)
OfTransfer(q) ==
    /\ app = "file" /\ transfer.running
    /\ q.opening = opens /\ q.transfer = transfers
    /\ ~piece[q.by].done
    /\ q.at = "serving" => q.handle \in DOMAIN open_files

(* As long as no call is cut off there are no others, and one for each. *)
TransferInv ==
    ~cutOff =>
        /\ transfer.running => app = "file"
        /\ \A q \in requests : q.op \in FileOps => OfTransfer(q)
        /\ \A p, q \in requests :
              p.op \in FileOps /\ q.op \in FileOps /\ p.by = q.by => p = q

FilesInv == TypeOK /\ RequestInv /\ OneAppRequest /\ HandleInv /\ TransferInv

-----------------------------------------------------------------------------
(* Types. *)

AppTypes ==
    /\ app \in {"nothing", "opening", "file", "dir", "closing"}
    /\ handle_ \in Handles \cup {NoHandle}
    /\ opens \in 0 .. MaxOpens
    /\ cutOff \in BOOLEAN

DirTypes ==
    /\ buffer_ \in Seq(1 .. Entries)
    /\ reader \in [Readers ->
                      [at : {"idle", "waiting", "completed", "stopped"}, ec : Errors]]
    /\ listed \in Seq(Listing)
    /\ overlapped \in BOOLEAN

FileTypes ==
    /\ transfer \in [kind : {"none", "read", "write"}, offset : Nat, running : BOOLEAN,
                     n : Nat]
    /\ piece \in [Pieces -> [done : BOOLEAN, ec : Errors, n : Nat, into : Seq(Units)]]
    /\ transfers \in 0 .. MaxTransfers

ServerTypes ==
    /\ handle_gen \in 0 .. MaxOpens
    /\ DOMAIN open_files \subseteq {"f"} \X (1 .. MaxOpens)
    /\ DOMAIN dirs \subseteq {"d"} \X (1 .. MaxOpens)
    /\ disk \in Seq(Units)
    /\ scanFailed \in BOOLEAN

(* TypeOK, by the part of the state. *)
LEMMA TypeParts ==
    TypeOK <=> AppTypes /\ DirTypes /\ FileTypes /\ ServerTypes /\ requests \subseteq Request
BY DEF TypeOK, AppTypes, DirTypes, FileTypes, ServerTypes

(* The buffers and the places they have in a transfer. *)
LEMMA BufferType ==
    /\ Buffers \in Seq(Nat) /\ Len(Buffers) \in Nat
    /\ \A k \in Pieces : /\ Buffers[k] \in Nat /\ Before(k) \in Nat
                         /\ Content(k) \in Seq(Units) /\ Len(Content(k)) = Buffers[k]
<1>1. Buffers \in Seq(Nat) /\ Len(Buffers) \in Nat
  BY FilesAssumption
<1>2. ASSUME NEW k \in Pieces
      PROVE  /\ Buffers[k] \in Nat /\ Before(k) \in Nat
             /\ Content(k) \in Seq(Units) /\ Len(Content(k)) = Buffers[k]
  <2>1. Buffers[k] \in Nat /\ k - 1 \in 0 .. Len(Buffers)
    BY <1>1 DEF Pieces
  <2>2. Sums(Buffers)[k - 1] \in Nat
    BY <1>1, <2>1, SumsType
  <2>3. \A j \in 1 .. Buffers[k] : Written + Sums(Buffers)[k - 1] + j \in Int
    BY <2>1, <2>2 DEF Written
  <2>4. Content(k) \in [1 .. Buffers[k] -> Int]
    BY <2>3 DEF Content
  <2>5. Content(k) \in Seq(Int) /\ Len(Content(k)) = Buffers[k]
    BY <2>1, <2>4
  <2>6. QED
    BY <2>1, <2>2, <2>5 DEF Before, Units
<1>3. QED
  BY <1>1, <1>2

(* A request is made by a caller for what is open. *)
LEMMA AskType ==
    ASSUME AppTypes, FileTypes, opens >= 1, NEW by \in Callers,
           NEW op \in {"open", "opendir", "close", "readdir", "read", "write"},
           NEW offset \in Nat, NEW size \in Nat, NEW data \in Seq(Units)
    PROVE  Ask(by, op, offset, size, data) \in Request
<1>1. opens \in 1 .. MaxOpens
  BY FilesAssumption DEF AppTypes
<1>2. QED
  BY <1>1 DEF AppTypes, FileTypes, Ask, Request, Errors

(* The smaller and the larger of two integers. *)
LEMMA MinMax ==
    ASSUME NEW a \in Int, NEW b \in Int
    PROVE  /\ Min({a, b}) \in {a, b} /\ Min({a, b}) <= a /\ Min({a, b}) <= b
           /\ Max({a, b}) \in {a, b} /\ Max({a, b}) >= a /\ Max({a, b}) >= b
<1>1. \E x \in {a, b} : \A y \in {a, b} : x =< y
  OBVIOUS
<1>2. \E x \in {a, b} : \A y \in {a, b} : x >= y
  OBVIOUS
<1>3. QED
  BY <1>1, <1>2 DEF Min, Max
-----------------------------------------------------------------------------
(* Steps of the client that ask for nothing. *)

(* Whoever loses no more than requests keeps what they say. *)
LEMMA FewerRequests ==
    ASSUME RequestInv, OneAppRequest, HandleInv, requests' \subseteq requests,
           UNCHANGED <<app, handle_, opens, serverVars>>
    PROVE  RequestInv' /\ OneAppRequest' /\ HandleInv'
<1>1. RequestInv'
  BY DEF RequestInv, GoodRequest
<1>2. OneAppRequest'
  BY DEF OneAppRequest
<1>3. HandleInv'
  BY DEF HandleInv, Owned, serverVars
<1>4. QED
  BY <1>1, <1>2, <1>3

(* A read that returns takes an entry, if there is one. *)
LEMMA ResumeTypes ==
    ASSUME DirTypes, NEW r \in Readers, NEW ec \in Errors, await_resume(r, ec)
    PROVE  DirTypes'
<1>1. CASE buffer_ = <<>>
  <2>1. [ec |-> ec, entry |-> 0] \in Listing
    BY FilesAssumption DEF Listing
  <2>2. QED
    BY <1>1, <2>1 DEF DirTypes, await_resume, DropFront
<1>2. CASE buffer_ # <<>>
  <2>1. Head(buffer_) \in 1 .. Entries /\ Tail(buffer_) \in Seq(1 .. Entries)
    BY <1>2, HeadTailProperties DEF DirTypes
  <2>2. [ec |-> ec, entry |-> Head(buffer_)] \in Listing
    BY <2>1, FilesAssumption DEF Listing
  <2>3. QED
    BY <1>2, <2>1, <2>2 DEF DirTypes, await_resume, DropFront
<1>3. QED
  BY <1>1, <1>2

LEMMA ResumeStep ==
    ASSUME FilesInv, NEW r \in Readers,
           ReadBuffered(r) \/ ReadReturns(r) \/ ReadCancelled(r)
    PROVE  FilesInv'
<1>1. /\ UNCHANGED <<app, handle_, opens, requests>>
      /\ UNCHANGED serverVars /\ UNCHANGED fileVars
      /\ cutOff' \in {cutOff, TRUE}
  BY DEF ReadBuffered, ReadReturns, ReadCancelled
<1>2. PICK ec \in Errors : await_resume(r, ec)
  <2>1. reader[r].ec \in Errors
    BY DEF FilesInv, TypeOK
  <2>2. QED
    BY <2>1 DEF ReadBuffered, ReadReturns, ReadCancelled, Errors
<1>3. RequestInv' /\ OneAppRequest' /\ HandleInv'
  BY <1>1, FewerRequests DEF FilesInv
<1>4. TransferInv'
  BY <1>1 DEF FilesInv, TransferInv, OfTransfer, serverVars, fileVars
<1>5. DirTypes'
  BY <1>2, ResumeTypes, TypeParts DEF FilesInv
<1>6. TypeOK'
  <2>1. AppTypes' /\ FileTypes' /\ ServerTypes' /\ (requests \subseteq Request)'
    BY <1>1, TypeParts DEF FilesInv, AppTypes, FileTypes, ServerTypes, serverVars, fileVars
  <2>2. QED
    BY <2>1, <1>5, TypeParts DEF TypeOK, AppTypes, DirTypes, FileTypes, ServerTypes
<1>7. QED
  BY <1>3, <1>4, <1>6 DEF FilesInv

LEMMA EntriesArriveStep ==
    ASSUME FilesInv, NEW r \in Readers, NEW q \in requests, EntriesArrive(r, q)
    PROVE  FilesInv'
<1>1. /\ UNCHANGED <<app, handle_, opens, cutOff, listed, overlapped>>
      /\ UNCHANGED serverVars /\ UNCHANGED fileVars /\ requests' \subseteq requests
  BY DEF EntriesArrive, Answered
<1>2. RequestInv' /\ OneAppRequest' /\ HandleInv'
  BY <1>1, FewerRequests DEF FilesInv
<1>3. TransferInv'
  BY <1>1 DEF FilesInv, TransferInv, OfTransfer, serverVars, fileVars
<1>4. q.data \in Seq(1 .. Entries) /\ q.ec \in Errors
  BY DEF FilesInv, RequestInv, GoodRequest, EntriesArrive, TypeOK, Request
<1>5. DirTypes'
  <2>1. buffer_ \in Seq(1 .. Entries) /\ DirTypes
    BY DEF FilesInv, TypeOK, DirTypes
  <2>2. buffer_' \in Seq(1 .. Entries)
    BY <2>1, <1>4 DEF EntriesArrive, Push
  <2>3. reader' \in [Readers ->
                      [at : {"idle", "waiting", "completed", "stopped"}, ec : Errors]]
    BY <2>1, <1>4 DEF EntriesArrive, DirTypes
  <2>4. QED
    BY <1>1, <2>1, <2>2, <2>3 DEF DirTypes
<1>6. TypeOK'
  <2>1. AppTypes' /\ FileTypes' /\ ServerTypes' /\ (requests \subseteq Request)'
    BY <1>1, TypeParts DEF FilesInv, AppTypes, FileTypes, ServerTypes, serverVars, fileVars
  <2>2. QED
    BY <2>1, <1>5 DEF TypeOK, AppTypes, DirTypes, FileTypes, ServerTypes
<1>7. QED
  BY <1>2, <1>3, <1>6 DEF FilesInv

LEMMA PieceReturnsStep ==
    ASSUME FilesInv, NEW k \in Pieces, NEW q \in requests, PieceReturns(k, q)
    PROVE  FilesInv'
<1>1. /\ UNCHANGED <<app, handle_, opens, cutOff, transfer, transfers>>
      /\ UNCHANGED serverVars /\ UNCHANGED dirVars /\ requests' = requests \ {q}
  BY DEF PieceReturns, Answered
<1>2. RequestInv' /\ OneAppRequest' /\ HandleInv'
  BY <1>1, FewerRequests DEF FilesInv
<1>3. q \in Request /\ q.by = k /\ q.op \in FileOps
  BY DEF FilesInv, TypeOK, RequestInv, GoodRequest, PieceReturns
<1>4. q.ec \in Errors /\ q.data \in Seq(Units) /\ Len(q.data) \in Nat
  BY <1>3 DEF Request
<1>5. /\ piece' \in [Pieces -> [done : BOOLEAN, ec : Errors, n : Nat, into : Seq(Units)]]
      /\ \A j \in Pieces \ {k} : piece'[j] = piece[j]
  <2>1. piece \in [Pieces -> [done : BOOLEAN, ec : Errors, n : Nat, into : Seq(Units)]]
    BY DEF FilesInv, TypeOK
  <2>2. <<>> \in Seq(Units)
    OBVIOUS
  <2>3. QED
    BY <1>4, <2>1, <2>2 DEF PieceReturns
<1>6. TransferInv'
  <2>1. ASSUME ~cutOff, NEW p \in requests', p.op \in FileOps PROVE OfTransfer(p)'
    <3>1. p \in requests /\ p # q /\ OfTransfer(p) /\ p.by # k
      BY <1>1, <1>3, <2>1 DEF FilesInv, TransferInv
    <3>2. p.by \in Pieces
      BY <2>1, <3>1 DEF FilesInv, RequestInv, GoodRequest
    <3>3. QED
      BY <1>1, <1>5, <3>1, <3>2 DEF OfTransfer, serverVars
  <2>2. QED
    BY <1>1, <2>1 DEF FilesInv, TransferInv
<1>7. TypeOK'
  <2>1. AppTypes' /\ DirTypes' /\ ServerTypes' /\ (requests \subseteq Request)'
    BY <1>1, TypeParts DEF FilesInv, AppTypes, DirTypes, ServerTypes, serverVars, dirVars
  <2>2. FileTypes'
    BY <1>1, <1>5 DEF FilesInv, TypeOK, FileTypes
  <2>3. QED
    BY <2>1, <2>2 DEF TypeOK, AppTypes, DirTypes, FileTypes, ServerTypes
<1>8. QED
  BY <1>2, <1>6, <1>7 DEF FilesInv

LEMMA TransferEndsStep ==
    ASSUME FilesInv, TransferReturns \/ TransferCancelled
    PROVE  FilesInv'
<1>1. /\ UNCHANGED <<app, handle_, opens, transfers, requests>>
      /\ UNCHANGED serverVars /\ UNCHANGED dirVars
  BY DEF TransferReturns, TransferCancelled
<1>2. RequestInv' /\ OneAppRequest' /\ HandleInv'
  BY <1>1, FewerRequests DEF FilesInv
<1>3. /\ piece \in [Pieces -> [done : BOOLEAN, ec : Errors, n : Nat, into : Seq(Units)]]
      /\ transfer \in [kind : {"none", "read", "write"}, offset : Nat, running : BOOLEAN,
                       n : Nat]
      /\ cutOff \in BOOLEAN /\ transfers \in 0 .. MaxTransfers
  BY DEF FilesInv, TypeOK
<1>4. TransferInv' /\ FileTypes' /\ cutOff' \in BOOLEAN
  <2>1. CASE TransferReturns
    <3>1. [k \in Pieces |-> piece[k].n] \in Seq(Nat) /\ Len([k \in Pieces |-> piece[k].n]) = Len(Buffers)
      BY <1>3, BufferType DEF Pieces
    <3>2. Sums([k \in Pieces |-> piece[k].n])[Len(Buffers)] \in Nat
      BY <3>1, BufferType, SumsType
    <3>3. FileTypes' /\ ~transfer'.running
      BY <1>1, <1>3, <2>1, <3>2 DEF TransferReturns, FileTypes
    <3>4. ASSUME ~cutOff, NEW p \in requests, p.op \in FileOps PROVE FALSE
      <4>1. p.by \in Pieces /\ ~piece[p.by].done
        BY <3>4 DEF FilesInv, RequestInv, GoodRequest, TransferInv, OfTransfer
      <4>2. QED
        BY <2>1, <4>1 DEF TransferReturns, AllDone
    <3>5. QED
      BY <1>1, <1>3, <2>1, <3>3, <3>4 DEF TransferInv, TransferReturns
  <2>2. CASE TransferCancelled
    <3>1. piece' \in [Pieces -> [done : BOOLEAN, ec : Errors, n : Nat, into : Seq(Units)]]
      BY <1>3, <2>2 DEF TransferCancelled, Errors
    <3>2. QED
      BY <1>1, <1>3, <2>2, <3>1 DEF TransferCancelled, FileTypes, FilesInv, TransferInv
  <2>3. QED
    BY <2>1, <2>2
<1>5. TypeOK'
  <2>1. AppTypes' /\ DirTypes' /\ ServerTypes' /\ (requests \subseteq Request)'
    BY <1>1, <1>4, TypeParts DEF FilesInv, AppTypes, DirTypes, ServerTypes, serverVars, dirVars
  <2>2. QED
    BY <1>4, <2>1 DEF TypeOK, AppTypes, DirTypes, FileTypes, ServerTypes
<1>6. QED
  BY <1>2, <1>4, <1>5 DEF FilesInv

-----------------------------------------------------------------------------
(* Steps of the server. *)

(* c is the request q, further on. *)
Further(c, q) ==
    /\ c \in Request
    /\ c.by = q.by /\ c.op = q.op /\ c.opening = q.opening /\ c.transfer = q.transfer
    /\ c.at # "link"
    /\ c.at = "serving" => q.op \in FileOps
    /\ q.op = "readdir" => c.data \in Seq(1 .. Entries)
    /\ q.op = "write" => Len(c.data) = c.size /\ c.total <= c.size

LEMMA FurtherRequests ==
    ASSUME FilesInv, NEW q \in requests, NEW c, Further(c, q), Becomes(q, c)
    PROVE  /\ RequestInv' /\ OneAppRequest'
           /\ AppTypes' /\ DirTypes' /\ FileTypes' /\ (requests \subseteq Request)'
<1>1. /\ UNCHANGED <<app, handle_, opens, cutOff>>
      /\ UNCHANGED dirVars /\ UNCHANGED fileVars /\ requests' = (requests \ {q}) \cup {c}
  BY DEF Becomes
<1>2. RequestInv'
  <2>1. GoodRequest(c)
    BY DEF FilesInv, RequestInv, GoodRequest, Further
  <2>2. \A p \in requests' : GoodRequest(p)
    BY <1>1, <2>1 DEF FilesInv, RequestInv
  <2>3. QED
    BY <1>1, <2>2 DEF RequestInv, GoodRequest
<1>3. OneAppRequest'
  BY <1>1 DEF FilesInv, OneAppRequest, Further
<1>4. requests' \subseteq Request
  BY <1>1 DEF FilesInv, TypeOK, Further
<1>5. AppTypes' /\ DirTypes' /\ FileTypes'
  BY <1>1, TypeParts DEF FilesInv, AppTypes, DirTypes, FileTypes, dirVars, fileVars
<1>6. QED
  BY <1>2, <1>3, <1>4, <1>5

(* The requests of the transfer stay its requests, if the file that one of *)
(* them is served from is there.                                           *)
LEMMA FurtherTransfer ==
    ASSUME FilesInv, NEW q \in requests, NEW c, Further(c, q), Becomes(q, c),
           ~cutOff /\ c.at = "serving" => c.handle \in DOMAIN open_files',
           \A p \in requests : ~cutOff /\ p.at = "serving" /\ p.handle \in DOMAIN open_files
                                   => p.handle \in DOMAIN open_files'
    PROVE  TransferInv'
<1>1. /\ UNCHANGED <<app, handle_, opens, cutOff>>
      /\ UNCHANGED fileVars /\ requests' = (requests \ {q}) \cup {c}
  BY DEF Becomes
<1>2. ASSUME ~cutOff, NEW p \in requests', p.op \in FileOps PROVE OfTransfer(p)'
  <2>1. CASE p = c
    <3>1. OfTransfer(q)
      BY <1>2, <2>1 DEF FilesInv, TransferInv, Further
    <3>2. QED
      BY <1>1, <1>2, <2>1, <3>1 DEF OfTransfer, Further, fileVars
  <2>2. CASE p # c
    <3>1. p \in requests /\ OfTransfer(p)
      BY <1>1, <1>2, <2>2 DEF FilesInv, TransferInv
    <3>2. QED
      BY <1>1, <1>2, <3>1 DEF OfTransfer, fileVars
  <2>3. QED
    BY <2>1, <2>2
<1>3. ~cutOff => \A p, o \in requests' :
                      p.op \in FileOps /\ o.op \in FileOps /\ p.by = o.by => p = o
  BY <1>1 DEF FilesInv, TransferInv, Further
<1>4. QED
  BY <1>1, <1>2, <1>3 DEF FilesInv, TransferInv, fileVars

(* A request is answered or goes on, and no handle is made. *)
LEMMA FurtherHandles ==
    ASSUME FilesInv, NEW q \in requests, NEW c, Further(c, q), Becomes(q, c),
           c.handle = q.handle, handle_gen' = handle_gen,
           DOMAIN open_files' \subseteq DOMAIN open_files, DOMAIN dirs' \subseteq DOMAIN dirs,
           \A h \in DOMAIN open_files' : open_files'[h] = open_files[h],
           \A h \in DOMAIN dirs' : /\ dirs'[h].opening = dirs[h].opening
                                   /\ dirs'[h] \in [opening : 1 .. opens, next : 1 .. Entries + 1]
    PROVE  HandleInv'
<1>1. /\ UNCHANGED <<app, handle_, opens, cutOff>> /\ requests' = (requests \ {q}) \cup {c}
  BY DEF Becomes
<1>2. \A h, o : Owned(h, o) => Owned(h, o)'
  BY DEF Owned
<1>3. \A p \in requests' : p.handle[2] <= handle_gen /\ Owned(p.handle, p.opening)'
  BY <1>1, <1>2 DEF FilesInv, HandleInv, Further
<1>4. \A p \in requests' : p.op \in {"open", "opendir"} /\ p.at = "link" => handle_gen < opens
  BY <1>1 DEF FilesInv, HandleInv, Further
<1>5. QED
  BY <1>1, <1>2, <1>3, <1>4 DEF FilesInv, HandleInv

(* The three of them. *)
LEMMA FurtherStep ==
    ASSUME FilesInv, NEW q \in requests, NEW c, Further(c, q), Becomes(q, c),
           ServerTypes', HandleInv',
           ~cutOff /\ c.at = "serving" => c.handle \in DOMAIN open_files',
           \A p \in requests : ~cutOff /\ p.at = "serving" /\ p.handle \in DOMAIN open_files
                                   => p.handle \in DOMAIN open_files'
    PROVE  FilesInv'
<1>1. /\ RequestInv' /\ OneAppRequest'
      /\ AppTypes' /\ DirTypes' /\ FileTypes' /\ (requests \subseteq Request)'
  BY FurtherRequests
<1>2. TransferInv'
  BY FurtherTransfer
<1>3. TypeOK'
  BY <1>1 DEF TypeOK, AppTypes, DirTypes, FileTypes, ServerTypes
<1>4. QED
  BY <1>1, <1>2, <1>3 DEF FilesInv

(* A request that is answered with an error or the end. *)
LEMMA ReplyFurther ==
    ASSUME FilesInv, NEW q \in requests, NEW ec \in Errors
    PROVE  Further([q EXCEPT !.at = "answered", !.ec = ec], q)
<1> DEFINE c == [q EXCEPT !.at = "answered", !.ec = ec]
<1>1. q \in Request /\ GoodRequest(q)
  BY DEF FilesInv, TypeOK, RequestInv
<1>2. /\ c \in Request /\ c.at = "answered"
      /\ c.by = q.by /\ c.op = q.op /\ c.opening = q.opening /\ c.transfer = q.transfer
      /\ c.data = q.data /\ c.size = q.size /\ c.total = q.total
  BY <1>1 DEF Request
<1> HIDE DEF c
<1>3. Further(c, q)
  BY <1>1, <1>2 DEF GoodRequest, Further
<1>4. QED
  BY <1>3 DEF c

(* A step that keeps the handles. *)
LEMMA SameHandles ==
    ASSUME FilesInv, NEW q \in requests, NEW c, Further(c, q), Becomes(q, c),
           c.handle = q.handle, UNCHANGED <<handle_gen, open_files, dirs, scanFailed>>,
           disk' \in Seq(Units),
           c.at = "serving" => q.at = "serving" \/ q.handle \in DOMAIN open_files
    PROVE  FilesInv'
<1>1. HandleInv'
  BY FurtherHandles DEF FilesInv, HandleInv
<1>2. ServerTypes'
  BY DEF FilesInv, TypeOK, ServerTypes
<1>3. ~cutOff /\ c.at = "serving" => c.handle \in DOMAIN open_files'
  BY DEF FilesInv, TransferInv, OfTransfer, Further
<1>4. QED
  BY <1>1, <1>2, <1>3, FurtherStep

LEMMA FindStep ==
    ASSUME FilesInv, NEW q \in requests, find(q)
    PROVE  FilesInv'
<1>1. UNCHANGED serverVars /\ disk \in Seq(Units)
  BY DEF find, FilesInv, TypeOK
<1>2. CASE q.handle \in DOMAIN open_files
  <2> DEFINE c == [q EXCEPT !.at = "serving"]
  <2>1. Becomes(q, c) /\ q.op \in FileOps
    BY <1>2 DEF find, Begin, FileOps
  <2>2. Further(c, q) /\ c.handle = q.handle
    <3>1. q \in Request /\ GoodRequest(q)
      BY DEF FilesInv, TypeOK, RequestInv
    <3>2. /\ c \in Request /\ c.at = "serving" /\ c.handle = q.handle
          /\ c.by = q.by /\ c.op = q.op /\ c.opening = q.opening /\ c.transfer = q.transfer
          /\ c.data = q.data /\ c.size = q.size /\ c.total = q.total
      BY <3>1 DEF Request
    <3> HIDE DEF c
    <3>3. QED
      BY <2>1, <3>1, <3>2 DEF GoodRequest, Further, FileOps
  <2> HIDE DEF c
  <2>3. QED
    BY <1>1, <1>2, <2>1, <2>2, SameHandles DEF serverVars
<1>3. CASE q.handle \notin DOMAIN open_files
  <2> DEFINE c == [q EXCEPT !.at = "answered", !.ec = "error"]
  <2>1. Becomes(q, c) /\ Further(c, q)
    BY <1>3, ReplyFurther DEF find, Reply, Errors
  <2>2. c.handle = q.handle /\ c.at = "answered"
    BY DEF FilesInv, TypeOK, Request
  <2> HIDE DEF c
  <2>3. QED
    BY <1>1, <2>1, <2>2, SameHandles DEF serverVars
<1>4. QED
  BY <1>2, <1>3

(* An integer, or nothing if it is negative. *)
LEMMA Room ==
    ASSUME NEW x \in Int
    PROVE  Max({0, x}) \in Int /\ Max({0, x}) \in {0, x}
<1>1. 0 \in Int
  OBVIOUS
<1>2. Max({0, x}) \in {0, x}
  BY <1>1, MinMax, Zenon
<1>3. QED
  BY <1>2

(* The loop of read_at or write_at goes round once more. *)
LEMMA MoreFurther ==
    ASSUME FilesInv, NEW q \in requests, q.op \in FileOps, NEW n \in Nat, NEW d \in Seq(Units),
           q.op = "write" => d = q.data /\ n <= q.size - q.total, q.at = "serving"
    PROVE  /\ Further([q EXCEPT !.total = @ + n, !.data = d], q)
           /\ [q EXCEPT !.total = @ + n, !.data = d].handle = q.handle
           /\ [q EXCEPT !.total = @ + n, !.data = d].at = "serving"
<1> DEFINE c == [q EXCEPT !.total = @ + n, !.data = d]
<1>1. q \in Request /\ GoodRequest(q)
  BY DEF FilesInv, TypeOK, RequestInv
<1>2. q.total \in Nat /\ q.size \in Nat /\ q.total + n \in Nat
  <2>1. q.total \in Nat /\ q.size \in Nat
    BY <1>1 DEF Request
  <2>2. QED
    BY <2>1
<1>3. /\ c \in Request /\ c.at = "serving" /\ c.handle = q.handle
      /\ c.by = q.by /\ c.op = q.op /\ c.opening = q.opening /\ c.transfer = q.transfer
      /\ c.data = d /\ c.size = q.size /\ c.total = q.total + n
  BY <1>1, <1>2 DEF Request
<1> HIDE DEF c
<1>4. Further(c, q)
  BY <1>1, <1>2, <1>3 DEF GoodRequest, Further, FileOps
<1>5. QED
  BY <1>3, <1>4 DEF c

(* A request of a file is answered. *)
LEMMA FileReply ==
    ASSUME FilesInv, NEW q \in requests, NEW ec \in Errors, Reply(q, ec), UNCHANGED serverVars
    PROVE  FilesInv'
<1> DEFINE c == [q EXCEPT !.at = "answered", !.ec = ec]
<1>1. Becomes(q, c) /\ Further(c, q)
  BY ReplyFurther DEF Reply
<1>2. c.handle = q.handle /\ c.at = "answered"
  BY DEF FilesInv, TypeOK, Request
<1>3. disk' \in Seq(Units)
  BY DEF FilesInv, TypeOK, serverVars
<1> HIDE DEF c
<1>4. QED
  BY <1>1, <1>2, <1>3, SameHandles DEF serverVars

LEMMA ReadAtStep ==
    ASSUME FilesInv, NEW q \in requests, read_at(q)
    PROVE  FilesInv'
<1> DEFINE there == Min({q.size - q.total, Max({0, Len(disk) - Position(q)})})
<1>1. q.op \in FileOps /\ q.op # "write" /\ q.at = "serving" /\ UNCHANGED serverVars
  BY DEF read_at, Serving, FileOps
<1>2. disk \in Seq(Units) /\ q \in Request
  BY DEF FilesInv, TypeOK
<1>3. q.size \in Nat /\ q.total \in Nat /\ q.offset \in Nat /\ Len(disk) \in Nat
      /\ q.data \in Seq(Units)
  BY <1>2 DEF Request
<1>4. there \in Int /\ there <= Max({0, Len(disk) - Position(q)})
  <2>1. Len(disk) - Position(q) \in Int /\ q.size - q.total \in Int
    BY <1>3 DEF Position
  <2>2. Max({0, Len(disk) - Position(q)}) \in Int
    BY <2>1, Room, Zenon
  <2> DEFINE m == Max({0, Len(disk) - Position(q)})
  <2> HIDE DEF m
  <2>3. m \in Int
    BY <2>2 DEF m
  <2>4. Min({q.size - q.total, m}) \in {q.size - q.total, m} /\ Min({q.size - q.total, m}) <= m
    BY <2>1, <2>3, MinMax
  <2>5. QED
    BY <2>1, <2>3, <2>4 DEF m
<1>5. \A n \in 1 .. there : Position(q) + n <= Len(disk)
  <2>1. Len(disk) - Position(q) \in Int /\ Position(q) \in Nat
    BY <1>3 DEF Position
  <2>2. Max({0, Len(disk) - Position(q)}) \in {0, Len(disk) - Position(q)}
    BY <2>1, Room, Zenon
  <2> DEFINE m == Max({0, Len(disk) - Position(q)})
  <2> HIDE DEF m, there
  <2>3. m \in {0, Len(disk) - Position(q)}
    BY <2>2 DEF m
  <2>4. there <= m
    BY <1>4 DEF m
  <2>5. QED
    BY <1>3, <1>4, <2>1, <2>3, <2>4
<1>6. \/ \E ec \in Errors : Reply(q, ec)
      \/ \E n \in 1 .. there :
           Becomes(q, [q EXCEPT
                          !.total = @ + n,
                          !.data = @ \o SubSeq(disk, Position(q) + 1, Position(q) + n)])
  BY DEF read_at, Errors
<1>7. CASE \E ec \in Errors : Reply(q, ec)
  BY <1>1, <1>7, FileReply
<1> HIDE DEF there
<1>8. ASSUME NEW n \in 1 .. there,
             Becomes(q, [q EXCEPT
                          !.total = @ + n,
                          !.data = @ \o SubSeq(disk, Position(q) + 1, Position(q) + n)])
      PROVE  FilesInv'
  <2> DEFINE d == q.data \o SubSeq(disk, Position(q) + 1, Position(q) + n)
             c == [q EXCEPT !.total = @ + n, !.data = d]
  <2>1. n \in Nat /\ Position(q) \in Nat
    BY <1>3, <1>4 DEF Position
  <2>2. SubSeq(disk, Position(q) + 1, Position(q) + n) \in Seq(Units)
    <3>1. Position(q) + n <= Len(disk)
      BY <1>5
    <3>2. \A i \in Position(q) + 1 .. Position(q) + n : i \in 1 .. Len(disk)
      BY <2>1, <3>1, <1>3
    <3>3. QED
      BY <1>2, <2>1, <3>1, <3>2, SubSeqProperties
  <2>3. d \in Seq(Units)
    BY <1>3, <2>2
  <2> HIDE DEF d
  <2>4. Further(c, q) /\ c.handle = q.handle /\ c.at = "serving"
    BY <1>1, <2>1, <2>3, MoreFurther
  <2>5. Becomes(q, c)
    BY <1>8 DEF d
  <2> HIDE DEF c
  <2>6. disk' \in Seq(Units) /\ UNCHANGED <<handle_gen, open_files, dirs, scanFailed>>
    BY <1>1, <1>2 DEF serverVars
  <2>7. QED
    BY <1>1, <2>4, <2>5, <2>6, SameHandles
<1>9. QED
  BY <1>6, <1>7, <1>8

(* What Put makes of a file is a file, as long as it must be. *)
LEMMA PutFile ==
    ASSUME NEW d \in Seq(Units), NEW position \in Nat, NEW units \in Seq(Units)
    PROVE  /\ Put(d, position, units) \in Seq(Units)
           /\ Len(Put(d, position, units)) >= Len(d)
           /\ Len(Put(d, position, units)) >= position + Len(units)
           /\ \A i \in 1 .. Len(Put(d, position, units)) :
                Put(d, position, units)[i] =
                  IF i \in position + 1 .. position + Len(units) THEN units[i - position]
                  ELSE IF i <= Len(d) THEN d[i] ELSE 0
<1> DEFINE m == Max({Len(d), position + Len(units)})
<1>1. Len(d) \in Int /\ position + Len(units) \in Int
  OBVIOUS
<1>2. m \in {Len(d), position + Len(units)} /\ m >= Len(d) /\ m >= position + Len(units)
  BY <1>1, MinMax, Zenon
<1> HIDE DEF m
<1>3. m \in Nat
  BY <1>2
<1>4. Put(d, position, units) =
        [i \in 1 .. m |-> IF i \in position + 1 .. position + Len(units) THEN units[i - position]
                          ELSE IF i <= Len(d) THEN d[i] ELSE 0]
  BY DEF Put, m
<1>5. ASSUME NEW i \in 1 .. m
      PROVE  (IF i \in position + 1 .. position + Len(units) THEN units[i - position]
              ELSE IF i <= Len(d) THEN d[i] ELSE 0) \in Units
  <2>1. CASE i \in position + 1 .. position + Len(units)
    <3>1. i - position \in 1 .. Len(units)
      BY <1>3, <2>1
    <3>2. QED
      BY <2>1, <3>1
  <2>2. CASE i \notin position + 1 .. position + Len(units) /\ i <= Len(d)
    BY <1>3, <2>2
  <2>3. CASE i \notin position + 1 .. position + Len(units) /\ ~(i <= Len(d))
    BY <2>3 DEF Units
  <2>4. QED
    BY <2>1, <2>2, <2>3
<1>6. Put(d, position, units) \in [1 .. m -> Units]
  BY <1>4, <1>5
<1>7. Put(d, position, units) \in Seq(Units) /\ Len(Put(d, position, units)) = m
  BY <1>3, <1>6
<1>8. QED
  BY <1>2, <1>4, <1>7

LEMMA WriteAtStep ==
    ASSUME FilesInv, NEW q \in requests, write_at(q)
    PROVE  FilesInv'
<1>1. q.op \in FileOps /\ q.op = "write" /\ q.at = "serving"
      /\ UNCHANGED <<handle_gen, open_files, dirs, scanFailed>>
  BY DEF write_at, Serving, FileOps
<1>2. disk \in Seq(Units) /\ q \in Request /\ Len(q.data) = q.size /\ q.total <= q.size
  BY <1>1 DEF FilesInv, TypeOK, RequestInv, GoodRequest
<1>3. q.size \in Nat /\ q.total \in Nat /\ q.offset \in Nat /\ q.data \in Seq(Units)
  BY <1>2 DEF Request
<1>4. \/ \E ec \in Errors : Reply(q, ec) /\ UNCHANGED serverVars
      \/ \E n \in 1 .. q.size - q.total :
            /\ disk' = Put(disk, Position(q), SubSeq(q.data, q.total + 1, q.total + n))
            /\ Becomes(q, [q EXCEPT !.total = @ + n])
  BY DEF write_at, Errors, serverVars
<1>5. CASE \E ec \in Errors : Reply(q, ec) /\ UNCHANGED serverVars
  BY <1>5, FileReply
<1>6. ASSUME NEW n \in 1 .. q.size - q.total,
             disk' = Put(disk, Position(q), SubSeq(q.data, q.total + 1, q.total + n)),
             Becomes(q, [q EXCEPT !.total = @ + n])
      PROVE  FilesInv'
  <2> DEFINE c == [q EXCEPT !.total = @ + n, !.data = q.data]
  <2>1. n \in Nat /\ Position(q) \in Nat /\ n <= q.size - q.total
    BY <1>3 DEF Position
  <2>2. SubSeq(q.data, q.total + 1, q.total + n) \in Seq(Units)
    <3>1. \A i \in q.total + 1 .. q.total + n : i \in 1 .. Len(q.data)
      BY <1>2, <1>3, <2>1
    <3>2. \A i \in q.total + 1 .. q.total + n : q.data[i] \in Units
      BY <1>3, <3>1
    <3>3. q.total + 1 \in Int /\ q.total + n \in Int
      BY <1>3, <2>1
    <3>4. QED
      BY <3>2, <3>3, SubSeqProperties
  <2>3. disk' \in Seq(Units)
    BY <1>2, <1>6, <2>1, <2>2, PutFile
  <2>4. Further(c, q) /\ c.handle = q.handle /\ c.at = "serving"
    BY <1>1, <1>3, <2>1, MoreFurther
  <2>5. [q EXCEPT !.total = @ + n] = c
    BY <1>2 DEF Request
  <2>6. Becomes(q, c)
    BY <1>6, <2>5, Zenon
  <2> HIDE DEF c
  <2>7. QED
    BY <1>1, <2>3, <2>4, <2>6, SameHandles
<1>7. QED
  BY <1>4, <1>5, <1>6

LEMMA CloseServed ==
    ASSUME FilesInv, NEW q \in requests, close(q)
    PROVE  FilesInv'
<1> DEFINE ec == IF q.handle \in DOMAIN open_files \cup DOMAIN dirs THEN "success" ELSE "error"
           c == [q EXCEPT !.at = "answered", !.ec = ec]
<1>1. ec \in Errors /\ q.op = "close" /\ UNCHANGED <<handle_gen, disk, scanFailed>> /\ Reply(q, ec)
  BY DEF Errors, close, Begin
<1> HIDE DEF ec
<1>2. Becomes(q, c) /\ Further(c, q)
  BY <1>1, ReplyFurther DEF Reply
<1>3. c.handle = q.handle /\ c.at = "answered"
  BY DEF FilesInv, TypeOK, Request
<1> HIDE DEF c
<1>4. /\ DOMAIN open_files' \subseteq DOMAIN open_files /\ DOMAIN dirs' \subseteq DOMAIN dirs
      /\ \A h \in DOMAIN open_files' : open_files'[h] = open_files[h]
      /\ \A h \in DOMAIN dirs' : dirs'[h] = dirs[h]
  BY DEF close, Erase
<1>5. HandleInv'
  <2>1. \A h \in DOMAIN dirs : dirs[h] \in [opening : 1 .. opens, next : 1 .. Entries + 1]
    BY DEF FilesInv, HandleInv
  <2>2. QED
    BY <1>1, <1>2, <1>3, <1>4, <2>1, FurtherHandles
<1>6. ServerTypes'
  BY <1>1, <1>4 DEF FilesInv, TypeOK, ServerTypes
<1>7. ASSUME NEW p \in requests, ~cutOff, p.at = "serving" PROVE FALSE
  <2>1. p.op \in FileOps /\ app = "closing"
    BY <1>1, <1>7 DEF FilesInv, RequestInv, GoodRequest
  <2>2. QED
    BY <1>7, <2>1 DEF FilesInv, TransferInv, OfTransfer
<1>8. QED
  BY <1>2, <1>3, <1>5, <1>6, <1>7, FurtherStep

(* A batch ends where the directory does, at the latest. *)
LEMMA LastType ==
    ASSUME NEW next \in 1 .. Entries
    PROVE  LastOf(next) \in next .. Entries
<1>1. next + max_batch - 1 \in Int /\ Entries \in Int
  BY FilesAssumption
<1>2. Min({next + max_batch - 1, Entries}) \in {next + max_batch - 1, Entries}
      /\ Min({next + max_batch - 1, Entries}) <= Entries
  BY <1>1, MinMax, Zenon
<1> DEFINE m == Min({next + max_batch - 1, Entries})
<1> HIDE DEF m
<1>3. m \in {next + max_batch - 1, Entries} /\ m <= Entries
  BY <1>2, Zenon DEF m
<1>4. m \in next .. Entries
  BY <1>3, FilesAssumption
<1>5. QED
  BY <1>4, Zenon DEF LastOf, m

(* The batch of the entries from next to last. *)
Batch(next, last) == [i \in 1 .. last - next + 1 |-> next + i - 1]

LEMMA BatchType ==
    ASSUME NEW next \in 1 .. Entries, NEW last \in next .. Entries
    PROVE  /\ Batch(next, last) \in Seq(1 .. Entries) /\ Batch(next, last) \in Seq(Units)
           /\ Len(Batch(next, last)) = last - next + 1
           /\ \A i \in 1 .. last - next + 1 : Batch(next, last)[i] = next + i - 1
<1>1. last - next + 1 \in Nat /\ next \in Nat /\ last \in Nat
  BY FilesAssumption
<1>2. \A i \in 1 .. last - next + 1 : next + i - 1 \in 1 .. Entries /\ next + i - 1 \in Units
  BY <1>1, FilesAssumption DEF Units
<1>3. /\ Batch(next, last) \in [1 .. last - next + 1 -> 1 .. Entries]
      /\ Batch(next, last) \in [1 .. last - next + 1 -> Units]
  BY <1>2 DEF Batch
<1>4. QED
  BY <1>1, <1>3 DEF Batch

(* What readdir does. *)
LEMMA ReaddirCases ==
    ASSUME FilesInv, NEW q \in requests, readdir(q)
    PROVE  /\ q.op = "readdir" /\ q.at = "link" /\ UNCHANGED <<handle_gen, open_files, disk>>
           /\ \/ \E ec \in Errors \ {"success"} :
                   /\ Reply(q, ec) /\ UNCHANGED <<dirs, scanFailed>>
                   /\ q.handle \in DOMAIN dirs =>
                        ec = "SSH_FX_EOF" /\ dirs[q.handle].next > Entries
              \/ /\ q.handle \in DOMAIN dirs
                 /\ dirs[q.handle].next \in 1 .. Entries
                 /\ \E last \in dirs[q.handle].next .. Entries, fails \in BOOLEAN :
                       /\ dirs' = [dirs EXCEPT ![q.handle].next =
                                      IF fails THEN Entries + 1 ELSE last + 1]
                       /\ scanFailed' = (scanFailed \/ fails)
                       /\ Becomes(q, [q EXCEPT !.at = "answered",
                                               !.data = Batch(dirs[q.handle].next, last)])
<1> DEFINE next == dirs[q.handle].next
<1>1. q.op = "readdir" /\ q.at = "link" /\ UNCHANGED <<handle_gen, open_files, disk>>
  BY DEF readdir, Begin
<1>2. CASE q.handle \notin DOMAIN dirs
  BY <1>1, <1>2 DEF readdir, Errors
<1>3. CASE q.handle \in DOMAIN dirs /\ next > Entries
  BY <1>1, <1>3 DEF readdir, Errors
<1>4. CASE q.handle \in DOMAIN dirs /\ ~(next > Entries)
  <2>1. next \in 1 .. Entries
    <3>1. next \in 1 .. Entries + 1
      BY <1>4 DEF FilesInv, HandleInv
    <3> HIDE DEF next
    <3>2. QED
      BY <1>4, <3>1, FilesAssumption
  <2>2. PICK last \in next .. LastOf(next), fails \in BOOLEAN :
             /\ dirs' = [dirs EXCEPT ![q.handle].next = IF fails THEN Entries + 1 ELSE last + 1]
             /\ scanFailed' = (scanFailed \/ fails)
             /\ Becomes(q, [q EXCEPT !.at = "answered", !.data = Batch(next, last)])
    BY <1>4 DEF readdir, Batch
  <2>3. last \in next .. Entries
    <3>1. LastOf(next) \in next .. Entries
      BY <2>1, LastType
    <3> HIDE DEF next
    <3>2. QED
      BY <2>1, <3>1, FilesAssumption
  <2>4. QED
    BY <1>1, <1>4, <2>1, <2>2, <2>3
<1>5. QED
  BY <1>2, <1>3, <1>4

(* The request with a batch in it. *)
LEMMA BatchFurther ==
    ASSUME FilesInv, NEW q \in requests, q.op = "readdir", NEW d \in Seq(1 .. Entries),
           d \in Seq(Units)
    PROVE  /\ Further([q EXCEPT !.at = "answered", !.data = d], q)
           /\ [q EXCEPT !.at = "answered", !.data = d].handle = q.handle
           /\ [q EXCEPT !.at = "answered", !.data = d].at = "answered"
           /\ [q EXCEPT !.at = "answered", !.data = d].data = d
<1> DEFINE c == [q EXCEPT !.at = "answered", !.data = d]
<1>1. q \in Request
  BY DEF FilesInv, TypeOK
<1>2. /\ c \in Request /\ c.at = "answered" /\ c.handle = q.handle
      /\ c.by = q.by /\ c.op = q.op /\ c.opening = q.opening /\ c.transfer = q.transfer
      /\ c.data = d
  BY <1>1 DEF Request
<1> HIDE DEF c
<1>3. Further(c, q)
  BY <1>1, <1>2 DEF Further
<1>4. QED
  BY <1>2, <1>3 DEF c

LEMMA ReaddirStep ==
    ASSUME FilesInv, NEW q \in requests, readdir(q)
    PROVE  FilesInv'
<1>1. q.op = "readdir" /\ UNCHANGED <<handle_gen, open_files, disk>>
  BY ReaddirCases
<1>2. CASE \E ec \in Errors : Reply(q, ec) /\ UNCHANGED <<dirs, scanFailed>>
  BY <1>1, <1>2, FileReply DEF serverVars
<1>3. CASE /\ q.handle \in DOMAIN dirs
           /\ dirs[q.handle].next \in 1 .. Entries
           /\ \E last \in dirs[q.handle].next .. Entries, fails \in BOOLEAN :
                 /\ dirs' = [dirs EXCEPT ![q.handle].next =
                                IF fails THEN Entries + 1 ELSE last + 1]
                 /\ scanFailed' = (scanFailed \/ fails)
                 /\ Becomes(q, [q EXCEPT !.at = "answered",
                                         !.data = Batch(dirs[q.handle].next, last)])
  <2> DEFINE next == dirs[q.handle].next
  <2>1. PICK last \in next .. Entries, fails \in BOOLEAN :
             /\ dirs' = [dirs EXCEPT ![q.handle].next = IF fails THEN Entries + 1 ELSE last + 1]
             /\ scanFailed' = (scanFailed \/ fails)
             /\ Becomes(q, [q EXCEPT !.at = "answered", !.data = Batch(next, last)])
    BY <1>3
  <2> DEFINE c == [q EXCEPT !.at = "answered", !.data = Batch(next, last)]
             up == IF fails THEN Entries + 1 ELSE last + 1
  <2>2. Batch(next, last) \in Seq(1 .. Entries) /\ Batch(next, last) \in Seq(Units)
    BY <1>3, BatchType
  <2>3. Further(c, q) /\ c.handle = q.handle /\ c.at = "answered"
    BY <1>1, <2>2, BatchFurther
  <2>4. Becomes(q, c)
    BY <2>1
  <2>5. up \in 1 .. Entries + 1
    <3>1. next \in 1 .. Entries
      BY <1>3
    <3> HIDE DEF next
    <3>2. QED
      BY <2>1, <3>1, FilesAssumption
  <2> HIDE DEF c, up, next
  <2>6. \A h \in DOMAIN dirs : dirs[h] \in [opening : 1 .. opens, next : 1 .. Entries + 1]
    BY DEF FilesInv, HandleInv
  <2>7. dirs' = [dirs EXCEPT ![q.handle].next = up]
    BY <2>1 DEF up
  <2>8. DOMAIN dirs' = DOMAIN dirs
    BY <2>7
  <2>9. ASSUME NEW h \in DOMAIN dirs'
        PROVE  /\ dirs'[h].opening = dirs[h].opening
               /\ dirs'[h] \in [opening : 1 .. opens, next : 1 .. Entries + 1]
    <3>1. CASE h = q.handle
      <4>1. dirs'[h] = [dirs[h] EXCEPT !.next = up]
        BY <1>3, <2>7, <3>1
      <4>2. QED
        BY <2>5, <2>6, <2>8, <4>1
    <3>2. CASE h # q.handle
      BY <2>6, <2>7, <2>8, <3>2
    <3>3. QED
      BY <3>1, <3>2
  <2>10. HandleInv'
    BY <1>1, <2>3, <2>4, <2>8, <2>9, FurtherHandles
  <2>11. ServerTypes'
    BY <1>1, <2>1, <2>8 DEF FilesInv, TypeOK, ServerTypes
  <2>12. QED
    BY <1>1, <2>3, <2>4, <2>10, <2>11, FurtherStep
<1>4. QED
  BY <1>2, <1>3, ReaddirCases

(* What open does: it fails, or gives out a handle that was never used. *)
LEMMA OpenCases ==
    ASSUME FilesInv, NEW q \in requests, open(q)
    PROVE  /\ q.op \in {"open", "opendir"} /\ q.at = "link" /\ UNCHANGED <<disk, scanFailed>>
           /\ \/ Reply(q, "error") /\ UNCHANGED <<handle_gen, open_files, dirs>>
              \/ \E h \in Handles :
                   /\ handle_gen' = handle_gen + 1 /\ h[2] = handle_gen + 1
                   /\ \/ /\ h \in {"f"} \X (1 .. MaxOpens)
                         /\ open_files' = Insert(open_files, h, q.opening)
                         /\ dirs' = dirs /\ q.op = "open"
                      \/ /\ h \in {"d"} \X (1 .. MaxOpens)
                         /\ dirs' = Insert(dirs, h, [opening |-> q.opening, next |-> 1])
                         /\ open_files' = open_files /\ q.op = "opendir"
                   /\ Becomes(q, [q EXCEPT !.at = "answered", !.handle = h])
<1>1. q.op \in {"open", "opendir"} /\ q.at = "link" /\ UNCHANGED <<disk, scanFailed>>
  BY DEF open, Begin
<1>2. handle_gen + 1 \in 1 .. MaxOpens
  <2>1. handle_gen < opens /\ opens \in 0 .. MaxOpens /\ handle_gen \in 0 .. MaxOpens
    BY <1>1 DEF FilesInv, HandleInv, TypeOK
  <2>2. QED
    BY <2>1, FilesAssumption
<1> DEFINE h == <<IF q.op = "open" THEN "f" ELSE "d", handle_gen + 1>>
<1>3. h \in Handles /\ h[2] = handle_gen + 1
  BY <1>2 DEF Handles
<1>4. CASE Reply(q, "error") /\ UNCHANGED <<handle_gen, open_files, dirs>>
  BY <1>1, <1>4
<1>5. CASE /\ handle_gen' = NewHandle
           /\ open_files' = IF q.op = "open" THEN Insert(open_files, h, q.opening)
                            ELSE open_files
           /\ dirs' = IF q.op = "opendir"
                      THEN Insert(dirs, h, [opening |-> q.opening, next |-> 1]) ELSE dirs
           /\ Becomes(q, [q EXCEPT !.at = "answered", !.handle = h])
  <2>1. CASE q.op = "open"
    <3>1. h \in {"f"} \X (1 .. MaxOpens)
      BY <1>2, <2>1
    <3> HIDE DEF h
    <3>2. QED
      BY <1>1, <1>3, <1>5, <2>1, <3>1 DEF NewHandle
  <2>2. CASE q.op = "opendir"
    <3>1. h \in {"d"} \X (1 .. MaxOpens)
      BY <1>2, <2>2
    <3> HIDE DEF h
    <3>2. QED
      BY <1>1, <1>3, <1>5, <2>2, <3>1 DEF NewHandle
  <2>3. QED
    BY <1>1, <2>1, <2>2
<1>6. QED
  BY <1>4, <1>5 DEF open, NewHandle

(* The request with a handle in it. *)
LEMMA HandleFurther ==
    ASSUME FilesInv, NEW q \in requests, q.op \in {"open", "opendir"}, NEW h \in Handles
    PROVE  /\ Further([q EXCEPT !.at = "answered", !.handle = h], q)
           /\ [q EXCEPT !.at = "answered", !.handle = h].handle = h
           /\ [q EXCEPT !.at = "answered", !.handle = h].at = "answered"
<1> DEFINE c == [q EXCEPT !.at = "answered", !.handle = h]
<1>1. q \in Request
  BY DEF FilesInv, TypeOK
<1>2. /\ c \in Request /\ c.at = "answered" /\ c.handle = h
      /\ c.by = q.by /\ c.op = q.op /\ c.opening = q.opening /\ c.transfer = q.transfer
  BY <1>1 DEF Request
<1> HIDE DEF c
<1>3. Further(c, q)
  BY <1>2 DEF Further
<1>4. QED
  BY <1>2, <1>3 DEF c

LEMMA OpenServed ==
    ASSUME FilesInv, NEW q \in requests, open(q)
    PROVE  FilesInv'
<1>1. q.op \in {"open", "opendir"} /\ q.at = "link" /\ UNCHANGED <<disk, scanFailed>>
  BY OpenCases
<1>2. CASE Reply(q, "error") /\ UNCHANGED <<handle_gen, open_files, dirs>>
  BY <1>1, <1>2, FileReply DEF serverVars, Errors
<1>3. ASSUME NEW h \in Handles,
             handle_gen' = handle_gen + 1, h[2] = handle_gen + 1,
             \/ /\ h \in {"f"} \X (1 .. MaxOpens)
                /\ open_files' = Insert(open_files, h, q.opening)
                /\ dirs' = dirs
             \/ /\ h \in {"d"} \X (1 .. MaxOpens)
                /\ dirs' = Insert(dirs, h, [opening |-> q.opening, next |-> 1])
                /\ open_files' = open_files /\ q.op = "opendir",
             Becomes(q, [q EXCEPT !.at = "answered", !.handle = h])
      PROVE  FilesInv'
  <2> DEFINE c == [q EXCEPT !.at = "answered", !.handle = h]
  <2>1. Further(c, q) /\ c.handle = h /\ c.at = "answered"
    BY <1>1, HandleFurther
  <2>2. Becomes(q, c)
    BY <1>3
  <2> HIDE DEF c
  <2>3. /\ UNCHANGED <<app, handle_, opens, cutOff>>
        /\ requests' = (requests \ {q}) \cup {c}
    BY <2>2 DEF Becomes
  <2>4. /\ handle_gen \in Nat /\ opens \in Nat /\ handle_gen < opens /\ q.opening = opens
        /\ opens \in 0 .. MaxOpens /\ q.opening \in 1 .. opens
    BY <1>1, FilesAssumption DEF FilesInv, HandleInv, TypeOK, RequestInv, GoodRequest, Request
  <2>5. [opening |-> q.opening, next |-> 1] \in [opening : 1 .. opens, next : 1 .. Entries + 1]
    BY <2>4, FilesAssumption
  <2>6. /\ DOMAIN open_files' \subseteq DOMAIN open_files \cup {h}
        /\ DOMAIN open_files \subseteq DOMAIN open_files'
        /\ DOMAIN dirs' \subseteq DOMAIN dirs \cup {h}
        /\ h \in DOMAIN open_files' => open_files'[h] = q.opening \/ h \in DOMAIN open_files
        /\ h \in DOMAIN dirs' => \/ dirs'[h] = [opening |-> q.opening, next |-> 1]
                                 \/ h \in DOMAIN dirs
        /\ \A g \in DOMAIN open_files : g # h => open_files'[g] = open_files[g]
        /\ \A g \in DOMAIN dirs : g # h => dirs'[g] = dirs[g]
    <3>1. CASE open_files' = Insert(open_files, h, q.opening) /\ dirs' = dirs
      <4>1. /\ DOMAIN open_files' = DOMAIN open_files \cup {h} /\ open_files'[h] = q.opening
            /\ \A g \in DOMAIN open_files : g # h => open_files'[g] = open_files[g]
        BY <3>1 DEF Insert
      <4>2. QED
        BY <3>1, <4>1
    <3>2. CASE /\ dirs' = Insert(dirs, h, [opening |-> q.opening, next |-> 1])
               /\ open_files' = open_files
      <4>1. /\ DOMAIN dirs' = DOMAIN dirs \cup {h}
            /\ dirs'[h] = [opening |-> q.opening, next |-> 1]
            /\ \A g \in DOMAIN dirs : g # h => dirs'[g] = dirs[g]
        BY <3>2 DEF Insert
      <4>2. QED
        BY <3>2, <4>1
    <3>3. QED
      BY <1>3, <3>1, <3>2
  <2>7. h \notin DOMAIN open_files /\ h \notin DOMAIN dirs
    <3>1. \A g \in DOMAIN open_files \cup DOMAIN dirs : g[2] <= handle_gen
      BY DEF FilesInv, HandleInv
    <3>2. ~(h[2] <= handle_gen)
      BY <1>3, <2>4
    <3>3. QED
      BY <3>1, <3>2
  <2>8. Owned(h, opens)'
    BY <2>3, <2>4, <2>6, <2>7 DEF Owned
  <2>9. \A g, o : g # h /\ Owned(g, o) => Owned(g, o)'
    BY <2>6 DEF Owned
  <2>10. HandleInv'
    <3>1. handle_[2] <= handle_gen /\ handle_ # h /\ handle_[2] \in Int
      <4>1. handle_[2] <= handle_gen /\ handle_[2] \in Int
        BY DEF FilesInv, HandleInv, TypeOK, Handles, NoHandle
      <4>2. QED
        BY <1>3, <2>4, <4>1
    <3>2. ASSUME NEW p \in requests'
          PROVE  p.handle[2] <= handle_gen' /\ Owned(p.handle, p.opening)'
      <4>1. CASE p = c
        BY <1>3, <2>1, <2>3, <2>4, <2>8, <4>1 DEF Further
      <4>2. CASE p # c
        <5>1. p.handle[2] <= handle_gen /\ Owned(p.handle, p.opening) /\ p \in requests
          BY <2>3, <4>2 DEF FilesInv, HandleInv
        <5>2. p.handle[2] \in Int
          <6>1. p.handle \in Handles \cup {NoHandle}
            BY <5>1 DEF FilesInv, TypeOK, Request
          <6>2. QED
            BY <6>1 DEF Handles, NoHandle
        <5>3. p.handle # h /\ p.handle[2] <= handle_gen'
          BY <1>3, <2>4, <5>1, <5>2
        <5>4. QED
          BY <2>9, <5>1, <5>3
      <4>3. QED
        BY <4>1, <4>2
    <3>3. ASSUME NEW p \in requests', p.op \in {"open", "opendir"}, p.at = "link"
          PROVE  FALSE
      <4>1. p \in requests /\ p # q
        BY <2>1, <2>3, <3>3
      <4>2. QED
        BY <1>1, <3>3, <4>1 DEF FilesInv, OneAppRequest, AppOps
    <3>4. ASSUME NEW g \in DOMAIN open_files' \cup DOMAIN dirs' PROVE g[2] <= handle_gen'
      <4>1. CASE g = h
        BY <1>3, <2>4, <4>1
      <4>2. CASE g # h
        <5>1. g \in DOMAIN open_files \cup DOMAIN dirs
          BY <2>6, <4>2
        <5>2. g[2] <= handle_gen /\ g[2] \in Int
          BY <5>1 DEF FilesInv, HandleInv, TypeOK
        <5>3. QED
          BY <1>3, <2>4, <5>2
      <4>3. QED
        BY <4>1, <4>2
    <3>5. \A g \in DOMAIN dirs' : dirs'[g] \in [opening : 1 .. opens, next : 1 .. Entries + 1]
      BY <2>5, <2>6, <2>7 DEF FilesInv, HandleInv
    <3>6. handle_gen' <= opens /\ (app # "nothing" => opens >= 1)
      BY <1>3, <2>4
    <3>7. handle_[2] <= handle_gen' /\ Owned(handle_, opens)'
      <4>1. handle_[2] <= handle_gen'
        BY <1>3, <2>4, <3>1
      <4>2. Owned(handle_, opens)
        BY DEF FilesInv, HandleInv
      <4>3. QED
        BY <2>3, <2>9, <3>1, <4>1, <4>2
    <3>8. QED
      BY <2>3, <3>2, <3>3, <3>4, <3>5, <3>6, <3>7 DEF HandleInv
  <2>11. ServerTypes'
    <3>1. handle_gen' \in 0 .. MaxOpens
      BY <1>3, <2>4, FilesAssumption
    <3>2. DOMAIN open_files' \subseteq {"f"} \X (1 .. MaxOpens)
          /\ DOMAIN dirs' \subseteq {"d"} \X (1 .. MaxOpens)
      <4>1. DOMAIN open_files \subseteq {"f"} \X (1 .. MaxOpens)
            /\ DOMAIN dirs \subseteq {"d"} \X (1 .. MaxOpens)
        BY DEF FilesInv, TypeOK
      <4>2. CASE open_files' = open_files /\ h \in {"d"} \X (1 .. MaxOpens)
        BY <2>6, <4>1, <4>2
      <4>3. CASE dirs' = dirs /\ h \in {"f"} \X (1 .. MaxOpens)
        BY <2>6, <4>1, <4>3
      <4>4. QED
        BY <1>3, <4>2, <4>3
    <3>3. QED
      BY <1>1, <3>1, <3>2 DEF FilesInv, TypeOK, ServerTypes
  <2>12. QED
    BY <2>1, <2>2, <2>6, <2>10, <2>11, FurtherStep
<1>4. QED
  BY <1>2, <1>3, OpenCases

-----------------------------------------------------------------------------
(* The calls of the client that ask for something. *)

LEMMA OpenStep ==
    ASSUME FilesInv, NEW op \in {"open", "opendir"}, Open(op)
    PROVE  FilesInv'
<1>0. PICK c : c = [Ask(App, op, 0, 0, <<>>) EXCEPT
                       !.opening = opens', !.transfer = 0, !.handle = NoHandle]
  OBVIOUS
<1>1. /\ app = "nothing" /\ app' = "opening" /\ handle_' = NoHandle /\ opens' = opens + 1
      /\ buffer_' = <<>> /\ reader' = NotReading /\ listed' = <<>> /\ overlapped' = FALSE
      /\ transfer' = NoTransfer /\ piece' = NoPieces /\ transfers' = 0
      /\ requests' = {q \in requests : q.at # "answered"} \cup {c}
      /\ UNCHANGED serverVars /\ cutOff' = cutOff /\ opens < MaxOpens
  BY <1>0 DEF Open
<1>2. opens \in 0 .. MaxOpens /\ opens' \in 1 .. MaxOpens /\ opens <= opens'
  BY <1>1, FilesAssumption DEF FilesInv, TypeOK
<1>3. /\ c \in Request /\ c.by = App /\ c.op = op /\ c.opening = opens' /\ c.handle = NoHandle
      /\ c.at = "link"
  <2>1. c = [by |-> App, opening |-> opens', transfer |-> 0, op |-> op, handle |-> NoHandle,
             offset |-> 0, size |-> 0, data |-> <<>>, at |-> "link", total |-> 0,
             ec |-> "success"]
    BY <1>0 DEF Ask
  <2>2. <<>> \in Seq(Units) /\ 0 \in 0 .. MaxTransfers /\ App \in Callers
    BY FilesAssumption DEF Callers
  <2>3. QED
    BY <1>2, <2>1, <2>2 DEF Request, Errors
<1>4. \A q \in requests : q.op \notin AppOps
  BY <1>1 DEF FilesInv, RequestInv, GoodRequest, AppOps
<1>5. ~cutOff => \A q \in requests : q.op \notin FileOps
  BY <1>1 DEF FilesInv, TransferInv, OfTransfer
<1>6. RequestInv'
  <2>1. GoodRequest(c)'
    <3>1. App \notin Readers /\ App \notin Pieces
      BY FilesAssumption DEF App, Pieces
    <3>2. QED
      BY <1>1, <1>2, <1>3, <3>1 DEF GoodRequest, AppOps, FileOps
  <2>2. ASSUME NEW q \in requests PROVE GoodRequest(q)'
    <3>1. q.opening \in Nat /\ q.opening <= opens /\ q.opening <= opens'
      <4>1. q.opening \in 1 .. MaxOpens /\ q.opening <= opens
        BY DEF FilesInv, TypeOK, Request, RequestInv, GoodRequest
      <4>2. QED
        BY <1>1, <1>2, <4>1, FilesAssumption
    <3>2. GoodRequest(q) /\ q.op \notin AppOps
      BY <1>4 DEF FilesInv, RequestInv
    <3>3. QED
      BY <3>1, <3>2 DEF GoodRequest, AppOps
  <2>3. QED
    BY <1>1, <2>1, <2>2 DEF RequestInv
<1>7. OneAppRequest'
  BY <1>1, <1>4 DEF OneAppRequest
<1>8. HandleInv'
  <2>1. NoHandle \notin DOMAIN open_files /\ NoHandle \notin DOMAIN dirs
    BY DEF FilesInv, TypeOK, NoHandle
  <2>2. \A h, o : Owned(h, o)' <=> Owned(h, o)
    BY <1>1 DEF Owned, serverVars
  <2>3. \A o : Owned(NoHandle, o)
    BY <2>1 DEF Owned
  <2>4. handle_gen \in 0 .. MaxOpens /\ handle_gen <= opens /\ handle_gen < opens' /\ NoHandle[2] = 0
        /\ 0 <= handle_gen /\ handle_gen <= opens' /\ opens' >= 1
    <3>1. handle_gen \in 0 .. MaxOpens /\ handle_gen <= opens
      BY DEF FilesInv, TypeOK, HandleInv
    <3>2. QED
      BY <1>1, <1>2, <3>1, FilesAssumption DEF NoHandle
  <2>5. \A q \in requests' : q.handle[2] <= handle_gen /\ Owned(q.handle, q.opening)
    <3>1. \A q \in requests : q.handle[2] <= handle_gen /\ Owned(q.handle, q.opening)
      BY DEF FilesInv, HandleInv
    <3>2. QED
      BY <1>1, <1>3, <2>3, <2>4, <3>1
  <2>6. \A h \in DOMAIN dirs : dirs[h] \in [opening : 1 .. opens', next : 1 .. Entries + 1]
    <3>1. \A h \in DOMAIN dirs : dirs[h] \in [opening : 1 .. opens, next : 1 .. Entries + 1]
      BY DEF FilesInv, HandleInv
    <3>2. 1 .. opens \subseteq 1 .. opens'
      BY <1>1, <1>2
    <3>3. QED
      BY <3>1, <3>2
  <2>7. \A h \in DOMAIN open_files \cup DOMAIN dirs : h[2] <= handle_gen
    BY DEF FilesInv, HandleInv
  <2>8. QED
    BY <1>1, <2>2, <2>3, <2>4, <2>5, <2>6, <2>7 DEF HandleInv, serverVars
<1>9. TransferInv'
  BY <1>1, <1>3, <1>5 DEF TransferInv, NoTransfer, FileOps
<1>10. TypeOK'
  <2>1. requests' \subseteq Request
    BY <1>1, <1>3 DEF FilesInv, TypeOK
  <2>2. DirTypes'
    <3>1. NotReading \in [Readers ->
                            [at : {"idle", "waiting", "completed", "stopped"}, ec : Errors]]
      BY DEF NotReading, Errors
    <3>2. <<>> \in Seq(1 .. Entries) /\ <<>> \in Seq(Listing)
      OBVIOUS
    <3>3. QED
      BY <1>1, <3>1, <3>2 DEF DirTypes
  <2>3. FileTypes'
    BY <1>1, FilesAssumption DEF FileTypes, NoTransfer, NoPieces, Errors
  <2>4. ServerTypes'
    BY <1>1, TypeParts DEF FilesInv, ServerTypes, serverVars
  <2>5. AppTypes'
    BY <1>1, <1>2 DEF FilesInv, TypeOK, AppTypes
  <2>6. QED
    BY <2>1, <2>2, <2>3, <2>4, <2>5 DEF TypeOK, AppTypes, DirTypes, FileTypes, ServerTypes
<1>11. QED
  BY <1>6, <1>7, <1>8, <1>9, <1>10 DEF FilesInv

(* The answer to open or close: the application has no other request. *)
LEMMA AppAnswered ==
    ASSUME FilesInv, NEW q \in requests, Opened(q) \/ Closed(q)
    PROVE  FilesInv'
<1>1. /\ q.by = App /\ q.op \in AppOps /\ q.opening = opens /\ requests' = requests \ {q}
      /\ app \in {"opening", "closing"} /\ app' \in {"nothing", "file", "dir"}
      /\ handle_' \in {q.handle, NoHandle}
      /\ UNCHANGED <<opens, cutOff>> /\ UNCHANGED dirVars /\ UNCHANGED fileVars
      /\ UNCHANGED serverVars
  BY DEF Opened, Closed, Answered, FilesInv, RequestInv, GoodRequest
<1>2. \A p \in requests' : p.op \notin AppOps
  BY <1>1 DEF FilesInv, OneAppRequest
<1>3. RequestInv'
  BY <1>1, <1>2 DEF FilesInv, RequestInv, GoodRequest, AppOps
<1>4. OneAppRequest'
  BY <1>2 DEF OneAppRequest
<1>5. HandleInv'
  <2>1. NoHandle \notin DOMAIN open_files /\ NoHandle \notin DOMAIN dirs
    BY DEF FilesInv, TypeOK, NoHandle
  <2>2. \A h, o : Owned(h, o)' <=> Owned(h, o)
    BY <1>1 DEF Owned, serverVars
  <2>3. \A o : Owned(NoHandle, o)
    BY <2>1 DEF Owned
  <2>4. NoHandle[2] <= handle_gen
    BY DEF FilesInv, TypeOK, NoHandle
  <2>5. handle_'[2] <= handle_gen /\ Owned(q.handle, opens) /\ q.handle[2] <= handle_gen
    BY <1>1, <2>4 DEF FilesInv, HandleInv
  <2>6. Owned(handle_, opens)'
    <3>1. \A h : h = handle_' => Owned(h, opens)
      BY <1>1, <2>3, <2>5
    <3>2. QED
      BY <1>1, <3>1 DEF Owned, serverVars
  <2>7. \A p \in requests' : p.handle[2] <= handle_gen /\ Owned(p.handle, p.opening)'
    BY <1>1, <2>2 DEF FilesInv, HandleInv
  <2>8. \A h \in DOMAIN open_files \cup DOMAIN dirs : h[2] <= handle_gen
    BY DEF FilesInv, HandleInv
  <2>9. \A h \in DOMAIN dirs : dirs[h] \in [opening : 1 .. opens, next : 1 .. Entries + 1]
    BY DEF FilesInv, HandleInv
  <2>10. handle_gen <= opens /\ opens >= 1
    BY <1>1 DEF FilesInv, HandleInv
  <2>11. \A p \in requests' : p.op \notin {"open", "opendir"}
    BY <1>2 DEF AppOps
  <2>12. QED
    BY <1>1, <2>5, <2>6, <2>7, <2>8, <2>9, <2>10, <2>11 DEF HandleInv, serverVars
<1>6. TransferInv'
  BY <1>1 DEF FilesInv, TransferInv, OfTransfer, fileVars, serverVars
<1>7. TypeOK'
  <2>1. handle_' \in Handles \cup {NoHandle}
    BY <1>1 DEF FilesInv, TypeOK, Request
  <2>2. AppTypes' /\ requests' \subseteq Request
    BY <1>1, <2>1 DEF FilesInv, TypeOK, AppTypes
  <2>3. DirTypes' /\ FileTypes' /\ ServerTypes'
    BY <1>1, TypeParts DEF FilesInv, DirTypes, FileTypes, ServerTypes, dirVars, fileVars, serverVars
  <2>4. QED
    BY <2>2, <2>3 DEF TypeOK, AppTypes, DirTypes, FileTypes, ServerTypes
<1>8. QED
  BY <1>3, <1>4, <1>5, <1>6, <1>7 DEF FilesInv

(* One request more, with the handle the client has. *)
LEMMA AskedStep ==
    ASSUME FilesInv, NEW c \in Request, requests' = requests \cup {c},
           c.handle = handle_, c.opening = opens, c.op \notin {"open", "opendir"},
           app # "nothing", UNCHANGED <<handle_, opens>>, UNCHANGED serverVars
    PROVE  HandleInv'
<1>1. \A h, o : Owned(h, o)' <=> Owned(h, o)
  BY DEF Owned, serverVars
<1>2. \A p \in requests' : p.handle[2] <= handle_gen /\ Owned(p.handle, p.opening)'
  BY <1>1 DEF FilesInv, HandleInv
<1>3. Owned(handle_, opens)'
  BY DEF FilesInv, HandleInv, Owned, serverVars
<1>4. \A p \in requests' : p.op \in {"open", "opendir"} /\ p.at = "link" => handle_gen < opens
  BY DEF FilesInv, HandleInv
<1>5. QED
  BY <1>2, <1>3, <1>4 DEF FilesInv, HandleInv, serverVars

LEMMA CloseStep ==
    ASSUME FilesInv, Close
    PROVE  FilesInv'
<1>0. PICK c : c = Ask(App, "close", 0, 0, <<>>)
  OBVIOUS
<1>1. /\ app \in {"file", "dir"} /\ app' = "closing" /\ requests' = requests \cup {c}
      /\ ~cutOff' => ~cutOff /\ ~transfer.running
      /\ UNCHANGED <<handle_, opens>>
      /\ UNCHANGED dirVars /\ UNCHANGED fileVars /\ UNCHANGED serverVars
  BY <1>0 DEF Close
<1>2. opens >= 1 /\ AppTypes /\ FileTypes
  BY <1>1, TypeParts DEF FilesInv, HandleInv
<1>3. c \in Request
  <2>1. <<>> \in Seq(Units) /\ App \in Callers
    BY DEF Callers
  <2>2. QED
    BY <1>0, <1>2, <2>1, AskType
<1>4. c.handle = handle_ /\ c.opening = opens /\ c.op = "close" /\ c.by = App /\ c.at = "link"
  BY <1>0 DEF Ask
<1>5. HandleInv'
  BY <1>1, <1>3, <1>4, AskedStep
<1>6. \A q \in requests : q.op \notin AppOps
  BY <1>1 DEF FilesInv, RequestInv, GoodRequest, AppOps
<1>7. RequestInv'
  <2>1. GoodRequest(c)'
    <3>1. App \notin Readers /\ App \notin Pieces
      BY FilesAssumption DEF App, Pieces
    <3>2. opens <= opens
      BY <1>2 DEF AppTypes
    <3>3. QED
      BY <1>1, <1>4, <3>1, <3>2 DEF GoodRequest, AppOps, FileOps
  <2>2. \A q \in requests : GoodRequest(q)'
    BY <1>1, <1>6 DEF FilesInv, RequestInv, GoodRequest, AppOps
  <2>3. QED
    BY <1>1, <2>1, <2>2 DEF RequestInv
<1>8. OneAppRequest'
  BY <1>1, <1>6 DEF OneAppRequest
<1>9. TransferInv'
  BY <1>1, <1>4 DEF FilesInv, TransferInv, OfTransfer, fileVars, FileOps
<1>10. TypeOK'
  <2>0. cutOff' \in BOOLEAN
    BY Zenon DEF Close
  <2>1. AppTypes' /\ requests' \subseteq Request
    BY <1>1, <1>3, <2>0 DEF FilesInv, TypeOK, AppTypes
  <2>2. DirTypes' /\ FileTypes' /\ ServerTypes'
    BY <1>1, TypeParts DEF FilesInv, DirTypes, FileTypes, ServerTypes, dirVars, fileVars, serverVars
  <2>3. QED
    BY <2>1, <2>2 DEF TypeOK, AppTypes, DirTypes, FileTypes, ServerTypes
<1>11. QED
  BY <1>5, <1>7, <1>8, <1>9, <1>10 DEF FilesInv

LEMMA ReadFetchesStep ==
    ASSUME FilesInv, NEW r \in Readers, ReadFetches(r)
    PROVE  FilesInv'
<1>0. PICK c : c = Ask(r, "readdir", 0, 0, <<>>)
  OBVIOUS
<1>1. /\ app = "dir" /\ requests' = requests \cup {c}
      /\ reader' = [reader EXCEPT ![r] = [at |-> "waiting", ec |-> "success"]]
      /\ overlapped' \in BOOLEAN
      /\ UNCHANGED <<app, handle_, buffer_, listed, opens, cutOff>>
      /\ UNCHANGED fileVars /\ UNCHANGED serverVars
  <2>1. overlapped \in BOOLEAN
    BY DEF FilesInv, TypeOK
  <2>2. QED
    BY <1>0, <2>1 DEF ReadFetches
<1>2. opens >= 1 /\ AppTypes /\ FileTypes /\ DirTypes
  BY <1>1, TypeParts DEF FilesInv, HandleInv
<1>3. c \in Request
  <2>1. <<>> \in Seq(Units) /\ r \in Callers
    BY DEF Callers
  <2>2. QED
    BY <1>0, <1>2, <2>1, AskType
<1>4. c.handle = handle_ /\ c.opening = opens /\ c.op = "readdir" /\ c.by = r /\ c.at = "link"
      /\ c.data = <<>>
  BY <1>0 DEF Ask
<1>5. HandleInv'
  BY <1>1, <1>3, <1>4, AskedStep
<1>6. RequestInv'
  <2>1. GoodRequest(c)'
    <3>1. r # App /\ r \notin Pieces
      BY FilesAssumption
    <3>2. opens <= opens /\ <<>> \in Seq(1 .. Entries)
      BY <1>2 DEF AppTypes
    <3>3. QED
      BY <1>1, <1>4, <3>1, <3>2 DEF GoodRequest, AppOps, FileOps
  <2>2. \A q \in requests : GoodRequest(q)'
    BY <1>1 DEF FilesInv, RequestInv, GoodRequest
  <2>3. QED
    BY <1>1, <2>1, <2>2 DEF RequestInv
<1>7. OneAppRequest'
  BY <1>1, <1>4 DEF FilesInv, OneAppRequest, AppOps
<1>8. TransferInv'
  BY <1>1, <1>4 DEF FilesInv, TransferInv, OfTransfer, fileVars, serverVars, FileOps
<1>9. TypeOK'
  <2>1. AppTypes' /\ FileTypes' /\ ServerTypes' /\ requests' \subseteq Request
    BY <1>1, <1>3, TypeParts DEF FilesInv, AppTypes, FileTypes, ServerTypes, fileVars, serverVars
  <2>2. DirTypes'
    BY <1>1, <1>2 DEF DirTypes, Errors
  <2>3. QED
    BY <2>1, <2>2 DEF TypeOK, AppTypes, DirTypes, FileTypes, ServerTypes
<1>10. QED
  BY <1>5, <1>6, <1>7, <1>8, <1>9 DEF FilesInv

(* What a transfer asks for: a request for each of its buffers. *)
LEMMA PieceRequests ==
    ASSUME FilesInv, NEW kind \in {"read", "write"}, NEW offset \in Offsets,
           StartTransfer(kind, offset)
    PROVE  \E P : /\ requests' = requests \cup {P[k] : k \in Pieces}
                  /\ \A k \in Pieces :
                       /\ P[k] \in Request /\ P[k].by = k /\ P[k].op = kind
                       /\ P[k].opening = opens /\ P[k].transfer = transfers'
                       /\ P[k].handle = handle_ /\ P[k].at = "link" /\ P[k].total = 0
                       /\ P[k].offset = offset + Before(k) /\ P[k].size = Buffers[k]
                       /\ P[k].data = IF kind = "read" THEN <<>> ELSE Content(k)
<1> DEFINE D(k) == IF kind = "read" THEN <<>> ELSE Content(k)
           A(k) == Ask(k, kind, offset + Before(k), Buffers[k], D(k))
<1>1. PICK P : P = [k \in Pieces |-> [A(k) EXCEPT !.transfer = transfers']]
  OBVIOUS
<1>2. requests' = requests \cup {P[k] : k \in Pieces}
  <2>1. \A k \in Pieces : P[k] = [A(k) EXCEPT !.transfer = transfers']
    BY <1>1
  <2>2. requests' = requests \cup {[A(k) EXCEPT !.transfer = transfers'] : k \in Pieces}
    BY DEF StartTransfer
  <2> HIDE DEF A
  <2>3. QED
    BY <2>1, <2>2
<1>3. opens \in 1 .. MaxOpens /\ transfers' \in 0 .. MaxTransfers
      /\ handle_ \in Handles \cup {NoHandle}
  <2>1. /\ opens \in 0 .. MaxOpens /\ transfers \in 0 .. MaxTransfers
        /\ handle_ \in Handles \cup {NoHandle} /\ opens >= 1
        /\ transfers < MaxTransfers /\ transfers' = transfers + 1
    BY DEF FilesInv, TypeOK, HandleInv, StartTransfer
  <2>2. QED
    BY <2>1, FilesAssumption
<1>4. ASSUME NEW k \in Pieces
      PROVE  /\ P[k] \in Request /\ P[k].by = k /\ P[k].op = kind
             /\ P[k].opening = opens /\ P[k].transfer = transfers'
             /\ P[k].handle = handle_ /\ P[k].at = "link" /\ P[k].total = 0
             /\ P[k].offset = offset + Before(k) /\ P[k].size = Buffers[k]
             /\ P[k].data = D(k)
  <2>1. D(k) \in Seq(Units)
    <3>1. <<>> \in Seq(Units) /\ Content(k) \in Seq(Units)
      BY BufferType
    <3>2. QED
      BY <3>1
  <2>2. Buffers[k] \in Nat /\ offset + Before(k) \in Nat
    <3>1. Buffers[k] \in Nat /\ Before(k) \in Nat /\ offset \in Nat
      BY BufferType, FilesAssumption
    <3>2. QED
      BY <3>1
  <2>3. PICK d, o : d = D(k) /\ o = offset + Before(k)
    OBVIOUS
  <2>4. P[k] = [A(k) EXCEPT !.transfer = transfers']
    BY <1>1
  <2>5. A(k) = [by |-> k, opening |-> opens, transfer |-> transfers, op |-> kind,
                handle |-> handle_, offset |-> o, size |-> Buffers[k], data |-> d,
                at |-> "link", total |-> 0, ec |-> "success"]
    BY <2>3 DEF Ask
  <2> HIDE DEF A, D
  <2>6. P[k] = [by |-> k, opening |-> opens, transfer |-> transfers', op |-> kind,
                handle |-> handle_, offset |-> o, size |-> Buffers[k], data |-> d,
                at |-> "link", total |-> 0, ec |-> "success"]
    BY <2>4, <2>5
  <2>7. k \in Callers /\ d \in Seq(Units) /\ o \in Nat
    BY <2>1, <2>2, <2>3 DEF Callers
  <2>8. QED
    BY <1>3, <2>2, <2>3, <2>6, <2>7 DEF Request, Errors
<1>5. QED
  BY <1>2, <1>4

LEMMA StartTransferStep ==
    ASSUME FilesInv, NEW kind \in {"read", "write"}, NEW offset \in Offsets,
           StartTransfer(kind, offset)
    PROVE  FilesInv'
<1>1. /\ app = "file" /\ ~transfer.running /\ transfers < MaxTransfers
      /\ transfers' = transfers + 1
      /\ transfer' = [kind |-> kind, offset |-> offset, running |-> TRUE, n |-> 0]
      /\ piece' = NoPieces /\ UNCHANGED <<app, handle_, opens, cutOff>>
      /\ UNCHANGED dirVars /\ UNCHANGED serverVars
  BY DEF StartTransfer
<1>2. PICK P : /\ requests' = requests \cup {P[k] : k \in Pieces}
               /\ \A k \in Pieces :
                       /\ P[k] \in Request /\ P[k].by = k /\ P[k].op = kind
                       /\ P[k].opening = opens /\ P[k].transfer = transfers'
                       /\ P[k].handle = handle_ /\ P[k].at = "link" /\ P[k].total = 0
                       /\ P[k].size = Buffers[k]
                       /\ P[k].data = IF kind = "read" THEN <<>> ELSE Content(k)
  BY PieceRequests
<1>3. kind \in FileOps /\ kind \notin AppOps /\ kind # "readdir"
  BY DEF FileOps, AppOps
<1>4. RequestInv'
  <2>1. ASSUME NEW k \in Pieces PROVE GoodRequest(P[k])'
    <3>1. k # App /\ k \notin Readers
      BY FilesAssumption DEF App, Pieces
    <3>2. opens <= opens
      BY DEF FilesInv, TypeOK
    <3>3. kind = "write" => Len(P[k].data) = P[k].size /\ P[k].total <= P[k].size
      <4>1. Len(Content(k)) = Buffers[k] /\ Buffers[k] \in Nat
        BY BufferType
      <4>2. QED
        BY <1>2, <4>1
    <3>4. \A p : p = P[k] => GoodRequest(p)'
      BY <1>1, <1>2, <1>3, <3>1, <3>2, <3>3 DEF GoodRequest, AppOps, FileOps
    <3>5. QED
      BY <3>4
  <2>2. \A q \in requests : GoodRequest(q)'
    BY <1>1 DEF FilesInv, RequestInv, GoodRequest
  <2>3. QED
    BY <1>2, <2>1, <2>2 DEF RequestInv
<1>5. OneAppRequest'
  BY <1>2, <1>3 DEF FilesInv, OneAppRequest
<1>6. HandleInv'
  <2>1. \A h, o : Owned(h, o)' <=> Owned(h, o)
    BY <1>1 DEF Owned, serverVars
  <2>2. handle_[2] <= handle_gen /\ Owned(handle_, opens)
    BY DEF FilesInv, HandleInv
  <2>3. \A p \in requests : p.handle[2] <= handle_gen /\ Owned(p.handle, p.opening)
    BY DEF FilesInv, HandleInv
  <2>4. \A p \in requests' : p.handle[2] <= handle_gen /\ Owned(p.handle, p.opening)
    BY <1>2, <2>2, <2>3
  <2>5. Owned(handle_, opens)'
    BY <1>1, <2>2 DEF Owned, serverVars
  <2>6. \A p \in requests' : p.op \in {"open", "opendir"} /\ p.at = "link" => handle_gen < opens
    BY <1>2, <1>3 DEF FilesInv, HandleInv, AppOps
  <2>7. \A h \in DOMAIN open_files \cup DOMAIN dirs : h[2] <= handle_gen
    BY DEF FilesInv, HandleInv
  <2>8. \A h \in DOMAIN dirs : dirs[h] \in [opening : 1 .. opens, next : 1 .. Entries + 1]
    BY DEF FilesInv, HandleInv
  <2>9. handle_gen <= opens /\ (app # "nothing" => opens >= 1)
    BY DEF FilesInv, HandleInv
  <2>10. QED
    BY <1>1, <2>1, <2>2, <2>4, <2>5, <2>6, <2>7, <2>8, <2>9 DEF HandleInv, serverVars
<1>7. TransferInv'
  <2>1. ~cutOff => \A q \in requests : q.op \notin FileOps
    BY <1>1 DEF FilesInv, TransferInv, OfTransfer
  <2>2. ASSUME NEW k \in Pieces PROVE \A p : p = P[k] => OfTransfer(p)'
    BY <1>1, <1>2, <2>2 DEF OfTransfer, NoPieces
  <2>3. QED
    BY <1>1, <1>2, <2>1, <2>2 DEF TransferInv
<1>8. TypeOK'
  <2>1. FileTypes'
    <3>1. transfers' \in 0 .. MaxTransfers
      BY <1>1, FilesAssumption DEF FilesInv, TypeOK
    <3>2. offset \in Nat /\ <<>> \in Seq(Units)
      BY FilesAssumption
    <3>3. QED
      BY <1>1, <3>1, <3>2 DEF FileTypes, NoPieces, Errors
  <2>2. requests' \subseteq Request
    BY <1>2 DEF FilesInv, TypeOK
  <2>3. AppTypes' /\ DirTypes' /\ ServerTypes'
    BY <1>1, TypeParts DEF FilesInv, AppTypes, DirTypes, ServerTypes, dirVars, serverVars
  <2>4. QED
    BY <2>1, <2>2, <2>3 DEF TypeOK, AppTypes, DirTypes, FileTypes, ServerTypes
<1>9. QED
  BY <1>4, <1>5, <1>6, <1>7, <1>8 DEF FilesInv

-----------------------------------------------------------------------------
(* The invariant. *)

LEMMA FilesInit == Init => FilesInv
<1> SUFFICES ASSUME Init PROVE FilesInv
  OBVIOUS
<1>1. requests = {} /\ DOMAIN open_files = {} /\ DOMAIN dirs = {}
  BY DEF Init
<1>2. RequestInv /\ OneAppRequest
  BY <1>1 DEF RequestInv, OneAppRequest
<1>3. HandleInv
  BY <1>1 DEF Init, HandleInv, Owned, NoHandle
<1>4. TransferInv
  BY <1>1 DEF Init, TransferInv, NoTransfer
<1>5. disk \in Seq(Units)
  <2>1. disk \in [1 .. FileSize -> Int]
    BY DEF Init
  <2>2. QED
    BY <2>1, FilesAssumption DEF Units
<1>6. ServerTypes
  <2>1. handle_gen \in 0 .. MaxOpens
    BY FilesAssumption DEF Init
  <2>2. scanFailed \in BOOLEAN
    BY DEF Init
  <2>3. QED
    BY <1>1, <1>5, <2>1, <2>2 DEF ServerTypes
<1>7. AppTypes
  <2>1. opens \in 0 .. MaxOpens
    BY FilesAssumption DEF Init
  <2>2. cutOff \in BOOLEAN
    BY DEF Init
  <2>3. QED
    BY <2>1, <2>2 DEF Init, AppTypes
<1>8. DirTypes
  <2>1. NotReading \in [Readers ->
                          [at : {"idle", "waiting", "completed", "stopped"}, ec : Errors]]
    BY DEF NotReading, Errors
  <2>2. <<>> \in Seq(1 .. Entries) /\ <<>> \in Seq(Listing)
    OBVIOUS
  <2>3. QED
    BY <2>1, <2>2 DEF Init, DirTypes
<1>9. FileTypes
  BY FilesAssumption DEF Init, FileTypes, NoTransfer, NoPieces, Errors
<1>10. QED
  BY <1>1, <1>2, <1>3, <1>4, <1>6, <1>7, <1>8, <1>9, TypeParts DEF FilesInv

LEMMA FilesStep == FilesInv /\ [Next]_vars => FilesInv'
<1> SUFFICES ASSUME FilesInv, [Next]_vars PROVE FilesInv'
  OBVIOUS
<1>1. ASSUME NEW op \in {"open", "opendir"}, Open(op) PROVE FilesInv'
  BY <1>1, OpenStep
<1>2. CASE Close
  BY <1>2, CloseStep
<1>3. ASSUME NEW r \in Readers,
             ReadBuffered(r) \/ ReadFetches(r) \/ ReadReturns(r) \/ ReadCancelled(r)
      PROVE  FilesInv'
  BY <1>3, ResumeStep, ReadFetchesStep
<1>4. ASSUME NEW kind \in {"read", "write"}, NEW offset \in Offsets,
             StartTransfer(kind, offset)
      PROVE  FilesInv'
  BY <1>4, StartTransferStep
<1>5. CASE TransferReturns \/ TransferCancelled
  BY <1>5, TransferEndsStep
<1>6. ASSUME NEW q \in requests, Opened(q) \/ Closed(q) PROVE FilesInv'
  BY <1>6, AppAnswered
<1>7. ASSUME NEW q \in requests, NEW r \in Readers, EntriesArrive(r, q) PROVE FilesInv'
  BY <1>7, EntriesArriveStep
<1>8. ASSUME NEW q \in requests, NEW k \in Pieces, PieceReturns(k, q) PROVE FilesInv'
  BY <1>8, PieceReturnsStep
<1>9. ASSUME NEW q \in requests,
             open(q) \/ close(q) \/ readdir(q) \/ find(q) \/ read_at(q) \/ write_at(q)
      PROVE  FilesInv'
  BY <1>9, OpenServed, CloseServed, ReaddirStep, FindStep, ReadAtStep, WriteAtStep
<1>10. CASE UNCHANGED vars
  BY <1>10 DEF FilesInv, TypeOK, RequestInv, GoodRequest, OneAppRequest, HandleInv, Owned,
               TransferInv, OfTransfer, vars, dirVars, fileVars, serverVars
<1>11. QED
  BY <1>1, <1>2, <1>3, <1>4, <1>5, <1>6, <1>7, <1>8, <1>9, <1>10 DEF Next

(* FilesInv holds always. *)
LEMMA FilesAlways == Spec => []FilesInv
BY FilesInit, FilesStep, PTL DEF Spec

(***************************************************************************)
(* The types: handle_gen stays within the openings, though the server      *)
(* counts it; a packet's entries and a batch are entries of the directory; *)
(* and what read_at and write_at make of the file is a file.               *)
(***************************************************************************)
THEOREM TypeCorrect == Spec => []TypeOK
<1>1. FilesInv => TypeOK
  BY DEF FilesInv
<1>2. QED
  BY <1>1, FilesAlways, PTL

(***************************************************************************)
(* sftp_server finds, by the handle, what the request was made for, or     *)
(* nothing: however often files and directories are opened and closed,     *)
(* also under calls that wait, and however late the request is served.     *)
(***************************************************************************)
THEOREM HandlesNotReused == Spec => []OwnHandle
<1>1. FilesInv => OwnHandle
  BY DEF FilesInv, OwnHandle, HandleInv, Owned
<1>2. QED
  BY <1>1, FilesAlways, PTL

-----------------------------------------------------------------------------
(* What a transfer moves. *)

(* Where the k-th buffer of the transfer is in the file. *)
Base(k) == transfer.offset + Before(k)

(* The first m of these units are in the file, after base. *)
Agree(units, base, m) ==
    \A j \in 1 .. m : base + j <= Len(disk) /\ units[j] = disk[base + j]

(* A request of the transfer has moved what it says it has. *)
InPlace(q) ==
    /\ q.op = transfer.kind /\ q.offset = Base(q.by) /\ q.size = Buffers[q.by]
    /\ q.total <= q.size
    /\ q.op = "read" => Len(q.data) = q.total
    /\ q.op = "write" => q.data = Content(q.by)
    /\ Agree(q.data, q.offset, q.total)
    /\ q.at = "answered" /\ q.ec = "success" =>
          q.total = q.size \/ (q.op = "read" /\ Len(disk) <= q.offset + q.total)

(* And so has the task of a buffer that is done. *)
Arrived(k) ==
    /\ transfer.kind = "read" /\ piece[k].ec = "success" =>
          /\ piece[k].n = Len(piece[k].into) /\ piece[k].n <= Buffers[k]
          /\ Agree(piece[k].into, Base(k), piece[k].n)
          /\ piece[k].n = Buffers[k] \/ Len(disk) <= Base(k) + piece[k].n
    /\ transfer.kind = "write" /\ piece[k].n # 0 =>
          piece[k].n = Buffers[k] /\ Agree(Content(k), Base(k), Buffers[k])

(* What a transfer that is over has returned. *)
Counted ==
    ~transfer.running /\ transfer.kind # "none" =>
        AllDone /\ transfer.n = Sums([k \in Pieces |-> piece[k].n])[Len(Buffers)]

DataInv ==
    ~cutOff =>
        /\ \A q \in requests : q.op \in FileOps => InPlace(q)
        /\ \A k \in Pieces : piece[k].done => Arrived(k)
        /\ Counted

MoveInv == FilesInv /\ DataInv

(* Steps that move nothing. *)
LEMMA SameData ==
    ASSUME DataInv, UNCHANGED <<transfer, piece, disk>>, ~cutOff' => ~cutOff,
           \A q \in requests' : q.op \in FileOps => q \in requests
    PROVE  DataInv'
BY DEF DataInv, InPlace, Arrived, Base, Agree, Counted, AllDone

LEMMA DirData ==
    ASSUME MoveInv, NEW r \in Readers,
           \/ ReadBuffered(r) \/ ReadFetches(r) \/ ReadReturns(r) \/ ReadCancelled(r)
           \/ \E q \in requests : EntriesArrive(r, q)
    PROVE  DataInv'
<1>1. CASE ReadCancelled(r)
  BY <1>1 DEF ReadCancelled, DataInv
<1>2. CASE ReadFetches(r)
  <2>1. Ask(r, "readdir", 0, 0, <<>>).op \notin FileOps
    BY DEF Ask, FileOps
  <2>2. QED
    BY <1>2, <2>1, SameData DEF MoveInv, ReadFetches, fileVars, serverVars
<1>3. CASE \/ ReadBuffered(r) \/ ReadReturns(r)
           \/ \E q \in requests : EntriesArrive(r, q)
  <2>1. UNCHANGED <<transfer, piece, disk, cutOff>> /\ requests' \subseteq requests
    BY <1>3 DEF ReadBuffered, ReadReturns, EntriesArrive, Answered, fileVars, serverVars
  <2>2. QED
    BY <2>1, SameData DEF MoveInv
<1>4. QED
  BY <1>1, <1>2, <1>3

LEMMA AppData ==
    ASSUME MoveInv, Close \/ \E q \in requests : Opened(q) \/ Closed(q)
    PROVE  DataInv'
<1>1. CASE Close
  <2>1. Ask(App, "close", 0, 0, <<>>).op \notin FileOps
    BY DEF Ask, FileOps
  <2>2. QED
    BY <1>1, <2>1, SameData DEF MoveInv, Close, fileVars, serverVars
<1>2. CASE \E q \in requests : Opened(q) \/ Closed(q)
  <2>1. UNCHANGED <<transfer, piece, disk, cutOff>> /\ requests' \subseteq requests
    BY <1>2 DEF Opened, Closed, Answered, fileVars, serverVars
  <2>2. QED
    BY <2>1, SameData DEF MoveInv
<1>3. QED
  BY <1>1, <1>2

LEMMA OpenData ==
    ASSUME MoveInv, NEW op \in {"open", "opendir"}, Open(op)
    PROVE  DataInv'
<1>1. FilesInv /\ DataInv
  BY DEF MoveInv
<1>2. PICK c : c = [Ask(App, op, 0, 0, <<>>) EXCEPT
                       !.opening = opens', !.transfer = 0, !.handle = NoHandle]
  OBVIOUS
<1>3. /\ c.op = op /\ transfer' = NoTransfer /\ piece' = NoPieces /\ app = "nothing"
      /\ requests' = {q \in requests : q.at # "answered"} \cup {c} /\ UNCHANGED cutOff
  BY <1>2 DEF Open, Ask
<1>4. ~cutOff => \A q \in requests' : q.op \notin FileOps
  BY <1>1, <1>3 DEF FilesInv, TransferInv, OfTransfer, FileOps
<1>5. \A k \in Pieces : ~piece'[k].done
  BY <1>3 DEF NoPieces
<1>6. Counted'
  BY <1>3 DEF Counted, NoTransfer
<1>7. QED
  BY <1>3, <1>4, <1>5, <1>6 DEF DataInv

(* The server's steps on handles. *)
LEMMA HandleData ==
    ASSUME MoveInv, NEW q \in requests, open(q) \/ close(q) \/ readdir(q)
    PROVE  DataInv'
<1>1. FilesInv /\ DataInv /\ q \in Request
  BY DEF MoveInv, FilesInv, TypeOK
<1>2. q.op \notin FileOps /\ UNCHANGED disk
  BY DEF open, close, readdir, Begin, FileOps
<1>3. ASSUME NEW c, Becomes(q, c), c.op = q.op PROVE DataInv'
  <2>1. UNCHANGED <<transfer, piece, disk, cutOff>> /\ requests' = (requests \ {q}) \cup {c}
    BY <1>2, <1>3 DEF Becomes, fileVars
  <2>2. QED
    BY <1>1, <1>2, <1>3, <2>1, SameData
<1>4. ASSUME NEW ec, Reply(q, ec) PROVE DataInv'
  <2>1. PICK c : c = [q EXCEPT !.at = "answered", !.ec = ec]
    OBVIOUS
  <2>2. c.op = q.op /\ Becomes(q, c)
    BY <1>1, <1>4, <2>1 DEF Request, Reply
  <2>3. QED
    BY <1>3, <2>2
<1>5. CASE close(q)
  BY <1>4, <1>5 DEF close
<1>6. CASE open(q)
  <2>1. \/ Reply(q, "error")
        \/ \E h \in Handles : Becomes(q, [q EXCEPT !.at = "answered", !.handle = h])
    BY <1>1, <1>6, OpenCases
  <2>2. ASSUME NEW h \in Handles, Becomes(q, [q EXCEPT !.at = "answered", !.handle = h])
        PROVE  DataInv'
    <3>1. PICK c : c = [q EXCEPT !.at = "answered", !.handle = h]
      OBVIOUS
    <3>2. c.op = q.op
      BY <1>1, <3>1 DEF Request
    <3>3. QED
      BY <1>3, <2>2, <3>1, <3>2
  <2>3. QED
    BY <1>4, <2>1, <2>2
<1>7. CASE readdir(q)
  <2>1. \/ \E ec \in Errors : Reply(q, ec)
        \/ \E d : Becomes(q, [q EXCEPT !.at = "answered", !.data = d])
    BY <1>1, <1>7, ReaddirCases
  <2>2. ASSUME NEW d, Becomes(q, [q EXCEPT !.at = "answered", !.data = d])
        PROVE  DataInv'
    <3>1. PICK c : c = [q EXCEPT !.at = "answered", !.data = d]
      OBVIOUS
    <3>2. c.op = q.op
      BY <1>1, <3>1 DEF Request
    <3>3. QED
      BY <1>3, <2>2, <3>1, <3>2
  <2>3. QED
    BY <1>4, <2>1, <2>2
<1>8. QED
  BY <1>5, <1>6, <1>7

LEMMA StartTransferData ==
    ASSUME MoveInv, NEW kind \in {"read", "write"}, NEW offset \in Offsets,
           StartTransfer(kind, offset)
    PROVE  DataInv'
<1>1. FilesInv /\ DataInv
  BY DEF MoveInv
<1>2. /\ transfer' = [kind |-> kind, offset |-> offset, running |-> TRUE, n |-> 0]
      /\ piece' = NoPieces /\ UNCHANGED <<cutOff, disk>> /\ ~transfer.running
  BY DEF StartTransfer, serverVars
<1>3. PICK P : /\ requests' = requests \cup {P[k] : k \in Pieces}
               /\ \A k \in Pieces :
                       /\ P[k].by = k /\ P[k].op = kind /\ P[k].at = "link" /\ P[k].total = 0
                       /\ P[k].offset = offset + Before(k) /\ P[k].size = Buffers[k]
                       /\ P[k].data = IF kind = "read" THEN <<>> ELSE Content(k)
  BY <1>1, PieceRequests
<1>4. ~cutOff => \A q \in requests : q.op \notin FileOps
  BY <1>1, <1>2 DEF FilesInv, TransferInv, OfTransfer
<1>5. ASSUME NEW k \in Pieces, NEW p, p = P[k] PROVE InPlace(p)'
  <2>1. p.by = k /\ p.op = kind /\ p.at = "link" /\ p.total = 0
        /\ p.offset = offset + Before(k) /\ p.size = Buffers[k]
        /\ p.data = IF kind = "read" THEN <<>> ELSE Content(k)
    BY <1>3, <1>5
  <2>2. Base(k)' = offset + Before(k) /\ transfer'.kind = kind
    BY <1>2 DEF Base
  <2>3. Agree(p.data, p.offset, p.total)'
    BY <2>1 DEF Agree
  <2>4. Buffers[k] \in Nat
    BY BufferType
  <2>5. Len(<<>>) = 0
    OBVIOUS
  <2>6. QED
    BY <2>1, <2>2, <2>3, <2>4, <2>5 DEF InPlace
<1>6. \A k \in Pieces : ~piece'[k].done
  BY <1>2 DEF NoPieces
<1>7. Counted'
  BY <1>2 DEF Counted
<1>8. ~cutOff => \A q \in requests' : q.op \in FileOps => InPlace(q)'
  BY <1>3, <1>4, <1>5
<1>9. QED
  BY <1>2, <1>6, <1>7, <1>8 DEF DataInv

LEMMA PieceReturnsData ==
    ASSUME MoveInv, NEW k \in Pieces, NEW q \in requests, PieceReturns(k, q)
    PROVE  DataInv'
<1>1. FilesInv /\ DataInv /\ q \in Request
  BY DEF MoveInv, FilesInv, TypeOK
<1>2. /\ UNCHANGED <<transfer, disk, cutOff>> /\ requests' = requests \ {q} /\ q.by = k
      /\ transfer.running /\ q.at = "answered"
  BY DEF PieceReturns, Answered, serverVars
<1>3. q.op \in FileOps
  BY <1>1, <1>2 DEF FilesInv, RequestInv, GoodRequest
<1>4. piece'[k] = [done |-> TRUE, ec |-> q.ec,
                   n |-> IF q.ec = "success" THEN Len(q.data) ELSE 0,
                   into |-> IF q.op = "read" /\ q.ec = "success" THEN q.data ELSE <<>>]
      /\ \A j \in Pieces \ {k} : piece'[j] = piece[j]
  <2>1. DOMAIN piece = Pieces
    BY <1>1 DEF FilesInv, TypeOK
  <2>2. QED
    BY <2>1 DEF PieceReturns
<1>5. ASSUME ~cutOff PROVE Arrived(k)'
  <2>1. InPlace(q) /\ q.offset = Base(k) /\ q.size = Buffers[k]
    BY <1>1, <1>2, <1>3, <1>5 DEF DataInv, InPlace
  <2>2. Base(k)' = Base(k) /\ transfer'.kind = q.op
    BY <1>2, <2>1 DEF Base, InPlace
  <2>3. CASE q.op = "read" /\ q.ec = "success"
    <3>1. PICK b, t : b = Base(k) /\ t = q.total
      OBVIOUS
    <3>2. piece'[k].n = t /\ piece'[k].into = q.data /\ Len(q.data) = t
      BY <1>4, <2>1, <2>3, <3>1 DEF InPlace
    <3>3. t <= Buffers[k] /\ Agree(q.data, b, t) /\ (t = Buffers[k] \/ Len(disk) <= b + t)
      BY <1>2, <2>1, <2>3, <3>1 DEF InPlace
    <3>4. Agree(piece[k].into, Base(k), piece[k].n)'
      BY <1>2, <2>2, <3>1, <3>2, <3>3 DEF Agree
    <3>5. QED
      BY <1>2, <2>2, <2>3, <3>1, <3>2, <3>3, <3>4 DEF Arrived
  <2>4. CASE q.op = "read" /\ q.ec # "success"
    BY <1>4, <2>2, <2>4 DEF Arrived
  <2>5. CASE q.op = "write" /\ q.ec = "success"
    <3>1. PICK b : b = Base(k)
      OBVIOUS
    <3>2. q.total = q.size /\ q.data = Content(k) /\ Agree(Content(k), b, Buffers[k])
      BY <1>2, <2>1, <2>5, <3>1 DEF InPlace
    <3>3. piece'[k].n = Buffers[k]
      <4>1. Len(Content(k)) = Buffers[k]
        BY BufferType
      <4>2. QED
        BY <1>4, <2>5, <3>2, <4>1
    <3>4. Agree(Content(k), Base(k), Buffers[k])'
      BY <1>2, <2>2, <3>1, <3>2 DEF Agree
    <3>5. QED
      BY <2>2, <2>5, <3>3, <3>4 DEF Arrived
  <2>6. CASE q.op = "write" /\ q.ec # "success"
    <3>1. piece'[k].n = 0
      BY <1>4, <2>6
    <3>2. QED
      BY <2>2, <2>6, <3>1 DEF Arrived
  <2>7. QED
    BY <1>3, <2>3, <2>4, <2>5, <2>6 DEF FileOps
<1>6. ASSUME ~cutOff, NEW j \in Pieces, j # k, piece'[j].done PROVE Arrived(j)'
  <2>1. piece'[j] = piece[j] /\ Arrived(j)
    BY <1>1, <1>4, <1>6 DEF DataInv
  <2>2. QED
    BY <1>2, <2>1 DEF Arrived, Base, Agree
<1>7. ASSUME ~cutOff, NEW p \in requests', p.op \in FileOps PROVE InPlace(p)'
  <2>1. InPlace(p)
    BY <1>1, <1>2, <1>7 DEF DataInv
  <2>2. QED
    BY <1>2, <2>1 DEF InPlace, Base, Agree
<1>8. Counted'
  BY <1>2 DEF Counted
<1>9. QED
  BY <1>2, <1>5, <1>6, <1>7, <1>8 DEF DataInv

LEMMA TransferEndsData ==
    ASSUME MoveInv, TransferReturns \/ TransferCancelled
    PROVE  DataInv'
<1>1. CASE TransferCancelled
  BY <1>1 DEF TransferCancelled, DataInv
<1>2. CASE TransferReturns
  <2>1. FilesInv /\ DataInv
    BY DEF MoveInv
  <2>2. /\ UNCHANGED <<piece, disk, cutOff, requests>> /\ AllDone
        /\ transfer' = [transfer EXCEPT !.running = FALSE,
                                    !.n = Sums([k \in Pieces |-> piece[k].n])[Len(Buffers)]]
    BY <1>2 DEF TransferReturns, serverVars
  <2>3. PICK n : n = Sums([k \in Pieces |-> piece[k].n])[Len(Buffers)]
    OBVIOUS
  <2>4. /\ transfer'.kind = transfer.kind /\ transfer'.offset = transfer.offset
        /\ transfer'.n = n
    <3>1. transfer' = [transfer EXCEPT !.running = FALSE, !.n = n]
      BY <2>2, <2>3, Zenon
    <3>2. QED
      BY <2>1, <3>1 DEF FilesInv, TypeOK
  <2>5. Counted'
    <3>1. transfer'.n = Sums([k \in Pieces |-> piece'[k].n])[Len(Buffers)] /\ AllDone'
      BY <2>2, <2>3, <2>4 DEF AllDone
    <3>2. QED
      BY <3>1 DEF Counted
  <2>6. \A p \in requests' : InPlace(p) => InPlace(p)'
    BY <2>2, <2>4 DEF InPlace, Base, Agree
  <2>7. \A k \in Pieces : Arrived(k) => Arrived(k)'
    BY <2>2, <2>4 DEF Arrived, Base, Agree
  <2>8. QED
    BY <2>1, <2>2, <2>5, <2>6, <2>7 DEF DataInv
<1>3. QED
  BY <1>1, <1>2

(* A request goes on without writing. *)
LEMMA FurtherData ==
    ASSUME MoveInv, NEW q \in requests, NEW c, Becomes(q, c), UNCHANGED disk,
           ~cutOff => InPlace(c)
    PROVE  DataInv'
<1>1. FilesInv /\ DataInv
  BY DEF MoveInv
<1>2. UNCHANGED <<transfer, piece, disk, cutOff>> /\ requests' = (requests \ {q}) \cup {c}
  BY DEF Becomes, fileVars
<1>3. \A p : InPlace(p) => InPlace(p)'
  BY <1>2 DEF InPlace, Base, Agree
<1>4. ~cutOff => \A p \in requests' : p.op \in FileOps => InPlace(p)'
  BY <1>1, <1>2, <1>3 DEF DataInv
<1>5. \A k \in Pieces : Arrived(k) => Arrived(k)'
  BY <1>2 DEF Arrived, Base, Agree
<1>6. Counted => Counted'
  BY <1>2 DEF Counted, AllDone
<1>7. QED
  BY <1>1, <1>2, <1>4, <1>5, <1>6 DEF DataInv

(* It fails, or is only found. *)
LEMMA StandsData ==
    ASSUME MoveInv, NEW q \in requests, q.op \in FileOps, NEW c, Becomes(q, c), UNCHANGED disk,
           c.by = q.by, c.op = q.op, c.offset = q.offset, c.size = q.size, c.data = q.data,
           c.total = q.total,
           ~cutOff /\ c.at = "answered" /\ c.ec = "success" =>
              q.total = q.size \/ (q.op = "read" /\ Len(disk) <= q.offset + q.total)
    PROVE  DataInv'
<1>1. ~cutOff => InPlace(q)
  BY DEF MoveInv, DataInv
<1>2. ~cutOff => InPlace(c)
  BY <1>1 DEF InPlace
<1>3. QED
  BY <1>2, FurtherData

LEMMA FindData ==
    ASSUME MoveInv, NEW q \in requests, find(q)
    PROVE  DataInv'
<1>1. q \in Request /\ q.op \in FileOps /\ UNCHANGED disk
  BY DEF MoveInv, FilesInv, TypeOK, find, Begin, FileOps, serverVars
<1>2. CASE q.handle \in DOMAIN open_files
  <2>1. PICK c : c = [q EXCEPT !.at = "serving"]
    OBVIOUS
  <2>2. /\ c.by = q.by /\ c.op = q.op /\ c.offset = q.offset /\ c.size = q.size
        /\ c.data = q.data /\ c.total = q.total /\ c.at = "serving"
    BY <1>1, <2>1 DEF Request
  <2>3. Becomes(q, c)
    BY <1>2, <2>1 DEF find
  <2>4. QED
    BY <1>1, <2>2, <2>3, StandsData
<1>3. CASE q.handle \notin DOMAIN open_files
  <2>1. PICK c : c = [q EXCEPT !.at = "answered", !.ec = "error"]
    OBVIOUS
  <2>2. /\ c.by = q.by /\ c.op = q.op /\ c.offset = q.offset /\ c.size = q.size
        /\ c.data = q.data /\ c.total = q.total /\ c.ec = "error"
    BY <1>1, <2>1 DEF Request
  <2>3. Becomes(q, c)
    BY <1>3, <2>1 DEF find, Reply
  <2>4. QED
    BY <1>1, <2>2, <2>3, StandsData
<1>4. QED
  BY <1>2, <1>3

(* An answer of read_at or write_at. *)
LEMMA ReplyData ==
    ASSUME MoveInv, NEW q \in requests, q.op \in FileOps, NEW ec, Reply(q, ec), UNCHANGED disk,
           ~cutOff /\ ec = "success" =>
              q.total = q.size \/ (q.op = "read" /\ Len(disk) <= q.offset + q.total)
    PROVE  DataInv'
<1>1. q \in Request
  BY DEF MoveInv, FilesInv, TypeOK
<1>2. PICK c : c = [q EXCEPT !.at = "answered", !.ec = ec]
  OBVIOUS
<1>3. /\ c.by = q.by /\ c.op = q.op /\ c.offset = q.offset /\ c.size = q.size
      /\ c.data = q.data /\ c.total = q.total /\ c.ec = ec
  BY <1>1, <1>2 DEF Request
<1>4. Becomes(q, c)
  BY <1>2 DEF Reply
<1>5. QED
  BY <1>3, <1>4, StandsData

(* What read_at finds to read. *)
LEMMA ReadThere ==
    ASSUME NEW a \in Int, NEW b \in Int
    PROVE  LET there == Min({a, Max({0, b})})
           IN  /\ there \in Int /\ there <= a
               /\ there = 0 /\ a >= 0 => a = 0 \/ b <= 0
               /\ \A n \in 1 .. there : n <= b
<1>1. PICK m : m = Max({0, b})
  OBVIOUS
<1>2. m \in {0, b} /\ m \in Int
  BY <1>1, Room, Zenon
<1>3. 0 \in Int
  OBVIOUS
<1>4. m >= b /\ m >= 0
  BY <1>1, <1>3, MinMax, Zenon
<1>5. PICK t : t = Min({a, m})
  OBVIOUS
<1>6. t \in {a, m} /\ t <= a /\ t <= m
  BY <1>2, <1>5, MinMax, Zenon
<1>7. t \in Int /\ (t = 0 /\ a >= 0 => a = 0 \/ b <= 0) /\ \A n \in 1 .. t : n <= b
  BY <1>2, <1>4, <1>6
<1>8. t = Min({a, Max({0, b})})
  BY <1>1, <1>5, Zenon
<1>9. QED
  BY <1>6, <1>7, <1>8, Zenon

LEMMA ReadAtData ==
    ASSUME MoveInv, NEW q \in requests, read_at(q)
    PROVE  DataInv'
<1>1. q \in Request /\ q.op = "read" /\ q.op \in FileOps /\ UNCHANGED disk /\ disk \in Seq(Units)
  BY DEF MoveInv, FilesInv, TypeOK, read_at, Serving, FileOps, serverVars
<1>2. /\ q.size \in Nat /\ q.total \in Nat /\ q.offset \in Nat /\ q.data \in Seq(Units)
      /\ Len(disk) \in Nat /\ Position(q) = q.offset + q.total
  BY <1>1 DEF Request, Position
<1>3. CASE cutOff
  <2>1. cutOff' = cutOff
    BY DEF read_at, Reply, Becomes
  <2>2. QED
    BY <1>3, <2>1 DEF DataInv
<1>4. CASE ~cutOff
  <2>1. InPlace(q)
    BY <1>1, <1>4 DEF MoveInv, DataInv
  <2>2. PICK there : there = Min({q.size - q.total, Max({0, Len(disk) - Position(q)})})
    OBVIOUS
  <2>3. q.total <= q.size /\ Len(q.data) = q.total
    BY <1>1, <2>1 DEF InPlace
  <2>4. /\ there \in Int /\ there <= q.size - q.total
        /\ there = 0 /\ q.size - q.total >= 0 =>
              q.size - q.total = 0 \/ Len(disk) - Position(q) <= 0
        /\ \A n \in 1 .. there : n <= Len(disk) - Position(q)
    <3>1. q.size - q.total \in Int /\ Len(disk) - Position(q) \in Int
      BY <1>2
    <3>2. QED
      BY <2>2, <3>1, ReadThere, Zenon
  <2>5. \/ there = 0 /\ Reply(q, "success")
        \/ \E n \in 1 .. there :
              Becomes(q, [q EXCEPT
                             !.total = @ + n,
                             !.data = @ \o SubSeq(disk, Position(q) + 1, Position(q) + n)])
        \/ Reply(q, "error")
    BY <2>2 DEF read_at
  <2>6. CASE Reply(q, "error")
    BY <1>1, <2>6, ReplyData
  <2>7. CASE there = 0 /\ Reply(q, "success")
    <3>1. q.total = q.size \/ Len(disk) <= q.offset + q.total
      BY <1>2, <2>3, <2>4, <2>7
    <3>2. QED
      BY <1>1, <2>7, <3>1, ReplyData
  <2>8. ASSUME NEW n \in 1 .. there,
               Becomes(q, [q EXCEPT
                             !.total = @ + n,
                             !.data = @ \o SubSeq(disk, Position(q) + 1, Position(q) + n)])
        PROVE  DataInv'
    <3>1. PICK u, t, o : u = SubSeq(disk, Position(q) + 1, Position(q) + n) /\ t = q.total
                         /\ o = q.offset
      OBVIOUS
    <3>2. PICK d : d = q.data \o u
      OBVIOUS
    <3>3. PICK c : c = [q EXCEPT !.total = t + n, !.data = d]
      OBVIOUS
    <3>4. n \in Nat /\ t \in Nat /\ o \in Nat /\ o + t + n <= Len(disk) /\ t + n <= q.size
          /\ Position(q) = o + t
      BY <1>2, <2>4, <3>1
    <3>5. /\ u \in Seq(Units) /\ Len(u) = n
          /\ \A i \in 1 .. n : u[i] = disk[o + t + i]
      <4>1. \A i \in o + t + 1 .. o + t + n : i \in 1 .. Len(disk)
        BY <1>2, <3>4
      <4>2. \A i \in o + t + 1 .. o + t + n : disk[i] \in Units
        BY <1>1, <4>1
      <4>3. o + t + 1 \in Int /\ o + t + n \in Int
        BY <3>4
      <4>4. u = SubSeq(disk, o + t + 1, o + t + n)
        BY <3>1, <3>4
      <4>5. /\ u \in Seq(Units)
            /\ Len(u) = IF o + t + 1 <= o + t + n THEN (o + t + n) - (o + t + 1) + 1 ELSE 0
            /\ \A i \in 1 .. (o + t + n) - (o + t + 1) + 1 : u[i] = disk[(o + t + 1) + i - 1]
        BY <4>2, <4>3, <4>4, SubSeqProperties
      <4>6. (o + t + n) - (o + t + 1) + 1 = n /\ o + t + 1 <= o + t + n
        BY <3>4
      <4>7. \A i \in 1 .. n : (o + t + 1) + i - 1 = o + t + i
        BY <3>4
      <4>8. QED
        BY <4>5, <4>6, <4>7
    <3>6. /\ Len(d) = t + n
          /\ \A j \in 1 .. t : d[j] = q.data[j]
          /\ \A j \in t + 1 .. t + n : d[j] = u[j - t]
      <4>1. /\ Len(d) = Len(q.data) + Len(u)
            /\ \A j \in 1 .. Len(q.data) + Len(u) :
                 d[j] = IF j <= Len(q.data) THEN q.data[j] ELSE u[j - Len(q.data)]
        BY <1>2, <3>2, <3>5, ConcatProperties
      <4>2. Len(q.data) = t /\ Len(u) = n
        BY <2>3, <3>1, <3>5
      <4>3. \A j \in 1 .. t : j \in 1 .. t + n /\ j <= t
        BY <3>4
      <4>4. \A j \in t + 1 .. t + n : j \in 1 .. t + n /\ ~(j <= t)
        BY <3>4
      <4>5. QED
        BY <4>1, <4>2, <4>3, <4>4
    <3>7. Agree(d, o, t + n)
      <4> SUFFICES ASSUME NEW j \in 1 .. t + n PROVE o + j <= Len(disk) /\ d[j] = disk[o + j]
        BY DEF Agree
      <4>1. CASE j <= t
        <5>1. j \in 1 .. t
          BY <3>4, <4>1
        <5>2. Agree(q.data, o, t)
          BY <2>1, <3>1 DEF InPlace
        <5>3. QED
          BY <3>6, <5>1, <5>2 DEF Agree
      <4>2. CASE ~(j <= t)
        <5>1. j \in t + 1 .. t + n /\ j - t \in 1 .. n /\ o + t + (j - t) = o + j
              /\ o + j <= Len(disk)
          BY <1>2, <3>4, <4>2
        <5>2. d[j] = u[j - t] /\ u[j - t] = disk[o + t + (j - t)]
          BY <3>5, <3>6, <5>1
        <5>3. QED
          BY <5>1, <5>2
      <4>3. QED
        BY <4>1, <4>2
    <3>8. Becomes(q, c)
      BY <2>8, <3>1, <3>2, <3>3
    <3>9. /\ c.by = q.by /\ c.op = q.op /\ c.offset = o /\ c.size = q.size /\ c.data = d
          /\ c.total = t + n /\ c.at = "serving"
      <4>1. q.at = "serving"
        BY DEF read_at, Serving
      <4>2. QED
        BY <1>1, <3>1, <3>3, <4>1 DEF Request
    <3>10. InPlace(c)
      BY <1>1, <2>1, <3>1, <3>4, <3>6, <3>7, <3>9 DEF InPlace
    <3>11. QED
      BY <1>1, <3>8, <3>10, FurtherData
  <2>9. QED
    BY <2>5, <2>6, <2>7, <2>8
<1>5. QED
  BY <1>3, <1>4

(* The buffers of a transfer do not overlap in the file. *)
LEMMA BuffersApart ==
    ASSUME NEW k \in Pieces, NEW l \in Pieces, k # l,
           NEW i \in 1 .. Buffers[k], NEW j \in 1 .. Buffers[l]
    PROVE  Before(k) + i # Before(l) + j
<1>1. ASSUME NEW a \in Pieces, NEW b \in Pieces, a < b PROVE Before(a) + Buffers[a] <= Before(b)
  <2>1. a \in 1 .. Len(Buffers) /\ b - 1 \in a .. Len(Buffers) /\ a \in 0 .. Len(Buffers)
    BY <1>1, BufferType DEF Pieces
  <2>2. Sums(Buffers)[a] = Sums(Buffers)[a - 1] + Buffers[a]
    BY <2>1, BufferType, SumsRecursion
  <2>3. Sums(Buffers)[a] <= Sums(Buffers)[b - 1]
    BY <2>1, BufferType, SumsGrow
  <2>4. QED
    BY <2>2, <2>3 DEF Before
<1>2. /\ Before(k) \in Nat /\ Before(l) \in Nat /\ Buffers[k] \in Nat /\ Buffers[l] \in Nat
      /\ k \in Int /\ l \in Int
  BY BufferType DEF Pieces
<1>3. CASE k < l
  <2>1. Before(k) + Buffers[k] <= Before(l)
    BY <1>1, <1>3
  <2>2. QED
    BY <1>2, <2>1
<1>4. CASE l < k
  <2>1. Before(l) + Buffers[l] <= Before(k)
    BY <1>1, <1>4
  <2>2. QED
    BY <1>2, <2>1
<1>5. QED
  BY <1>2, <1>3, <1>4

(* A write to the k-th buffer's place leaves alone what is in the l-th's. *)
LEMMA PutKeeps ==
    ASSUME NEW k \in Pieces, NEW l \in Pieces, k # l, NEW o \in Nat,
           disk \in Seq(Units), NEW t \in Nat, NEW u \in Seq(Units), t + Len(u) <= Buffers[k],
           disk' = Put(disk, o + Before(k) + t, u),
           NEW v, NEW m \in Nat, m <= Buffers[l], Agree(v, o + Before(l), m)
    PROVE  \A j \in 1 .. m : /\ o + Before(l) + j <= Len(disk')
                             /\ v[j] = disk'[o + Before(l) + j]
<1> SUFFICES ASSUME NEW j \in 1 .. m
             PROVE  o + Before(l) + j <= Len(disk') /\ v[j] = disk'[o + Before(l) + j]
  OBVIOUS
<1>1. /\ Before(k) \in Nat /\ Before(l) \in Nat /\ Buffers[k] \in Nat /\ Buffers[l] \in Nat
  BY BufferType
<1>2. PICK p, i : p = o + Before(k) + t /\ i = o + Before(l) + j
  OBVIOUS
<1>3. i \in Nat /\ i >= 1 /\ p \in Nat /\ Len(u) \in Nat /\ Len(disk) \in Nat
  <2>1. \A a, b, c \in Nat : \A d \in 1 .. m : a + b + c \in Nat /\ a + b + d \in Nat /\ a + b + d >= 1
    OBVIOUS
  <2>2. i \in Nat /\ i >= 1 /\ p \in Nat
    BY <1>1, <1>2, <2>1
  <2>3. QED
    BY <2>2
<1>4. i <= Len(disk) /\ v[j] = disk[i]
  BY <1>2 DEF Agree
<1>5. i \notin p + 1 .. p + Len(u)
  <2> SUFFICES ASSUME i \in p + 1 .. p + Len(u) PROVE FALSE
    OBVIOUS
  <2>1. PICK a, b, c, d, e : /\ a = Before(k) /\ b = Before(l) /\ c = Buffers[k]
                            /\ d = Buffers[l] /\ e = Len(u)
    OBVIOUS
  <2>2. /\ a \in Nat /\ b \in Nat /\ c \in Nat /\ d \in Nat /\ e \in Nat /\ i \in Nat
        /\ i = o + b + j /\ i \in o + a + t + 1 .. o + a + t + e /\ t + e <= c /\ m <= d
    BY <1>1, <1>2, <1>3, <2>1
  <2>3. i - (o + a) \in 1 .. c /\ j \in 1 .. d /\ a + (i - (o + a)) = b + j
    BY ONLY <2>2, o \in Nat, t \in Nat, m \in Nat, j \in 1 .. m
  <2>4. QED
    BY <2>1, <2>3, BuffersApart
<1>6. /\ disk' \in Seq(Units) /\ Len(disk') >= Len(disk)
      /\ \A x \in 1 .. Len(disk') :
           disk'[x] = IF x \in p + 1 .. p + Len(u) THEN u[x - p]
                      ELSE IF x <= Len(disk) THEN disk[x] ELSE 0
  <2>1. disk' = Put(disk, p, u)
    BY <1>2
  <2>2. QED
    BY <1>3, <2>1, PutFile
<1>7. Len(disk') \in Nat /\ i <= Len(disk') /\ i \in 1 .. Len(disk')
  BY <1>3, <1>4, <1>6
<1>8. disk'[i] = disk[i]
  BY <1>4, <1>5, <1>6, <1>7
<1>9. QED
  BY <1>2, <1>4, <1>7, <1>8

LEMMA WriteAtData ==
    ASSUME MoveInv, NEW q \in requests, write_at(q)
    PROVE  DataInv'
<1>0. FilesInv /\ DataInv
  BY DEF MoveInv
<1>1. /\ q \in Request /\ q.op = "write" /\ q.op \in FileOps /\ disk \in Seq(Units)
      /\ q.at = "serving"
  BY <1>0 DEF FilesInv, TypeOK, write_at, Serving, FileOps
<1>2. /\ q.size \in Nat /\ q.total \in Nat /\ q.offset \in Nat /\ q.data \in Seq(Units)
      /\ Len(disk) \in Nat /\ Position(q) = q.offset + q.total
  BY <1>1 DEF Request, Position
<1>3. CASE cutOff
  <2>1. cutOff' = cutOff
    BY DEF write_at, Reply, Becomes
  <2>2. QED
    BY <1>3, <2>1 DEF DataInv
<1>4. CASE ~cutOff
  <2>1. InPlace(q) /\ OfTransfer(q) /\ q.by \in Pieces
    BY <1>0, <1>1, <1>4 DEF DataInv, FilesInv, TransferInv, RequestInv, GoodRequest
  <2>2. CASE q.total = q.size /\ Reply(q, "success") /\ UNCHANGED disk
    BY <1>1, <2>2, ReplyData
  <2>3. CASE Reply(q, "error") /\ UNCHANGED disk
    BY <1>1, <2>3, ReplyData
  <2>4. ASSUME NEW n \in 1 .. q.size - q.total,
               disk' = Put(disk, Position(q), SubSeq(q.data, q.total + 1, q.total + n)),
               Becomes(q, [q EXCEPT !.total = @ + n])
        PROVE  DataInv'
    <3>1. PICK k, t, o, u : /\ k = q.by /\ t = q.total /\ o = transfer.offset
                            /\ u = SubSeq(q.data, q.total + 1, q.total + n)
      OBVIOUS
    <3>2. PICK c : c = [q EXCEPT !.total = t + n]
      OBVIOUS
    <3>3. /\ UNCHANGED <<transfer, piece, cutOff>> /\ requests' = (requests \ {q}) \cup {c}
      BY <2>4, <3>1, <3>2 DEF Becomes, fileVars
    <3>4. /\ k \in Pieces /\ t \in Nat /\ o \in Nat /\ n \in Nat /\ n >= 1
          /\ Before(k) \in Nat /\ Buffers[k] \in Nat
          /\ q.offset = o + Before(k) /\ q.size = Buffers[k] /\ t + n <= Buffers[k]
          /\ q.data = Content(k) /\ Len(q.data) = Buffers[k] /\ transfer.kind = "write"
      <4>1. k \in Pieces /\ t \in Nat /\ o \in Nat /\ q.offset = o + Before(k)
            /\ q.size = Buffers[k] /\ q.data = Content(k) /\ transfer.kind = "write"
        BY <1>0, <1>1, <1>2, <2>1, <3>1 DEF InPlace, Base, FilesInv, TypeOK
      <4>2. Before(k) \in Nat /\ Buffers[k] \in Nat /\ Len(Content(k)) = Buffers[k]
        BY <4>1, BufferType
      <4>3. n \in Nat /\ n >= 1 /\ t + n <= Buffers[k]
        BY <1>2, <2>4, <3>1, <4>1
      <4>4. QED
        BY <4>1, <4>2, <4>3
    <3>5. /\ u \in Seq(Units) /\ Len(u) = n
          /\ \A i \in 1 .. n : u[i] = q.data[t + i]
      <4>1. \A i \in t + 1 .. t + n : i \in 1 .. Len(q.data)
        BY <3>4
      <4>2. \A i \in t + 1 .. t + n : q.data[i] \in Units
        BY <1>2, <4>1
      <4>3. t + 1 \in Int /\ t + n \in Int
        BY <3>4
      <4>4. u = SubSeq(q.data, t + 1, t + n)
        BY <3>1
      <4>5. /\ u \in Seq(Units)
            /\ Len(u) = IF t + 1 <= t + n THEN (t + n) - (t + 1) + 1 ELSE 0
            /\ \A i \in 1 .. (t + n) - (t + 1) + 1 : u[i] = q.data[(t + 1) + i - 1]
        BY <4>2, <4>3, <4>4, SubSeqProperties
      <4>6. (t + n) - (t + 1) + 1 = n /\ t + 1 <= t + n
        BY <3>4
      <4>7. \A i \in 1 .. n : (t + 1) + i - 1 = t + i
        BY <3>4
      <4>8. QED
        BY <4>5, <4>6, <4>7
    <3>6. disk' = Put(disk, o + Before(k) + t, u)
      BY <1>2, <2>4, <3>1, <3>4
    <3>7. ASSUME NEW l \in Pieces, l # k, NEW v, NEW m \in Nat, m <= Buffers[l],
                 Agree(v, o + Before(l), m)
          PROVE  \A j \in 1 .. m : /\ o + Before(l) + j <= Len(disk')
                                   /\ v[j] = disk'[o + Before(l) + j]
      <4>1. t + Len(u) <= Buffers[k]
        BY <3>4, <3>5
      <4>2. QED
        BY <1>1, <3>4, <3>5, <3>6, <3>7, <4>1, PutKeeps
    <3>8. \A j \in 1 .. t + n : /\ o + Before(k) + j <= Len(disk')
                                /\ q.data[j] = disk'[o + Before(k) + j]
      <4> SUFFICES ASSUME NEW j \in 1 .. t + n
                   PROVE  /\ o + Before(k) + j <= Len(disk')
                          /\ q.data[j] = disk'[o + Before(k) + j]
        OBVIOUS
      <4>1. PICK p, i : p = o + Before(k) + t /\ i = o + Before(k) + j
        OBVIOUS
      <4>2. p \in Nat /\ i \in Nat /\ i >= 1 /\ i <= p + n
        BY <3>4, <4>1
      <4>3. /\ disk' \in Seq(Units) /\ Len(disk') >= Len(disk) /\ Len(disk') >= p + n
            /\ \A x \in 1 .. Len(disk') :
                 disk'[x] = IF x \in p + 1 .. p + n THEN u[x - p]
                            ELSE IF x <= Len(disk) THEN disk[x] ELSE 0
        <5>1. disk' = Put(disk, p, u)
          BY <3>6, <4>1
        <5>2. QED
          BY <1>1, <3>5, <4>2, <5>1, PutFile
      <4>4. Len(disk') \in Nat /\ i <= Len(disk') /\ i \in 1 .. Len(disk')
        BY <3>4, <4>2, <4>3
      <4>5. CASE j <= t
        <5>1. j \in 1 .. t /\ i \notin p + 1 .. p + n
          BY <3>4, <4>1, <4>5
        <5>2. Agree(q.data, o + Before(k), t)
          BY <2>1, <3>1, <3>4 DEF InPlace
        <5>3. i <= Len(disk) /\ q.data[j] = disk[i]
          BY <4>1, <5>1, <5>2 DEF Agree
        <5>4. disk'[i] = disk[i]
          BY <4>3, <4>4, <5>1, <5>3
        <5>5. QED
          BY <4>1, <4>4, <5>3, <5>4
      <4>6. CASE ~(j <= t)
        <5>1. i \in p + 1 .. p + n /\ i - p \in 1 .. n /\ t + (i - p) = j
          <6>1. PICK b : b = o + Before(k)
            OBVIOUS
          <6>2. b \in Nat /\ p = b + t /\ i = b + j /\ j \in Nat /\ j <= t + n
            BY <3>4, <4>1, <6>1
          <6>3. QED
            BY <3>4, <4>6, <6>2
        <5>2. disk'[i] = u[i - p] /\ u[i - p] = q.data[t + (i - p)]
          BY <3>5, <4>3, <4>4, <5>1
        <5>3. QED
          BY <4>1, <4>4, <5>1, <5>2
      <4>7. QED
        BY <4>5, <4>6
    <3>9. /\ c.by = k /\ c.op = "write" /\ c.offset = o + Before(k) /\ c.size = Buffers[k]
          /\ c.data = Content(k) /\ c.total = t + n /\ c.at = "serving"
      BY <1>1, <3>1, <3>2, <3>4 DEF Request
    <3>10. InPlace(c)'
      <4>1. Base(k)' = o + Before(k) /\ transfer'.kind = "write"
        BY <3>1, <3>3, <3>4 DEF Base
      <4>2. Agree(c.data, c.offset, c.total)'
        BY <3>4, <3>8, <3>9 DEF Agree
      <4>3. QED
        BY <3>4, <3>9, <4>1, <4>2 DEF InPlace
    <3>11. ASSUME NEW p \in requests', p.op \in FileOps PROVE InPlace(p)'
      <4>1. CASE p = c
        BY <3>10, <4>1
      <4>2. CASE p # c
        <5>1. p \in requests /\ p # q /\ InPlace(p) /\ p \in Request /\ p.by \in Pieces
          BY <1>0, <1>4, <3>3, <3>11, <4>2
             DEF DataInv, FilesInv, TypeOK, RequestInv, GoodRequest
        <5>2. p.by # k
          BY <1>0, <1>1, <1>4, <3>1, <3>11, <5>1 DEF FilesInv, TransferInv
        <5>3. PICK l, m, v : l = p.by /\ m = p.total /\ v = p.data
          OBVIOUS
        <5>4. m \in Nat /\ m <= Buffers[l] /\ p.offset = o + Before(l) /\ p.op = "write"
              /\ Agree(v, o + Before(l), m)
          BY <3>1, <3>4, <5>1, <5>3 DEF InPlace, Base, Request
        <5>5. Agree(p.data, p.offset, p.total)'
          <6>1. \A j \in 1 .. m : /\ o + Before(l) + j <= Len(disk')
                                 /\ v[j] = disk'[o + Before(l) + j]
            BY <3>7, <5>1, <5>2, <5>3, <5>4
          <6>2. QED
            BY <5>3, <5>4, <6>1 DEF Agree
        <5>6. Base(l)' = Base(l)
          BY <3>3 DEF Base
        <5>7. QED
          BY <3>3, <5>1, <5>3, <5>4, <5>5, <5>6 DEF InPlace
      <4>3. QED
        BY <4>1, <4>2
    <3>12. ASSUME NEW l \in Pieces, piece'[l].done PROVE Arrived(l)'
      <4>1. Arrived(l) /\ l # k
        BY <1>0, <1>4, <2>1, <3>1, <3>3, <3>12 DEF DataInv, OfTransfer
      <4>2. CASE piece[l].n = 0
        BY <3>3, <3>4, <4>2 DEF Arrived
      <4>3. CASE piece[l].n # 0
        <5>1. piece[l].n = Buffers[l] /\ Agree(Content(l), o + Before(l), Buffers[l])
          BY <3>1, <3>4, <4>1, <4>3 DEF Arrived, Base
        <5>2. Buffers[l] \in Nat /\ Buffers[l] <= Buffers[l]
          BY BufferType
        <5>3. Agree(Content(l), Base(l), Buffers[l])'
          BY <3>1, <3>3, <3>7, <4>1, <5>1, <5>2 DEF Agree, Base
        <5>4. QED
          BY <3>3, <3>4, <5>1, <5>3 DEF Arrived
      <4>4. QED
        BY <4>2, <4>3
    <3>13. Counted'
      BY <1>0, <1>4, <3>3 DEF DataInv, Counted, AllDone
    <3>14. QED
      BY <3>11, <3>12, <3>13 DEF DataInv
  <2>5. QED
    BY <2>2, <2>3, <2>4 DEF write_at
<1>5. QED
  BY <1>3, <1>4

LEMMA MoveInit == Init => MoveInv
<1> SUFFICES ASSUME Init PROVE MoveInv
  OBVIOUS
<1>1. requests = {} /\ \A k \in Pieces : ~piece[k].done
  BY DEF Init, NoPieces
<1>2. Counted
  BY DEF Init, Counted, NoTransfer
<1>3. QED
  BY <1>1, <1>2, FilesInit DEF MoveInv, DataInv

LEMMA MoveStep == MoveInv /\ [Next]_vars => MoveInv'
<1> SUFFICES ASSUME MoveInv, [Next]_vars PROVE DataInv'
  BY FilesStep DEF MoveInv
<1>1. ASSUME NEW op \in {"open", "opendir"}, Open(op) PROVE DataInv'
  BY <1>1, OpenData
<1>2. CASE Close
  BY <1>2, AppData
<1>3. ASSUME NEW r \in Readers,
             ReadBuffered(r) \/ ReadFetches(r) \/ ReadReturns(r) \/ ReadCancelled(r)
      PROVE  DataInv'
  BY <1>3, DirData
<1>4. ASSUME NEW kind \in {"read", "write"}, NEW offset \in Offsets,
             StartTransfer(kind, offset)
      PROVE  DataInv'
  BY <1>4, StartTransferData
<1>5. CASE TransferReturns \/ TransferCancelled
  BY <1>5, TransferEndsData
<1>6. ASSUME NEW q \in requests, Opened(q) \/ Closed(q) PROVE DataInv'
  BY <1>6, AppData
<1>7. ASSUME NEW q \in requests, NEW r \in Readers, EntriesArrive(r, q) PROVE DataInv'
  BY <1>7, DirData
<1>8. ASSUME NEW q \in requests, NEW k \in Pieces, PieceReturns(k, q) PROVE DataInv'
  BY <1>8, PieceReturnsData
<1>9. ASSUME NEW q \in requests,
             open(q) \/ close(q) \/ readdir(q) \/ find(q) \/ read_at(q) \/ write_at(q)
      PROVE  DataInv'
  BY <1>9, HandleData, FindData, ReadAtData, WriteAtData
<1>10. CASE UNCHANGED vars
  <2>1. UNCHANGED <<transfer, piece, disk, cutOff, requests>>
    BY <1>10 DEF vars, fileVars, serverVars
  <2>2. QED
    BY <2>1, SameData DEF MoveInv
<1>11. QED
  BY <1>1, <1>2, <1>3, <1>4, <1>5, <1>6, <1>7, <1>8, <1>9, <1>10 DEF Next

LEMMA MoveAlways == Spec => []MoveInv
BY MoveInit, MoveStep, PTL DEF Spec

(* The counts of the buffers are a sequence, and transfer.n is their sum. *)
LEMMA Counts ==
    ASSUME TypeOK
    PROVE  /\ [k \in Pieces |-> piece[k].n] \in Seq(Nat)
           /\ Len([k \in Pieces |-> piece[k].n]) = Len(Buffers)
           /\ \A k \in Pieces : piece[k].n \in Nat
<1>1. \A k \in Pieces : piece[k].n \in Nat
  BY DEF TypeOK
<1>2. Len(Buffers) \in Nat
  BY BufferType
<1>3. QED
  BY <1>1, <1>2 DEF Pieces

(***************************************************************************)
(* write_some_at over several buffers: a returned n that is their size     *)
(* means that all of them are in the file at their places, whatever the    *)
(* buffers, the order in which the workers serve the requests, and how     *)
(* much the file takes at a time.                                          *)
(***************************************************************************)
THEOREM WrittenWhole == Spec => []WriteLanded
<1>1. MoveInv => WriteLanded
  <2> SUFFICES ASSUME MoveInv, transfer.kind = "write", ~transfer.running,
                      transfer.n = Total, ~cutOff,
                      NEW i \in 1 .. Total
               PROVE  /\ transfer.offset + i <= Len(disk)
                      /\ disk[transfer.offset + i] = Written + i
    BY DEF WriteLanded
  <2>1. /\ AllDone /\ transfer.n = Sums([k \in Pieces |-> piece[k].n])[Len(Buffers)]
        /\ \A k \in Pieces : Arrived(k)
    BY DEF MoveInv, DataInv, Counted, AllDone
  <2>2. TypeOK /\ transfer.offset \in Nat
    BY DEF MoveInv, FilesInv, TypeOK
  <2>3. PICK c : c = [k \in Pieces |-> piece[k].n]
    OBVIOUS
  <2>4. /\ c \in Seq(Nat) /\ Len(c) = Len(Buffers)
        /\ \A k \in Pieces : c[k] = piece[k].n /\ c[k] \in Nat
    BY <2>2, <2>3, Counts
  <2>5. \A k \in Pieces : c[k] <= Buffers[k]
    <3>1. \A k \in Pieces : piece[k].n = 0 \/ piece[k].n = Buffers[k]
      BY <2>1 DEF Arrived
    <3>2. \A k \in Pieces : Buffers[k] \in Nat
      BY BufferType
    <3>3. QED
      BY <2>4, <3>1, <3>2
  <2>6. \A k \in Pieces : c[k] = Buffers[k]
    <3> SUFFICES ASSUME NEW k \in Pieces, c[k] < Buffers[k] PROVE FALSE
      BY <2>4, <2>5, BufferType
    <3>1. Sums(c)[Len(c)] < Sums(Buffers)[Len(c)]
      <4>1. k \in 1 .. Len(c) /\ \A j \in 1 .. Len(c) : c[j] <= Buffers[j]
        BY <2>4, <2>5 DEF Pieces
      <4>2. QED
        BY <2>4, <4>1, BufferType, SumsSmaller
    <3>2. Sums(c)[Len(c)] = Sums(Buffers)[Len(c)]
      BY <2>1, <2>3, <2>4 DEF Total
    <3>3. Sums(c)[Len(c)] \in Nat
      BY <2>4, SumsType
    <3>4. QED
      BY <3>1, <3>2, <3>3
  <2>7. PICK k \in Pieces : \E j \in 1 .. Buffers[k] : i = Sums(Buffers)[k - 1] + j
    BY BufferType, SumsCover DEF Total, Pieces
  <2>8. PICK j \in 1 .. Buffers[k] : i = Sums(Buffers)[k - 1] + j
    BY <2>7
  <2>9. Buffers[k] \in Nat \ {0} /\ Before(k) \in Nat /\ Before(k) = Sums(Buffers)[k - 1]
    BY BufferType, FilesAssumption DEF Before, Pieces
  <2>10. Agree(Content(k), Base(k), Buffers[k])
    <3>1. piece[k].n # 0
      BY <2>4, <2>6, <2>9
    <3>2. QED
      BY <2>1, <3>1 DEF Arrived
  <2>11. Content(k)[j] = Written + Before(k) + j
    BY <2>9 DEF Content
  <2>12. Base(k) + j = transfer.offset + i /\ Written + Before(k) + j = Written + i
    BY <2>2, <2>8, <2>9 DEF Base, Written
  <2>13. Base(k) + j <= Len(disk) /\ Content(k)[j] = disk[Base(k) + j]
    BY <2>10 DEF Agree
  <2>14. QED
    BY <2>11, <2>12, <2>13, Zenon
<1>2. QED
  BY <1>1, MoveAlways, PTL

(***************************************************************************)
(* read_some_at over several buffers: the first n places of the buffers    *)
(* hold the units of the file at the offset, with no gap, though each      *)
(* buffer is read by a request of its own that may come back short.        *)
(***************************************************************************)
THEOREM ReadPrefix == Spec => []ReadIsPrefix
<1>1. MoveInv => ReadIsPrefix
  <2> SUFFICES ASSUME MoveInv, transfer.kind = "read", ~transfer.running,
                      \A k \in Pieces : piece[k].ec = "success", ~cutOff,
                      NEW k \in Pieces, NEW j \in 1 .. Buffers[k],
                      Sums(Buffers)[k - 1] + j <= transfer.n
               PROVE  LET i == Sums(Buffers)[k - 1] + j
                      IN  /\ j <= Len(piece[k].into) /\ transfer.offset + i <= Len(disk)
                          /\ piece[k].into[j] = disk[transfer.offset + i]
    BY DEF ReadIsPrefix
  <2>1. /\ transfer.n = Sums([l \in Pieces |-> piece[l].n])[Len(Buffers)]
        /\ \A l \in Pieces :
              /\ piece[l].n = Len(piece[l].into) /\ piece[l].n <= Buffers[l]
              /\ Agree(piece[l].into, Base(l), piece[l].n)
              /\ piece[l].n = Buffers[l] \/ Len(disk) <= Base(l) + piece[l].n
    BY DEF MoveInv, DataInv, Counted, AllDone, Arrived
  <2>2. TypeOK /\ transfer.offset \in Nat /\ Len(disk) \in Nat
    BY DEF MoveInv, FilesInv, TypeOK
  <2>3. PICK c : c = [l \in Pieces |-> piece[l].n]
    OBVIOUS
  <2>4. /\ c \in Seq(Nat) /\ Len(c) = Len(Buffers)
        /\ \A l \in Pieces : c[l] = piece[l].n /\ c[l] \in Nat
    BY <2>2, <2>3, Counts
  <2>5. /\ \A l \in Pieces : Buffers[l] \in Nat /\ Before(l) \in Nat
        /\ \A l \in Pieces : Before(l) = Sums(Buffers)[l - 1]
        /\ Len(Buffers) \in Nat
    BY BufferType DEF Before
  <2>6. j <= piece[k].n
    <3> SUFFICES ASSUME piece[k].n < j PROVE FALSE
      BY <2>4, <2>5
    <3>1. Len(disk) <= Base(k) + c[k] /\ c[k] < Buffers[k]
      BY <2>1, <2>4, <2>5
    <3>2. ASSUME NEW l \in k + 1 .. Len(Buffers) PROVE c[l] = 0
      <4>1. l \in Pieces /\ k \in 0 .. Len(Buffers) /\ l - 1 \in k .. Len(Buffers)
        BY <2>5 DEF Pieces
      <4>2. Sums(Buffers)[k] <= Sums(Buffers)[l - 1]
        BY <4>1, BufferType, SumsGrow
      <4>3. Sums(Buffers)[k] = Sums(Buffers)[k - 1] + Buffers[k]
        BY BufferType, SumsRecursion DEF Pieces
      <4>4. Before(k) + Buffers[k] <= Before(l)
        BY <2>5, <4>1, <4>2, <4>3
      <4>5. Len(disk) < Base(l) + 1
        <5>1. /\ Before(k) \in Nat /\ Before(l) \in Nat /\ Buffers[k] \in Nat
              /\ c[k] \in Nat /\ c[k] < Buffers[k]
          BY <2>4, <2>5, <3>1, <4>1
        <5>2. Len(disk) <= transfer.offset + Before(k) + c[k]
          BY <3>1 DEF Base
        <5>3. \A d, o, a, b, s, n \in Nat :
                 d <= o + a + n /\ n < s /\ a + s <= b => d < o + b + 1
          OBVIOUS
        <5>4. Len(disk) < transfer.offset + Before(l) + 1
          BY <2>2, <4>4, <5>1, <5>2, <5>3, Zenon
        <5>5. QED
          BY <5>4 DEF Base
      <4>6. c[l] >= 1 => Base(l) + 1 <= Len(disk)
        BY <2>1, <2>4, <4>1 DEF Agree
      <4>7. Base(l) \in Nat
        BY <2>2, <2>5, <4>1 DEF Base
      <4>8. c[l] \in Nat
        BY <2>4, <4>1
      <4>9. QED
        BY <2>2, <4>5, <4>6, <4>7, <4>8
    <3>3. k \in 0 .. Len(c) /\ k \in 1 .. Len(c) /\ k - 1 \in 0 .. Len(c)
      BY <2>4, <2>5 DEF Pieces
    <3>4. Sums(c)[Len(c)] = Sums(c)[k]
      BY <2>4, <3>2, <3>3, SumsOverZeros
    <3>5. Sums(c)[k] = Sums(c)[k - 1] + c[k]
      BY <2>4, <3>3, SumsRecursion
    <3>6. Sums(c)[k - 1] <= Sums(Buffers)[k - 1]
      <4>1. \A l \in 1 .. Len(c) : c[l] <= Buffers[l]
        BY <2>1, <2>4 DEF Pieces
      <4>2. QED
        BY <2>4, <3>3, <4>1, BufferType, SumsBelow
    <3>7. Sums(c)[k - 1] \in Nat
      BY <2>4, <3>3, SumsType
    <3>8. transfer.n = Sums(c)[k - 1] + c[k]
      BY <2>1, <2>3, <2>4, <3>4, <3>5
    <3>9. QED
      BY <2>4, <2>5, <3>6, <3>7, <3>8
  <2>7. Base(k) + j = transfer.offset + (Sums(Buffers)[k - 1] + j)
    BY <2>2, <2>5 DEF Base
  <2>8. j \in 1 .. piece[k].n
    BY <2>4, <2>5, <2>6
  <2>9. Base(k) + j <= Len(disk) /\ piece[k].into[j] = disk[Base(k) + j]
    BY <2>1, <2>8 DEF Agree
  <2>10. QED
    BY <2>1, <2>6, <2>7, <2>9, Zenon
<1>2. QED
  BY <1>1, MoveAlways, PTL
=============================================================================
