------------------------------ MODULE WupProofs ------------------------------
(***************************************************************************)
(* Proofs about Wup: each call of services/fsa.c arrives as it was made, and  *)
(* fsa_copydir closes what it opens and copies what it should, for every      *)
(* backup, block size and pattern of failures; and wupserver carries out the   *)
(* commands of its clients, for any memory, commands and number of clients.    *)
(***************************************************************************)
EXTENDS Wup, SequenceTheorems, TLAPS

-----------------------------------------------------------------------------
(* The messages of services/fsa.c *)

Fields == [off : Nat, len : Nat, string : BOOLEAN]

\* Every field is sent, and none is put over an earlier one.
Laid(put, n) ==
  \A i \in DOMAIN put : /\ put[i].off + put[i].len <= n
                        /\ \A j \in i + 1..Len(put) : Apart(put[i], put[j])

\* Behind each string is a byte that is sent and left alone.
ZeroBehind(put, n) ==
  \A i \in DOMAIN put : put[i].string =>
    /\ put[i].off + put[i].len < n
    /\ \A j \in DOMAIN put : Apart(Byte(put[i].off + put[i].len), put[j])

Good(put, n) == Laid(put, n) /\ ZeroBehind(put, n)

Unterminated == {"MCP_InstallGetInfo", "MCP_Install", "FSA_Format"}

Arrived(op) ==
  /\ \A i \in DOMAIN Messages[op].put :
       Arrives(op, i) /\ (Terminated(op, i) \/ op \in Unterminated)
  /\ OutFits(op)

Sizes == 0..OUT_SIZE - 4
Vectors == 0..3

LEMMA AnswerRoom ==
  ASSUME NEW o \in Sizes, NEW v \in Vectors
  PROVE  4 + o <= OUT_SIZE /\ IN_SIZE + OUT_SIZE <= IOVEC /\ IOVEC + 12 * v <= IOBUF_SIZE
  BY DEF Sizes, Vectors, OUT_SIZE, IN_SIZE, IOVEC, IOBUF_SIZE

LEMMA FieldOffsets ==
  ASSUME NEW f \in Fields
  PROVE  /\ f.off \in Nat /\ f.len \in Nat
         /\ f.off >= 644 => 643 <= f.off /\ 643 <= f.off + f.len
  BY DEF Fields

\* A message arrives if its fields are laid out well and its answer fits.
LEMMA GoodArrives ==
  ASSUME NEW op, NEW put \in Seq(Fields), NEW n \in Nat, NEW o \in Sizes, NEW v \in Vectors,
         Messages[op] = [put |-> put, in |-> n, out |-> o, vecs |-> v],
         Laid(put, n), ZeroBehind(put, n) \/ op \in Unterminated
  PROVE  Arrived(op)
<1>1. /\ Messages[op].put = put /\ Messages[op].in = n
      /\ Messages[op].out = o /\ Messages[op].vecs = v
  OBVIOUS
<1>2. OutFits(op)
  <2>1. 4 + o <= OUT_SIZE /\ IN_SIZE + OUT_SIZE <= IOVEC /\ IOVEC + 12 * v <= IOBUF_SIZE
    BY AnswerRoom
  <2> QED BY <1>1, <2>1 DEF OutFits
<1>3. ASSUME NEW i \in DOMAIN put
      PROVE  Arrives(op, i)
  BY <1>1 DEF Arrives, Laid
<1>4. ASSUME NEW i \in DOMAIN put, ZeroBehind(put, n)
      PROVE  Terminated(op, i)
  <2>1. PICK z : z = put[i].off + put[i].len
    OBVIOUS
  <2>2. put[i].string => z < n /\ \A j \in DOMAIN put : Apart(Byte(z), put[j])
    BY <1>4, <2>1 DEF ZeroBehind
  <2>3. Byte(z).off = z
    BY DEF Byte
  <2> QED BY <1>1, <2>1, <2>2, <2>3 DEF Terminated
<1> QED BY <1>1, <1>2, <1>3, <1>4 DEF Arrived

\* The path and its zero are the first \h284 bytes of a request.
LEMMA BehindPath ==
  ASSUME NEW s \in Seq(Fields), Laid(s, IN_SIZE), \A i \in 1..Len(s) : s[i].off >= \h284
  PROVE  /\ OnPathAnd(s) \in Seq(Fields) /\ Laid(OnPathAnd(s), IN_SIZE)
         /\ ZeroBehind(s, IN_SIZE) => ZeroBehind(OnPathAnd(s), IN_SIZE)
<1> DEFINE F == Fields
           path == Str(4, PATH)
           put == OnPathAnd(s)
<1>1. path \in F /\ path.off = 4 /\ path.len = 639 /\ path.string = TRUE
  BY DEF Str, PATH, Fields
<1>2. /\ put \in Seq(F) /\ Len(put) = Len(s) + 1 /\ put[1] = path
      /\ \A i \in 2..Len(put) : put[i] = s[i - 1]
  <2>1. s \in Seq(F) OBVIOUS
  <2> HIDE DEF F, path
  <2>2. put = <<path>> \o s
    BY DEF OnPathAnd, OnPath, path
  <2> HIDE DEF put
  <2> QED BY <1>1, <2>1, <2>2
<1>3. DOMAIN put = 1..Len(put)
  BY <1>2
<1>4. \A i \in 2..Len(put) : put[i] \in Fields /\ i - 1 \in 1..Len(s)
  BY <1>2
<1> HIDE DEF put, path
<1>5. Laid(put, IN_SIZE)
  <2>1. ASSUME NEW i \in 1..Len(put)
        PROVE  put[i].off + put[i].len <= IN_SIZE
    BY <1>1, <1>2, <1>4 DEF Laid, IN_SIZE
  <2>2. ASSUME NEW i \in 1..Len(put), NEW j \in i + 1..Len(put)
        PROVE  Apart(put[i], put[j])
    <3>1. CASE i = 1
      <4>1. put[i].off + put[i].len = 643 /\ put[j] = s[j - 1] /\ j - 1 \in 1..Len(s)
        BY <3>1, <1>1, <1>2
      <4>2. 643 <= put[j].off
        BY <4>1, FieldOffsets
      <4> QED BY <4>1, <4>2 DEF Apart, Byte
    <3>2. CASE i # 1
      BY <3>2, <1>2, <1>4 DEF Laid
    <3> QED BY <3>1, <3>2
  <2> QED BY <2>1, <2>2, <1>3 DEF Laid
<1>6. ASSUME ZeroBehind(s, IN_SIZE)
      PROVE  ZeroBehind(put, IN_SIZE)
  <2> SUFFICES ASSUME NEW i \in 1..Len(put), put[i].string, NEW j \in 1..Len(put)
               PROVE  /\ put[i].off + put[i].len < IN_SIZE
                      /\ Apart(Byte(put[i].off + put[i].len), put[j])
    BY <1>2, <1>3 DEF ZeroBehind
  <2>1. CASE i = 1
    <3>1. put[i].off + put[i].len = 643
      BY <2>1, <1>1, <1>2
    <3>2. CASE j = 1
      BY <3>1, <3>2, <1>1, <1>2 DEF Apart, Byte, IN_SIZE
    <3>3. CASE j # 1
      <4>1. put[j] = s[j - 1] /\ j - 1 \in 1..Len(s)
        BY <3>3, <1>2
      <4>2. 644 <= put[j].off
        BY SMTT(30), <4>1 DEF Fields
      <4> QED BY <3>1, <4>2 DEF Apart, Byte, IN_SIZE
    <3> QED BY <3>2, <3>3
  <2>2. CASE i # 1
    <3>1. put[i] = s[i - 1] /\ i - 1 \in DOMAIN s /\ s[i - 1] \in Fields /\ s[i - 1].off >= 644
      BY <2>2, <1>2
    <3>2. CASE j = 1
      <4>1. put[i].off + put[i].len < IN_SIZE
        BY <3>1, <1>6 DEF ZeroBehind
      <4>2. put[j].off + put[j].len = 643 /\ 643 <= put[i].off + put[i].len
        BY <3>1, <3>2, <1>1, <1>2, FieldOffsets
      <4> QED BY <4>1, <4>2 DEF Apart, Byte
    <3>3. CASE j # 1
      BY SMTT(30), <3>1, <3>3, <1>2, <1>6 DEF ZeroBehind
    <3> QED BY <3>2, <3>3
  <2> QED BY <2>1, <2>2
<1> QED BY <1>2, <1>5, <1>6 DEF put

\* What is put behind a path, and where there is none
PathArgs ==
  {<<Num(\h284)>>, <<Num(\h284), Num(\h288)>>, <<Num(\h284), Num(\h288), Num(\h28C)>>,
   <<Str(4 * \hA1, \h10)>>, <<Str(\h284, PATH), Num(\h504), Num(\h508)>>}
OtherArgs ==
  {<<Num(4), Num(8)>>, <<Num(8), Num(\hC), Num(\h14), Num(\h18)>>,
   <<Num(8), Num(\hC), Num(\h10), Num(\h14), Num(\h18)>>}

FormatArgs == <<Str(\h284, 8), Num(\h28C), Num(\h290)>>

\* The layouts of the requests
LEMMA Layouts ==
  /\ Good(OnPath, IN_SIZE) /\ OnPath \in Seq(Fields)
  /\ Good(OnHandle, IN_SIZE) /\ OnHandle \in Seq(Fields)
  /\ \A s \in PathArgs :
       Good(OnPathAnd(s), IN_SIZE) /\ OnPathAnd(s) \in Seq(Fields)
  /\ Laid(OnPathAnd(FormatArgs), IN_SIZE) /\ OnPathAnd(FormatArgs) \in Seq(Fields)
  /\ \A s \in OtherArgs :
       Good(s, IN_SIZE) /\ s \in Seq(Fields)
  /\ Laid(<<Str(0, PATH)>>, PATH) /\ <<Str(0, PATH)>> \in Seq(Fields)
  /\ Good(<<Byte(3)>>, 4) /\ <<Byte(3)>> \in Seq(Fields)
<1> USE DEF Good, Laid, ZeroBehind, Apart, Num, Str, Byte, PATH, IN_SIZE, Fields
<1>1. Good(OnPath, IN_SIZE) /\ OnPath \in Seq(Fields)
  BY DEF OnPath
<1>2. Good(OnHandle, IN_SIZE) /\ OnHandle \in Seq(Fields)
  BY DEF OnHandle
<1>3. ASSUME NEW s \in OtherArgs
      PROVE  Good(s, IN_SIZE) /\ s \in Seq(Fields)
  <2>1. CASE s = <<Num(4), Num(8)>>
    BY <2>1
  <2>2. CASE s = <<Num(8), Num(\hC), Num(\h14), Num(\h18)>>
    BY <2>2
  <2>3. CASE s = <<Num(8), Num(\hC), Num(\h10), Num(\h14), Num(\h18)>>
    BY <2>3
  <2> HIDE DEF Good, Num
  <2> QED BY <2>1, <2>2, <2>3 DEF OtherArgs
<1>4. Laid(<<Str(0, PATH)>>, PATH) /\ <<Str(0, PATH)>> \in Seq(Fields)
  OBVIOUS
<1>5. Good(<<Byte(3)>>, 4) /\ <<Byte(3)>> \in Seq(Fields)
  OBVIOUS
<1>6. /\ FormatArgs \in Seq(Fields) /\ Laid(FormatArgs, IN_SIZE)
      /\ \A i \in 1..Len(FormatArgs) : FormatArgs[i].off >= \h284
  BY DEF FormatArgs
<1>7. ASSUME NEW s \in PathArgs
      PROVE  /\ s \in Seq(Fields) /\ Good(s, IN_SIZE)
             /\ \A i \in 1..Len(s) : s[i].off >= \h284
  <2>1. CASE s = <<Num(\h284)>>
    BY <2>1
  <2>2. CASE s = <<Num(\h284), Num(\h288)>>
    BY <2>2
  <2>3. CASE s = <<Num(\h284), Num(\h288), Num(\h28C)>>
    BY <2>3
  <2>4. CASE s = <<Str(4 * \hA1, \h10)>>
    BY <2>4
  <2>5. CASE s = <<Str(\h284, PATH), Num(\h504), Num(\h508)>>
    BY <2>5
  <2> HIDE DEF Good, Fields, Num, Str, PATH
  <2> QED BY <2>1, <2>2, <2>3, <2>4, <2>5 DEF PathArgs
<1> HIDE DEF Laid, ZeroBehind, Apart, Num, Str, Byte, PATH, IN_SIZE, Fields
<1>8. ASSUME NEW s \in PathArgs
      PROVE  Good(OnPathAnd(s), IN_SIZE) /\ OnPathAnd(s) \in Seq(Fields)
  BY <1>7, BehindPath
<1>9. Laid(OnPathAnd(FormatArgs), IN_SIZE) /\ OnPathAnd(FormatArgs) \in Seq(Fields)
  BY <1>6, BehindPath
<1> HIDE DEF Good
<1> QED BY <1>1, <1>2, <1>3, <1>4, <1>5, <1>8, <1>9

\* Each call is in one of the tables.
LEMMA OneTable ==
  ASSUME NEW s \in Services, NEW op \in DOMAIN s
  PROVE  Messages[op] = s[op]
<1>1. ASSUME NEW t \in Services, op \in DOMAIN t
      PROVE  t = s
  BY SMTT(30), <1>1 DEF Services, InstallOps, VolumeOps, DirOps, QuotaOps, FileOps, DeviceOps, RawOps
<1> QED BY <1>1 DEF Messages, Ops

\* What Ioctl, Ioctlv and Out build
LEMMA Records ==
  ASSUME NEW put, NEW o, NEW v
  PROVE  /\ Ioctl(put) = [put |-> put, in |-> IN_SIZE, out |-> 0, vecs |-> 0]
         /\ Ioctlv(put, v) = [put |-> put, in |-> IN_SIZE, out |-> 0, vecs |-> v]
         /\ Out(Ioctl(put), o) = [put |-> put, in |-> IN_SIZE, out |-> o, vecs |-> 0]
  BY DEF Ioctl, Ioctlv, Out

\* A message of one of the usual shapes arrives.
Usual(m) ==
  \E put \in Seq(Fields), v \in Vectors, o \in Sizes :
    Good(put, IN_SIZE) /\ m \in {Ioctl(put), Ioctlv(put, v), Out(Ioctl(put), o)}

LEMMA UsualArrives ==
  ASSUME NEW op, Usual(Messages[op])
  PROVE  Arrived(op)
<1>1. PICK put \in Seq(Fields), v \in Vectors, o \in Sizes :
        Good(put, IN_SIZE) /\ Messages[op] \in {Ioctl(put), Ioctlv(put, v), Out(Ioctl(put), o)}
  BY DEF Usual
<1>2. IN_SIZE \in Nat /\ 0 \in Vectors /\ 0 \in Sizes
  BY DEF IN_SIZE, OUT_SIZE, Vectors, Sizes
<1>3. \E w \in Vectors, u \in Sizes :
        Messages[op] = [put |-> put, in |-> IN_SIZE, out |-> u, vecs |-> w]
  BY <1>1, <1>2, Records, ZenonT(30)
<1> QED BY <1>1, <1>2, <1>3, GoodArrives DEF Good

LEMMA Numbers ==
  /\ {0, 1, 2, 3} \subseteq Vectors
  /\ {4, FSStat, FSDirectoryEntry, \h64, \h1BC} \subseteq Sizes
  BY DEF Vectors, Sizes, OUT_SIZE, FSStat, FSDirectoryEntry

LEMMA UsualShapes ==
  ASSUME NEW put \in Seq(Fields), Good(put, IN_SIZE), NEW v \in Vectors, NEW o \in Sizes
  PROVE  Usual(Ioctl(put)) /\ Usual(Ioctlv(put, v)) /\ Usual(Out(Ioctl(put), o))
  BY Zenon DEF Usual

LEMMA UsualTables ==
  ASSUME NEW s \in Services \ {InstallOps}, NEW op \in DOMAIN s, op # "FSA_Format"
  PROVE  Usual(s[op])
<1> USE Layouts, Numbers
<1>1. /\ Usual(Ioctl(OnPath)) /\ Usual(Ioctl(OnHandle)) /\ Usual(Ioctl(<<Num(4), Num(8)>>))
      /\ \A a \in PathArgs : Usual(Ioctl(OnPathAnd(a)))
  BY ZenonT(60), UsualShapes DEF OtherArgs
<1>2. /\ \A o \in Sizes : Usual(Out(Ioctl(OnPath), o)) /\ Usual(Out(Ioctl(OnHandle), o))
      /\ \A a \in PathArgs, o \in Sizes : Usual(Out(Ioctl(OnPathAnd(a)), o))
  BY UsualShapes
<1>3. /\ Usual(_FSA_ReadWriteFile) /\ Usual(RawIo)
      /\ \A a \in PathArgs : Usual(Ioctlv(OnPathAnd(a), 3))
  BY ZenonT(60), UsualShapes DEF OtherArgs, _FSA_ReadWriteFile, RawIo
<1>4. /\ <<Num(\h284)>> \in PathArgs /\ <<Num(\h284), Num(\h288)>> \in PathArgs
      /\ <<Num(\h284), Num(\h288), Num(\h28C)>> \in PathArgs /\ <<Str(4 * \hA1, \h10)>> \in PathArgs
      /\ <<Str(\h284, PATH), Num(\h504), Num(\h508)>> \in PathArgs
  BY DEF PathArgs
<1>5. CASE s = VolumeOps
  BY SMTT(30), <1>1, <1>3, <1>4, <1>5 DEF VolumeOps
<1>6. CASE s = DirOps
  BY SMTT(30), <1>1, <1>2, <1>4, <1>6 DEF DirOps
<1>7. CASE s = QuotaOps
  BY SMTT(30), <1>1, <1>4, <1>7 DEF QuotaOps
<1>8. CASE s = FileOps
  BY SMTT(30), <1>1, <1>2, <1>3, <1>4, <1>8 DEF FileOps, FSA_OpenFile
<1>9. CASE s = DeviceOps
  BY SMTT(30), <1>1, <1>2, <1>4, <1>9 DEF DeviceOps
<1>10. CASE s = RawOps
  BY <1>1, <1>2, <1>3, <1>10 DEF RawOps
<1> QED BY <1>5, <1>6, <1>7, <1>8, <1>9, <1>10 DEF Services

\* The two installs, whose path is all that is sent, and the format, whose file
\* system type ends where the next field begins
LEMMA OthersArrive ==
  ASSUME NEW op \in {"MCP_InstallGetInfo", "MCP_Install", "MCP_InstallTarget", "FSA_Format"}
  PROVE  Arrived(op)
<1> USE Layouts, Numbers
<1>1. InstallOps \in Services /\ DeviceOps \in Services
  BY DEF Services
<1>2. CASE op = "FSA_Format"
  <2>1. Messages[op] = Ioctl(OnPathAnd(FormatArgs))
    <3>1. op \in DOMAIN DeviceOps /\ DeviceOps[op] = Ioctl(OnPathAnd(FormatArgs))
      BY <1>2 DEF DeviceOps, FormatArgs
    <3> QED BY <1>1, <3>1, OneTable
  <2>2. Messages[op] = [put |-> OnPathAnd(FormatArgs), in |-> IN_SIZE, out |-> 0, vecs |-> 0]
    BY <2>1, Records, Zenon
  <2>3. IN_SIZE \in Nat /\ 0 \in Sizes /\ 0 \in Vectors
    BY DEF IN_SIZE, Sizes, OUT_SIZE
  <2> QED BY <2>2, <2>3, <1>2, GoodArrives DEF Unterminated
<1>3. CASE op = "MCP_InstallTarget"
  <2>1. Messages[op] = [Ioctl(<<Byte(3)>>) EXCEPT !.in = 4]
    <3>1. op \in DOMAIN InstallOps /\ InstallOps[op] = [Ioctl(<<Byte(3)>>) EXCEPT !.in = 4]
      BY <1>3 DEF InstallOps
    <3> QED BY <1>1, <3>1, OneTable
  <2>2. Messages[op] = [put |-> <<Byte(3)>>, in |-> 4, out |-> 0, vecs |-> 0]
    BY <2>1 DEF Ioctl
  <2>3. 0 \in Sizes /\ 0 \in Vectors
    BY DEF Sizes, OUT_SIZE
  <2> QED BY <2>2, <2>3, GoodArrives DEF Good
<1>4. CASE op \in {"MCP_InstallGetInfo", "MCP_Install"}
  <2>1. PICK v \in {1, 2} : Messages[op] = [Ioctlv(<<Str(0, PATH)>>, v) EXCEPT !.in = PATH]
    <3>1. {"MCP_InstallGetInfo", "MCP_Install"} \subseteq DOMAIN InstallOps
      BY DEF InstallOps
    <3>2. InstallOps["MCP_InstallGetInfo"] = [Ioctlv(<<Str(0, PATH)>>, 2) EXCEPT !.in = PATH]
      BY DEF InstallOps
    <3>3. InstallOps["MCP_Install"] = [Ioctlv(<<Str(0, PATH)>>, 1) EXCEPT !.in = PATH]
      BY DEF InstallOps
    <3>4. Messages[op] = InstallOps[op]
      BY <1>1, <1>4, <3>1, OneTable
    <3> QED BY <1>4, <3>2, <3>3, <3>4, Zenon
  <2>2. Messages[op] = [put |-> <<Str(0, PATH)>>, in |-> PATH, out |-> 0, vecs |-> v]
    BY <2>1 DEF Ioctl, Ioctlv
  <2>3. 0 \in Sizes /\ v \in Vectors /\ PATH \in Nat
    BY DEF Sizes, OUT_SIZE, PATH
  <2> QED BY <2>2, <2>3, <1>4, GoodArrives DEF Unterminated
<1> QED BY <1>2, <1>3, <1>4

\* Every call of services/fsa.c arrives.
LEMMA AllArrive == \A op \in Ops : Arrived(op)
<1> SUFFICES ASSUME NEW s \in Services, NEW op \in DOMAIN s
             PROVE  Arrived(op)
  BY DEF Ops
<1>1. CASE op = "FSA_Format" \/ s = InstallOps
  <2>1. op \in {"MCP_InstallGetInfo", "MCP_Install", "MCP_InstallTarget", "FSA_Format"}
    BY <1>1 DEF InstallOps
  <2> QED BY <2>1, OthersArrive
<1>2. CASE op # "FSA_Format" /\ s # InstallOps
  BY <1>2, OneTable, UsualTables, UsualArrives
<1> QED BY <1>1, <1>2

LEMMA OpNames ==
  {"FSA_OpenDir", "FSA_MakeDir", "FSA_CloseDir", "FSA_ReadDir", "FSA_OpenFile", "FSA_WriteFile",
   "FSA_ReadFile", "FSA_ChangeMode", "FSA_FlushVolume", "FSA_Mount", "MCP_InstallTarget",
   "MCP_InstallGetInfo", "MCP_Install"} \subseteq Ops
<1>1. {InstallOps, VolumeOps, DirOps, FileOps, DeviceOps} \subseteq Services
  BY DEF Services
<1>2. {"MCP_InstallTarget", "MCP_InstallGetInfo", "MCP_Install"} \subseteq DOMAIN InstallOps
  BY DEF InstallOps
<1>3. {"FSA_FlushVolume", "FSA_Mount"} \subseteq DOMAIN VolumeOps
  BY DEF VolumeOps
<1>4. {"FSA_OpenDir", "FSA_MakeDir", "FSA_CloseDir", "FSA_ReadDir"} \subseteq DOMAIN DirOps
  BY DEF DirOps
<1>5. {"FSA_OpenFile", "FSA_WriteFile", "FSA_ReadFile"} \subseteq DOMAIN FileOps
  BY DEF FileOps
<1>6. "FSA_ChangeMode" \in DOMAIN DeviceOps
  BY DEF DeviceOps
<1> QED BY <1>1, <1>2, <1>3, <1>4, <1>5, <1>6 DEF Ops

Called == call \in Ops

LEMMA CallStep == ASSUME call \in Ops, [Next]_wupvars PROVE call' \in Ops
<1> USE OpNames
<1>1. ASSUME fsa_copydir PROVE call' \in Ops
  BY <1>1 DEF fsa_copydir, opendir, makedir, closedir, readdir, opensrc, opendst, copy, close, Does, Fails
<1>2. ASSUME Restore \/ Install \/ PluginCall PROVE call' \in Ops
  <2>1. ASSUME FSA_Open \/ mount_sd \/ copydirs \/ flush_volumes \/ emergency_install \/ PluginCall
        PROVE  call' \in Ops
    BY <2>1 DEF FSA_Open, mount_sd, copydirs, flush_volumes, emergency_install, PluginCall, Does
  <2>2. ASSUME NEW pc, wait_storages_ready(pc) PROVE call' \in Ops
    BY <2>2 DEF wait_storages_ready
  <2> QED BY <1>1, <1>2, <2>1, <2>2 DEF Restore, Install
<1>3. ASSUME UNCHANGED copyvars PROVE call' \in Ops
  BY <1>3 DEF copyvars
<1>4. CASE Next
  BY <1>2, <1>3, <1>4, Zenon DEF Next
<1>5. CASE UNCHANGED wupvars
  BY <1>3, <1>5, Zenon DEF wupvars
<1> QED BY <1>4, <1>5

\* Whatever wupserver_main or another plugin calls, the service gets what it was
\* given: no request of services/fsa.c is put together wrongly.
THEOREM CallsSound == Spec => []CallsArrive
<1>1. Init => Called
  BY OpNames DEF Init, CopyInit, Called
<1>2. Called /\ [Next]_wupvars => Called'
  BY CallStep DEF Called
<1>3. Called => CallsArrive
  BY AllArrive DEF CallsArrive, Arrived, Unterminated, Called
<1> QED BY <1>1, <1>2, <1>3, PTL DEF Spec

-----------------------------------------------------------------------------
(* The activations of fsa_copydir *)

Paths == Seq(Names)
Bytes == 0..255
Pcs == {"opendir", "makedir", "readdir", "opensrc", "opendst", "copy", "close"}
Frames == [dir : Paths, pc : Pcs, todo : SUBSET Paths, entry : Paths, off : Nat]

\* Where the activation works on a file, which is then its entry
InFile(f) == f.pc \in {"opensrc", "opendst", "copy", "close"}

Framed(f) == f.todo \subseteq Entries(f.dir) /\ (InFile(f) => f.entry \in DOMAIN Backup)

\* An activation that has called another one waits at its readdir, and the
\* directory of the other one is deeper: no two work in the same one.
Nested ==
  /\ stack \in Seq(Frames)
  /\ \A k \in 1..Len(stack) : Framed(stack[k])
  /\ \A j, k \in 1..Len(stack) :
       j < k => stack[j].pc = "readdir" /\ Len(stack[j].dir) < Len(stack[k].dir)

Opened == \A h : h \in open <=> \E k \in 1..Len(stack) : h \in Holds(stack[k])

LEMMA HandlesSame == stack \in Seq(Frames) => (Opened <=> HandlesClosed)
  BY DEF Opened, HandlesClosed

\* The top of the stack becomes f.
Replaced(f) ==
  /\ Len(stack') = Len(stack) /\ stack'[Len(stack)] = f
  /\ \A k \in 1..Len(stack) - 1 : stack'[k] = stack[k]

LEMMA ReplaceTop ==
  ASSUME stack \in Seq(Frames), stack # <<>>, NEW f \in Frames,
         stack' = [stack EXCEPT ![Len(stack)] = f]
  PROVE  stack' \in Seq(Frames) /\ Replaced(f)
<1> DEFINE S == Frames
<1>1. stack \in Seq(S) /\ f \in S
  OBVIOUS
<1> HIDE DEF S
<1>2. stack' \in Seq(S) /\ Replaced(f)
  BY <1>1 DEF Replaced
<1> QED BY <1>2 DEF S

LEMMA PopTop ==
  ASSUME stack \in Seq(Frames), stack # <<>>, Return
  PROVE  /\ stack' \in Seq(Frames) /\ Len(stack') = Len(stack) - 1
         /\ \A k \in 1..Len(stack) - 1 : stack'[k] = stack[k]
<1> DEFINE S == Frames
<1>1. stack \in Seq(S)
  OBVIOUS
<1> HIDE DEF S
<1>2. Len(stack) - 1 \in 0..Len(stack) /\ stack' = SubSeq(stack, 1, Len(stack) - 1)
  BY <1>1 DEF Return
<1>3. PICK m \in 0..Len(stack) : m = Len(stack) - 1
  BY <1>2
<1>4. SubSeq(stack, 1, m) \in Seq(S) /\ Len(SubSeq(stack, 1, m)) = m
  BY <1>1, <1>3
<1>5. \A k \in 1..m : SubSeq(stack, 1, m)[k] = stack[k]
  BY <1>1, <1>3
<1> QED BY <1>2, <1>3, <1>4, <1>5 DEF S

LEMMA PushTop ==
  ASSUME stack \in Seq(Frames), stack # <<>>, NEW f \in Frames, NEW g \in Frames,
         stack' = [stack EXCEPT ![Len(stack)] = f] \o <<g>>
  PROVE  /\ stack' \in Seq(Frames) /\ Len(stack') = Len(stack) + 1
         /\ stack'[Len(stack)] = f /\ stack'[Len(stack) + 1] = g
         /\ \A k \in 1..Len(stack) - 1 : stack'[k] = stack[k]
<1> DEFINE S == Frames
<1>1. stack \in Seq(S) /\ f \in S /\ g \in S
  OBVIOUS
<1> HIDE DEF S
<1>2. PICK t : t = [stack EXCEPT ![Len(stack)] = f]
  OBVIOUS
<1>3. /\ t \in Seq(S) /\ Len(t) = Len(stack) /\ t[Len(stack)] = f
      /\ \A k \in 1..Len(stack) - 1 : t[k] = stack[k]
  BY <1>1, <1>2
<1>4. stack' = t \o <<g>>
  BY <1>2
<1>5. /\ stack' \in Seq(S) /\ Len(stack') = Len(stack) + 1
      /\ stack'[Len(stack) + 1] = g /\ \A k \in 1..Len(stack) : stack'[k] = t[k]
  BY <1>1, <1>3, <1>4
<1> QED BY <1>1, <1>3, <1>5 DEF S

LEMMA TopFrame ==
  ASSUME Nested, stack # <<>>
  PROVE  /\ Len(stack) \in Nat \ {0} /\ top = stack[Len(stack)] /\ top \in Frames /\ Framed(top)
         /\ top = [dir |-> top.dir, pc |-> top.pc, todo |-> top.todo, entry |-> top.entry, off |-> top.off]
         /\ top.dir \in Seq(Names) /\ top.pc \in Pcs /\ top.todo \subseteq Paths
         /\ top.entry \in Paths /\ top.off \in Nat
<1>1. stack \in Seq(Frames) /\ \A k \in 1..Len(stack) : Framed(stack[k])
  BY DEF Nested
<1>2. Len(stack) \in Nat \ {0} /\ top = stack[Len(stack)]
  BY <1>1 DEF top
<1>3. top \in Frames /\ Framed(top)
  BY <1>1, <1>2
<1> QED BY <1>2, <1>3 DEF Frames, Paths

\* A step of the activation on top that stays in it
LEMMA ReplaceStep ==
  ASSUME Nested, Opened, stack # <<>>, NEW f \in Frames, Framed(f), f.dir = top.dir,
         stack' = [stack EXCEPT ![Len(stack)] = f],
         open' = (open \ Holds(top)) \cup Holds(f)
  PROVE  Nested' /\ Opened'
<1> DEFINE n == Len(stack)
<1>1. /\ stack' \in Seq(Frames) /\ Len(stack') = n /\ n \in Nat \ {0} /\ stack'[n] = f /\ top = stack[n]
      /\ \A k \in 1..n - 1 : stack'[k] = stack[k]
  BY ReplaceTop DEF Nested, Replaced, top
<1> HIDE DEF n
<1>2. Nested'
  <2>1. \A k \in 1..n : Framed(stack[k])
    BY DEF Nested, n
  <2>2. \A k \in 1..n : Framed(stack'[k])
    BY <1>1, <2>1
  <2>3. \A j, k \in 1..n :
          j < k => stack[j].pc = "readdir" /\ Len(stack[j].dir) < Len(stack[k].dir)
    BY DEF Nested, n
  <2>4. \A j, k \in 1..n :
          j < k => stack'[j].pc = "readdir" /\ Len(stack'[j].dir) < Len(stack'[k].dir)
    BY <1>1, <2>3
  <2> QED BY <1>1, <2>2, <2>4 DEF Nested, Framed, Entries, InFile
<1>3. Opened'
  <2>1. \A h : h \in open <=> \E k \in 1..n : h \in Holds(stack[k])
    BY DEF Opened, n
  <2>2. ASSUME NEW k \in 1..n - 1
        PROVE  Holds(stack[k]) \cap Holds(top) = {}
    <3>1. \A i, j \in 1..n :
            i < j => stack[i].pc = "readdir" /\ Len(stack[i].dir) < Len(stack[j].dir)
      BY DEF Nested, n
    <3>2. k \in 1..n /\ n \in 1..n /\ k < n
      BY <1>1
    <3>3. stack[k].pc = "readdir" /\ Len(stack[k].dir) < Len(top.dir)
      BY <1>1, <3>1, <3>2
    <3>4. top.dir \in Seq(Names)
      BY TopFrame
    <3>5. stack[k].dir # top.dir
      BY <3>3, <3>4
    <3> QED BY <3>3, <3>5 DEF Holds
  <2>3. \A h : h \in open' <=> \E k \in 1..n : h \in Holds(stack'[k])
    BY <1>1, <2>1, <2>2
  <2> QED BY <1>1, <2>3 DEF Opened, Holds
<1> QED BY <1>2, <1>3

\* The activation on top returns.
LEMMA PopStep ==
  ASSUME Nested, Opened, stack # <<>>, Return, open' = open \ Holds(top)
  PROVE  Nested' /\ Opened'
<1> DEFINE n == Len(stack)
<1>1. /\ stack' \in Seq(Frames) /\ Len(stack') = n - 1 /\ n \in Nat \ {0} /\ top = stack[n]
      /\ \A k \in 1..n - 1 : stack'[k] = stack[k]
  BY PopTop DEF Nested, top
<1> HIDE DEF n
<1>2. Nested'
  <2>1. \A k \in 1..n - 1 : Framed(stack'[k])
    BY <1>1 DEF Nested, n
  <2>2. \A j, k \in 1..n :
          j < k => stack[j].pc = "readdir" /\ Len(stack[j].dir) < Len(stack[k].dir)
    BY DEF Nested, n
  <2>3. \A j, k \in 1..n - 1 :
          j < k => stack'[j].pc = "readdir" /\ Len(stack'[j].dir) < Len(stack'[k].dir)
    BY SMTT(30), <1>1, <2>2
  <2> QED BY <1>1, <2>1, <2>3 DEF Nested, Framed, Entries, InFile
<1>3. Opened'
  <2>1. \A h : h \in open <=> \E k \in 1..n : h \in Holds(stack[k])
    BY DEF Opened, n
  <2>2. ASSUME NEW k \in 1..n - 1
        PROVE  Holds(stack[k]) \cap Holds(top) = {}
    <3>1. \A i, j \in 1..n :
            i < j => stack[i].pc = "readdir" /\ Len(stack[i].dir) < Len(stack[j].dir)
      BY DEF Nested, n
    <3>2. k \in 1..n /\ n \in 1..n /\ k < n
      BY <1>1
    <3>3. stack[k].pc = "readdir" /\ Len(stack[k].dir) < Len(top.dir)
      BY <1>1, <3>1, <3>2
    <3>4. top.dir \in Seq(Names)
      BY TopFrame
    <3>5. stack[k].dir # top.dir
      BY <3>3, <3>4
    <3> QED BY <3>3, <3>5 DEF Holds
  <2>3. \A h : h \in open' <=> \E k \in 1..n - 1 : h \in Holds(stack'[k])
    BY <1>1, <2>1, <2>2
  <2> QED BY <1>1, <2>3 DEF Opened, Holds
<1> QED BY <1>2, <1>3

\* The handles of the activation on top are open.
LEMMA TopOpen ==
  ASSUME Nested, Opened, stack # <<>>
  PROVE  Holds(top) \subseteq open
  BY TopFrame DEF Opened

\* What Goto does
LEMMA GotoTop ==
  ASSUME Nested, stack # <<>>, NEW pc \in Pcs, Goto(pc)
  PROVE  /\ [top EXCEPT !.pc = pc] \in Frames
         /\ stack' = [stack EXCEPT ![Len(stack)] = [top EXCEPT !.pc = pc]]
<1>1. [top EXCEPT !.pc = pc] \in Frames
  BY TopFrame DEF Frames
<1>2. stack' = [stack EXCEPT ![Len(stack)] = [stack[Len(stack)] EXCEPT !.pc = pc]]
  BY Zenon DEF Goto
<1> QED BY <1>1, <1>2 DEF top

\* A step that only goes to another place
LEMMA GotoStep ==
  ASSUME Nested, Opened, stack # <<>>, NEW pc \in Pcs, Goto(pc),
         pc \in {"opensrc", "opendst", "copy", "close"} => InFile(top),
         \A f : f.pc = pc /\ f.dir = top.dir /\ f.entry = top.entry =>
           open' = (open \ Holds(top)) \cup Holds(f)
  PROVE  Nested' /\ Opened'
<1>1. PICK f : f = [top EXCEPT !.pc = pc]
  OBVIOUS
<1>2. f \in Frames /\ stack' = [stack EXCEPT ![Len(stack)] = f]
  BY <1>1, GotoTop
<1>3. f.dir = top.dir /\ f.todo = top.todo /\ f.pc = pc /\ f.entry = top.entry
  BY <1>1, TopFrame
<1>4. Framed(f)
  BY <1>3, TopFrame DEF Framed, InFile
<1>5. open' = (open \ Holds(top)) \cup Holds(f)
  BY <1>3
<1> QED BY <1>2, <1>3, <1>4, <1>5, ReplaceStep

\* A block is never longer than what is left of the file, nor empty before its end.
LEMMA CurSize ==
  ASSUME Nested, stack # <<>>, InFile(top), top.off < fsize
  PROVE  /\ top.entry \in DOMAIN Backup /\ fsize = Len(Backup[top.entry])
         /\ cur_size \in Nat \ {0} /\ top.off + cur_size <= fsize
<1>1. top.entry \in DOMAIN Backup /\ top.off \in Nat
  BY TopFrame DEF Framed
<1>2. Backup[top.entry] \in Seq(0..255) /\ BlockSize \in Nat \ {0}
  BY <1>1, FsaCopyAssumption
<1>3. fsize \in Nat /\ fsize = Len(Backup[top.entry])
  BY <1>2 DEF fsize
<1> QED BY <1>1, <1>2, <1>3 DEF cur_size

LEMMA opendirStep == ASSUME Nested, Opened, opendir PROVE Nested' /\ Opened'
<1>1. stack # <<>> /\ top.pc = "opendir" /\ Holds(top) = {}
  BY DEF opendir, At, Holds
<1>2. ASSUME Goto("makedir"), open' = open \cup {Dir}
      PROVE  Nested' /\ Opened'
  <2>1. ASSUME NEW f, f.pc = "makedir", f.dir = top.dir
        PROVE  Holds(f) = {Dir}
    BY <2>1 DEF Holds, Dir
  <2> QED BY <1>1, <1>2, <2>1, GotoStep DEF Pcs
<1>3. ASSUME Return, UNCHANGED open
      PROVE  Nested' /\ Opened'
  BY <1>1, <1>3, PopStep
<1> QED BY <1>2, <1>3 DEF opendir

LEMMA makedirStep == ASSUME Nested, Opened, makedir PROVE Nested' /\ Opened'
<1>1. stack # <<>> /\ top.pc = "makedir" /\ Holds(top) = {Dir} /\ Dir \in open
  BY TopOpen DEF makedir, At, Holds, Dir
<1>2. ASSUME Goto("readdir"), UNCHANGED open
      PROVE  Nested' /\ Opened'
  <2>1. ASSUME NEW f, f.pc = "readdir", f.dir = top.dir
        PROVE  Holds(f) = {Dir}
    BY <2>1 DEF Holds, Dir
  <2> QED BY <1>1, <1>2, <2>1, GotoStep DEF Pcs
<1>3. ASSUME Return, open' = open \ {Dir}
      PROVE  Nested' /\ Opened'
  BY <1>1, <1>3, PopStep
<1> QED BY <1>2, <1>3 DEF makedir

LEMMA closedirStep == ASSUME Nested, Opened, closedir PROVE Nested' /\ Opened'
<1>1. stack # <<>> /\ top.pc = "readdir" /\ Holds(top) = {Dir}
  BY DEF closedir, At, Holds, Dir
<1> QED BY <1>1, PopStep DEF closedir

LEMMA opensrcStep == ASSUME Nested, Opened, opensrc PROVE Nested' /\ Opened'
<1>1. stack # <<>> /\ top.pc = "opensrc" /\ Holds(top) = {Dir} /\ Dir \in open
  BY TopOpen DEF opensrc, At, Holds, Dir
<1>2. ASSUME Goto("opendst"), open' = open \cup {Src}
      PROVE  Nested' /\ Opened'
  <2>1. ASSUME NEW f, f.pc = "opendst", f.dir = top.dir, f.entry = top.entry
        PROVE  Holds(f) = {Dir, Src}
    BY <2>1 DEF Holds, Dir, Src
  <2> QED BY <1>1, <1>2, <2>1, GotoStep DEF Pcs, InFile
<1>3. ASSUME Return, open' = open \ {Dir}
      PROVE  Nested' /\ Opened'
  BY <1>1, <1>3, PopStep
<1> QED BY <1>2, <1>3 DEF opensrc

LEMMA opendstStep == ASSUME Nested, Opened, opendst PROVE Nested' /\ Opened'
<1>1. stack # <<>> /\ top.pc = "opendst" /\ Holds(top) = {Src, Dir} /\ {Src, Dir} \subseteq open
  BY TopOpen DEF opendst, At, Holds, Dir, Src
<1>2. ASSUME Goto("copy"), open' = open \cup {Dst}
      PROVE  Nested' /\ Opened'
  <2>1. ASSUME NEW f, f.pc = "copy", f.dir = top.dir, f.entry = top.entry
        PROVE  Holds(f) = {Dir, Src, Dst}
    BY <2>1 DEF Holds, Dir, Src, Dst
  <2> QED BY <1>1, <1>2, <2>1, GotoStep DEF Pcs, InFile
<1>3. ASSUME Return, open' = open \ {Src, Dir}
      PROVE  Nested' /\ Opened'
  BY <1>1, <1>3, PopStep
<1> QED BY <1>2, <1>3 DEF opendst

LEMMA closeStep == ASSUME Nested, Opened, close PROVE Nested' /\ Opened'
<1>1. /\ stack # <<>> /\ top.pc \in {"copy", "close"} /\ Holds(top) = {Dir, Src, Dst}
      /\ {Dir, Src, Dst} \subseteq open
  BY TopOpen DEF close, At, Holds, Dir, Src, Dst
<1>2. Goto("readdir") /\ open' = open \ {Src, Dst}
  BY DEF close
<1>3. ASSUME NEW f, f.pc = "readdir", f.dir = top.dir
      PROVE  Holds(f) = {Dir}
  BY <1>3 DEF Holds, Dir
<1>4. Dir # Src /\ Dir # Dst
  BY DEF Dir, Src, Dst
<1> QED BY <1>1, <1>2, <1>3, <1>4, GotoStep DEF Pcs

\* What the loop of fsa_copydir does when a block has been written
LEMMA OffTop ==
  ASSUME Nested, stack # <<>>, NEW c \in Nat, c = cur_size,
         stack' = [stack EXCEPT ![Len(stack)].off = @ + cur_size]
  PROVE  \E f \in Frames :
           /\ stack' = [stack EXCEPT ![Len(stack)] = f] /\ f.pc = top.pc /\ f.dir = top.dir
           /\ f.todo = top.todo /\ f.entry = top.entry /\ f.off = top.off + c
<1>1. PICK f : f = [stack[Len(stack)] EXCEPT !.off = @ + c]
  OBVIOUS
<1>2. stack' = [stack EXCEPT ![Len(stack)] = f]
  BY <1>1
<1>3. top = stack[Len(stack)]
  BY DEF top
<1>4. f = [top EXCEPT !.off = top.off + c]
  BY <1>1, <1>3
<1>5. top.off + c \in Nat
  BY TopFrame
<1>6. /\ f \in Frames /\ f.pc = top.pc /\ f.dir = top.dir
      /\ f.todo = top.todo /\ f.entry = top.entry /\ f.off = top.off + c
  BY <1>4, <1>5, TopFrame DEF Frames
<1> QED BY <1>2, <1>6

LEMMA copyStep == ASSUME Nested, Opened, copy PROVE Nested' /\ Opened'
<1>1. /\ stack # <<>> /\ top.pc = "copy" /\ Holds(top) = {Dir, Src, Dst}
      /\ {Dir, Src, Dst} \subseteq open /\ open' = open
  BY TopOpen DEF copy, At, Holds, Dir, Src, Dst
<1>2. ASSUME Goto("close")
      PROVE  Nested' /\ Opened'
  <2>1. ASSUME NEW f, f.pc = "close", f.dir = top.dir, f.entry = top.entry
        PROVE  Holds(f) = {Dir, Src, Dst}
    BY <2>1 DEF Holds, Dir, Src, Dst
  <2> QED BY <1>1, <1>2, <2>1, GotoStep DEF Pcs, InFile
<1>3. ASSUME stack' = [stack EXCEPT ![Len(stack)].off = @ + cur_size]
      PROVE  Nested' /\ Opened'
  <2>1. cur_size \in Nat
    BY <1>1, CurSize DEF InFile, copy
  <2>2. PICK f \in Frames :
          /\ stack' = [stack EXCEPT ![Len(stack)] = f] /\ f.pc = top.pc /\ f.dir = top.dir
          /\ f.todo = top.todo /\ f.entry = top.entry /\ f.off = top.off + cur_size
    BY <1>1, <1>3, <2>1, OffTop
  <2>5. Framed(f) /\ Holds(f) = Holds(top)
    BY <1>1, <2>2, TopFrame DEF Framed, InFile, Holds
  <2> QED BY <1>1, <2>2, <2>5, ReplaceStep
<1> QED BY <1>2, <1>3 DEF copy

\* An entry of the directory is one level deeper.
LEMMA EntryPath ==
  ASSUME NEW p \in Paths, NEW q \in Entries(p)
  PROVE  q \in Paths /\ Len(q) = Len(p) + 1 /\ q \in Dirs \cup DOMAIN Backup
  BY FsaCopyAssumption DEF Entries, Paths

LEMMA NewFrame ==
  ASSUME NEW p \in Paths
  PROVE  /\ Frame(p) \in Frames /\ Framed(Frame(p)) /\ Holds(Frame(p)) = {}
         /\ Frame(p).dir = p /\ Frame(p).pc = "opendir" /\ Frame(p).todo = Entries(p)
<1>1. Entries(p) \subseteq Paths
  BY EntryPath
<1>2. /\ Frame(p).dir = p /\ Frame(p).pc = "opendir" /\ Frame(p).todo = Entries(p)
      /\ Frame(p).entry = p /\ Frame(p).off = 0
  BY DEF Frame
<1>3. Frame(p) \in Frames
  BY <1>1 DEF Frame, Frames, Pcs
<1> QED BY <1>2, <1>3 DEF Framed, InFile, Holds

\* What readdir puts on the stack
LEMMA ReadEntry ==
  ASSUME Nested, readdir
  PROVE  /\ stack # <<>> /\ top.pc = "readdir"
         /\ \E q \in top.todo, f \in Frames :
              /\ f.dir = top.dir /\ f.todo = top.todo \ {q} /\ f.entry = q /\ Framed(f)
              /\ \/ /\ q \in Dirs /\ f.pc = "readdir"
                    /\ stack' = [stack EXCEPT ![Len(stack)] = f] \o <<Frame(q)>>
                 \/ /\ q \notin Dirs /\ f.pc = "opensrc" /\ f.off = 0
                    /\ stack' = [stack EXCEPT ![Len(stack)] = f]
<1>1. stack # <<>> /\ top.pc = "readdir"
  BY DEF readdir, At
<1>2. PICK q \in top.todo :
        LET me == [top EXCEPT !.entry = q, !.todo = @ \ {q}]
        IN  stack' = IF q \in Dirs
                       THEN [stack EXCEPT ![Len(stack)] = me] \o <<Frame(q)>>
                       ELSE [stack EXCEPT ![Len(stack)] = [me EXCEPT !.pc = "opensrc", !.off = 0]]
  BY DEF readdir
<1>3. PICK me : me = [top EXCEPT !.entry = q, !.todo = top.todo \ {q}]
  OBVIOUS
<1>4. /\ q \in Dirs => stack' = [stack EXCEPT ![Len(stack)] = me] \o <<Frame(q)>>
      /\ q \notin Dirs => stack' = [stack EXCEPT ![Len(stack)] = [me EXCEPT !.pc = "opensrc", !.off = 0]]
  BY <1>2, <1>3
<1>5. q \in Paths /\ q \in Dirs \cup DOMAIN Backup
  BY <1>1, TopFrame, EntryPath DEF Framed, Paths
<1>6. me = [dir |-> top.dir, pc |-> "readdir", todo |-> top.todo \ {q}, entry |-> q, off |-> top.off]
  BY <1>1, <1>3, TopFrame
<1>7. PICK g : g = [me EXCEPT !.pc = "opensrc", !.off = 0]
  OBVIOUS
<1>8. g = [dir |-> top.dir, pc |-> "opensrc", todo |-> top.todo \ {q}, entry |-> q, off |-> 0]
  BY <1>6, <1>7
<1>9. me \in Frames /\ g \in Frames
  BY <1>1, <1>5, <1>6, <1>8, TopFrame DEF Frames, Pcs, Paths
<1>10. CASE q \in Dirs
  <2>1. me.dir = top.dir /\ me.todo = top.todo \ {q} /\ me.entry = q /\ me.pc = "readdir"
    BY <1>6
  <2>2. Framed(me)
    BY <2>1, <1>1, TopFrame DEF Framed, InFile
  <2> QED BY <1>1, <1>4, <1>9, <1>10, <2>1, <2>2
<1>11. CASE q \notin Dirs
  <2>1. g.dir = top.dir /\ g.todo = top.todo \ {q} /\ g.entry = q /\ g.pc = "opensrc" /\ g.off = 0
    BY <1>8
  <2>2. Framed(g)
    BY <2>1, <1>1, <1>5, <1>11, TopFrame DEF Framed, InFile
  <2> QED BY <1>1, <1>4, <1>7, <1>9, <1>11, <2>1, <2>2
<1> QED BY <1>10, <1>11

LEMMA readdirStep == ASSUME Nested, Opened, readdir PROVE Nested' /\ Opened'
<1>1. PICK q \in top.todo, f \in Frames :
        /\ f.dir = top.dir /\ f.todo = top.todo \ {q} /\ f.entry = q /\ Framed(f)
        /\ \/ /\ q \in Dirs /\ f.pc = "readdir"
              /\ stack' = [stack EXCEPT ![Len(stack)] = f] \o <<Frame(q)>>
           \/ /\ q \notin Dirs /\ f.pc = "opensrc"
              /\ stack' = [stack EXCEPT ![Len(stack)] = f]
  BY ReadEntry
<1>2. stack # <<>> /\ top.pc = "readdir" /\ open' = open
  BY DEF readdir, At
<1>3. Holds(top) = {Dir} /\ Dir \in open /\ Holds(f) = {Dir}
  BY <1>1, <1>2, TopOpen DEF Holds, Dir
<1>4. CASE stack' = [stack EXCEPT ![Len(stack)] = f]
  BY <1>1, <1>2, <1>3, <1>4, ReplaceStep
<1>5. CASE f.pc = "readdir" /\ stack' = [stack EXCEPT ![Len(stack)] = f] \o <<Frame(q)>>
  <2> DEFINE n == Len(stack)
             g == Frame(q)
  <2>1. q \in Paths /\ Len(q) = Len(top.dir) + 1
    BY <1>2, TopFrame, EntryPath DEF Framed, Paths
  <2>2. g \in Frames /\ Framed(g) /\ Holds(g) = {} /\ g.dir = q
    BY <2>1, NewFrame
  <2> HIDE DEF g
  <2>3. /\ stack' \in Seq(Frames) /\ Len(stack') = n + 1 /\ n \in Nat \ {0} /\ top = stack[n]
        /\ stack'[n] = f /\ stack'[n + 1] = g
        /\ \A k \in 1..n - 1 : stack'[k] = stack[k]
    BY <1>2, <1>5, <2>2, PushTop, TopFrame DEF Nested, g
  <2>4. /\ \A k \in 1..n : Framed(stack[k])
        /\ \A j, k \in 1..n :
             j < k => stack[j].pc = "readdir" /\ Len(stack[j].dir) < Len(stack[k].dir)
        /\ \A h : h \in open <=> \E k \in 1..n : h \in Holds(stack[k])
    BY DEF Nested, Opened
  <2>5. Len(top.dir) \in Nat
    BY <1>2, TopFrame
  <2> HIDE DEF n
  <2>6. \A k \in 1..n + 1 : Framed(stack'[k])
    BY <1>1, <2>2, <2>3, <2>4
  <2>7. \A j, k \in 1..n + 1 :
          j < k => stack'[j].pc = "readdir" /\ Len(stack'[j].dir) < Len(stack'[k].dir)
    <3> SUFFICES ASSUME NEW j \in 1..n + 1, NEW k \in 1..n + 1, j < k
                 PROVE  stack'[j].pc = "readdir" /\ Len(stack'[j].dir) < Len(stack'[k].dir)
      OBVIOUS
    <3>1. CASE k <= n
      BY <1>1, <1>5, <2>3, <2>4, <3>1
    <3>2. CASE k = n + 1 /\ j = n
      BY <1>1, <1>5, <2>1, <2>2, <2>3, <2>5, <3>2
    <3>3. CASE k = n + 1 /\ j < n
      <4>1. stack'[j] = stack[j] /\ j \in 1..n /\ n \in 1..n
        BY <2>3, <3>3
      <4>2. stack[j].pc = "readdir" /\ Len(stack[j].dir) < Len(top.dir)
        BY <2>3, <2>4, <3>3, <4>1
      <4>a. stack[j] \in Frames
        BY <4>1 DEF Nested, n
      <4>3. stack[j].dir \in Seq(Names)
        BY <4>a DEF Frames, Paths
      <4>4. Len(stack[j].dir) \in Nat
        BY <4>3
      <4> QED BY SMTT(30), <2>1, <2>2, <2>3, <2>5, <3>3, <4>1, <4>2, <4>4
    <3> QED BY <2>3, <3>1, <3>2, <3>3
  <2>8. \A h : h \in open' <=> \E k \in 1..n + 1 : h \in Holds(stack'[k])
    BY <1>2, <1>3, <2>2, <2>3, <2>4
  <2>9. Nested'
    BY <2>3, <2>6, <2>7 DEF Nested, Framed, Entries, InFile
  <2>10. Opened'
    BY <2>3, <2>8 DEF Opened, Holds
  <2> QED BY <2>9, <2>10
<1> QED BY <1>1, <1>4, <1>5

LEMMA copydirsStep == ASSUME Nested, Opened, copydirs PROVE Nested' /\ Opened'
<1>1. main \in Names /\ stack = <<>> /\ open' = open
  BY DEF copydirs, Stage, Names
<1>2. <<main>> \in Paths
  BY <1>1 DEF Paths
<1>3. PICK f : f = Frame(<<main>>)
  OBVIOUS
<1>a. stack' = <<f>>
  BY <1>3, Zenon DEF copydirs
<1>4. f \in Frames /\ Framed(f) /\ Holds(f) = {} /\ stack' = <<f>>
  BY <1>a, <1>2, <1>3, NewFrame, Zenon
<1>5. stack' \in Seq(Frames) /\ Len(stack') = 1 /\ stack'[1] = f
  BY <1>4
<1>6. \A h : h \notin open'
  BY <1>1 DEF Opened
<1>7. Opened'
  BY <1>4, <1>5, <1>6 DEF Opened, Holds
<1>8. Nested'
  BY <1>4, <1>5 DEF Nested, Framed, Entries, InFile
<1> QED BY <1>7, <1>8

CopyInv == Nested /\ Opened

LEMMA StackSame == ASSUME CopyInv, UNCHANGED <<stack, open>> PROVE CopyInv'
  BY DEF CopyInv, Nested, Opened, Framed, Entries, InFile, Holds

LEMMA CopyStep == ASSUME CopyInv, [Next]_wupvars PROVE CopyInv'
<1>1. ASSUME fsa_copydir PROVE CopyInv'
  BY <1>1, opendirStep, makedirStep, closedirStep, readdirStep, opensrcStep, opendstStep, copyStep,
     closeStep DEF fsa_copydir, CopyInv
<1>2. ASSUME copydirs PROVE CopyInv'
  BY <1>2, copydirsStep DEF CopyInv
<1>3. ASSUME FSA_Open \/ mount_sd \/ flush_volumes \/ emergency_install \/ PluginCall
      PROVE  UNCHANGED <<stack, open>>
  BY <1>3 DEF FSA_Open, mount_sd, flush_volumes, emergency_install, PluginCall
<1>4. ASSUME NEW pc, wait_storages_ready(pc) PROVE UNCHANGED <<stack, open>>
  BY <1>4 DEF wait_storages_ready
<1>5. ASSUME Restore \/ Install \/ PluginCall PROVE CopyInv'
  BY <1>1, <1>2, <1>3, <1>4, <1>5, StackSame DEF Restore, Install
<1>6. ASSUME UNCHANGED copyvars PROVE CopyInv'
  BY <1>6, StackSame DEF copyvars
<1>7. CASE Next
  BY <1>5, <1>6, <1>7, Zenon DEF Next
<1>8. CASE UNCHANGED wupvars
  BY <1>6, <1>8, Zenon DEF wupvars
<1> QED BY <1>7, <1>8

LEMMA CopyStart == ASSUME Init PROVE CopyInv
<1>1. stack = <<>> /\ open = {}
  BY DEF Init, CopyInit
<1> QED BY <1>1 DEF CopyInv, Nested, Opened

\* However deep the directories are and whichever calls fail, the handles that are
\* open at FSA are those of the activations of fsa_copydir that have not returned.
THEOREM HandlesKept == Spec => []HandlesClosed
<1>1. Init => CopyInv
  BY CopyStart
<1>2. CopyInv /\ [Next]_wupvars => CopyInv'
  BY CopyStep
<1>3. CopyInv => HandlesClosed
  BY HandlesSame DEF CopyInv, Nested
<1> QED BY <1>1, <1>2, <1>3, PTL DEF Spec

-----------------------------------------------------------------------------
(* The files *)

\* What the activation on top has written of its file
Writes ==
  stack # <<>> =>
    /\ top.pc \in {"opensrc", "opendst"} => top.off = 0
    /\ top.pc = "copy" => /\ top.off <= Len(Backup[top.entry])
                          /\ mlc[top.entry] = SubSeq(Backup[top.entry], 1, top.off)
    /\ top.pc = "close" => failed

Parts ==
  /\ mlc \in [DOMAIN Backup -> Seq(Bytes)]
  /\ \A p \in DOMAIN Backup : mlc[p] = OldMlc[p] \/ IsPrefixOf(mlc[p], Backup[p])

\* Why a file may be incomplete: a call has failed, its directory has not been begun,
\* or an activation still has to copy it or a directory it is in.
Before(p) == main \notin {"sys", "flush", "done"} \/ (main = "sys" /\ SubSeq(p, 1, 1) = <<"sys">>)
Waits(p, f) ==
  \/ InFile(f) /\ f.entry = p
  \/ \E n \in 1..Len(p) : SubSeq(p, 1, n) \in f.todo
Pending(p) == failed \/ Before(p) \/ \E k \in 1..Len(stack) : Waits(p, stack[k])

Whole ==
  /\ \A p \in DOMAIN Backup : mlc[p] = Backup[p] \/ Pending(p)
  /\ main = "done" => stack = <<>>

FileInv == Writes /\ Parts /\ Whole

\* A sequence that consists of two others
LEMMA Joined ==
  ASSUME NEW S, NEW s \in Seq(S), NEW t \in Seq(S), NEW u \in Seq(S),
         Len(u) = Len(s) + Len(t),
         \A i \in 1..Len(s) : u[i] = s[i], \A i \in 1..Len(t) : u[Len(s) + i] = t[i]
  PROVE  s \o t = u
<1>1. s \o t \in Seq(S) /\ Len(s \o t) = Len(s) + Len(t)
  OBVIOUS
<1>2. ASSUME NEW i \in 1..Len(u) PROVE (s \o t)[i] = u[i]
  <2>1. (s \o t)[i] = IF i <= Len(s) THEN s[i] ELSE t[i - Len(s)]
    BY ConcatProperties
  <2>2. CASE i <= Len(s)
    BY <2>1, <2>2
  <2>3. CASE i > Len(s)
    <3>1. i - Len(s) \in 1..Len(t) /\ Len(s) + (i - Len(s)) = i
      BY <2>3
    <3>2. u[Len(s) + (i - Len(s))] = t[i - Len(s)]
      BY <3>1
    <3> QED BY <2>1, <2>3, <3>1, <3>2
  <2> QED BY <2>2, <2>3
<1> DEFINE w == s \o t
<1> HIDE DEF w
<1>3. w \in Seq(S) /\ Len(w) = Len(u) /\ \A i \in 1..Len(u) : w[i] = u[i]
  BY <1>1, <1>2 DEF w
<1>4. w = u
  BY <1>3, SeqEqual
<1> QED BY <1>4 DEF w

\* The first part of a sequence and the next
LEMMA NextPart ==
  ASSUME NEW S, NEW b \in Seq(S), NEW o \in Nat, NEW n \in Nat, o + n <= Len(b)
  PROVE  /\ SubSeq(b, 1, o) \o SubSeq(b, o + 1, o + n) = SubSeq(b, 1, o + n)
         /\ SubSeq(b, 1, o + n) \in Seq(S) /\ IsPrefixOf(SubSeq(b, 1, o + n), b)
<1>1. /\ SubSeq(b, 1, o) \in Seq(S) /\ Len(SubSeq(b, 1, o)) = o
      /\ \A i \in 1..o : SubSeq(b, 1, o)[i] = b[i]
  OBVIOUS
<1>2. /\ SubSeq(b, o + 1, o + n) \in Seq(S) /\ Len(SubSeq(b, o + 1, o + n)) = n
      /\ \A i \in 1..n : SubSeq(b, o + 1, o + n)[i] = b[o + i]
  OBVIOUS
<1>3. /\ SubSeq(b, 1, o + n) \in Seq(S) /\ Len(SubSeq(b, 1, o + n)) = o + n
      /\ \A i \in 1..o + n : SubSeq(b, 1, o + n)[i] = b[i]
  OBVIOUS
<1>4. ASSUME NEW i \in 1..n PROVE SubSeq(b, 1, o + n)[o + i] = SubSeq(b, o + 1, o + n)[i]
  BY <1>2, <1>3
<1>5. SubSeq(b, 1, o) \o SubSeq(b, o + 1, o + n) = SubSeq(b, 1, o + n)
  <2> DEFINE s == SubSeq(b, 1, o)
             t == SubSeq(b, o + 1, o + n)
             u == SubSeq(b, 1, o + n)
  <2>1. /\ s \in Seq(S) /\ t \in Seq(S) /\ u \in Seq(S)
        /\ Len(s) = o /\ Len(t) = n /\ Len(u) = o + n
        /\ \A i \in 1..n : u[o + i] = t[i]
    BY Zenon, <1>1, <1>2, <1>3, <1>4
  <2>2. \A i \in 1..o : u[i] = s[i]
    BY <1>1, <1>3
  <2> HIDE DEF s, t, u
  <2>3. s \o t = u
    BY <2>1, <2>2, Joined
  <2> QED BY <2>3 DEF s, t, u
<1> QED BY <1>3, <1>5 DEF IsPrefixOf

\* The whole of a sequence
LEMMA AllOf ==
  ASSUME NEW S, NEW b \in Seq(S)
  PROVE  SubSeq(b, 1, Len(b)) = b
  OBVIOUS

LEMMA NonePart ==
  ASSUME NEW S, NEW b \in Seq(S)
  PROVE  /\ SubSeq(b, 1, 0) = <<>> /\ <<>> \in Seq(S) /\ Len(b) \in Nat /\ IsPrefixOf(<<>>, b)
  BY DEF IsPrefixOf

LEMMA Contents == \A p \in DOMAIN Backup : Backup[p] \in Seq(Bytes) /\ OldMlc[p] \in Seq(Bytes)
  BY FsaCopyAssumption DEF Bytes

\* A directory above a file, and the next one on the way to it
LEMMA Below ==
  ASSUME NEW p \in DOMAIN Backup, NEW n \in 1..Len(p)
  PROVE  /\ SubSeq(p, 1, n) \in Dirs => n < Len(p) /\ SubSeq(p, 1, n + 1) \in Entries(SubSeq(p, 1, n))
         /\ SubSeq(p, 1, n) \notin Dirs => SubSeq(p, 1, n) = p
<1>1. /\ p \in Seq(Names) /\ p \notin Dirs
      /\ \A m \in 1..Len(p) - 1 : SubSeq(p, 1, m) \in Dirs
  BY FsaCopyAssumption
<1>2. SubSeq(p, 1, Len(p)) = p
  BY <1>1, AllOf
<1>3. CASE n = Len(p)
  BY <1>1, <1>2, <1>3
<1>4. CASE n < Len(p)
  <2>1. n \in 1..Len(p) - 1 /\ n + 1 \in 1..Len(p) /\ Len(p) \in Nat
    BY <1>1, <1>4
  <2>2. SubSeq(p, 1, n + 1) \in Dirs \cup DOMAIN Backup
    <3>1. CASE n + 1 = Len(p)
      BY <1>2, <3>1
    <3>2. CASE n + 1 < Len(p)
      BY <1>1, <2>1, <3>2
    <3> QED BY <2>1, <3>1, <3>2
  <2>3. PICK q, d : q = SubSeq(p, 1, n + 1) /\ d = SubSeq(p, 1, n)
    OBVIOUS
  <2>4. /\ q \in Seq(Names) /\ Len(q) = n + 1 /\ \A i \in 1..n + 1 : q[i] = p[i]
        /\ d \in Seq(Names) /\ Len(d) = n /\ \A i \in 1..n : d[i] = p[i]
    BY <1>1, <2>1, <2>3
  <2>5. SubSeq(q, 1, n) = d
    <3>1. /\ SubSeq(q, 1, n) \in Seq(Names) /\ Len(SubSeq(q, 1, n)) = n
          /\ \A i \in 1..n : SubSeq(q, 1, n)[i] = q[i]
      BY <2>1, <2>4
    <3> QED BY <2>4, <3>1
  <2>6. q \in Entries(d)
    BY <2>2, <2>3, <2>4, <2>5 DEF Entries
  <2> QED BY <1>1, <1>4, <2>1, <2>3, <2>6
<1> QED BY <1>1, <1>3, <1>4

\* What is pending stays so while the activation on top becomes f.
LEMMA PendKept ==
  ASSUME Len(stack) \in Nat \ {0}, NEW f, Replaced(f),
         failed => failed', UNCHANGED main, NEW p, Pending(p), Waits(p, top) => Waits(p, f)
  PROVE  Pending(p)'
<1>1. /\ Len(stack') = Len(stack) /\ stack'[Len(stack)] = f
      /\ \A k \in 1..Len(stack) - 1 : stack'[k] = stack[k]
  BY DEF Replaced
<1>2. CASE failed
  BY <1>2 DEF Pending
<1>3. CASE Before(p)
  BY <1>3 DEF Pending, Before
<1>4. ASSUME NEW k \in 1..Len(stack), Waits(p, stack[k])
      PROVE  Pending(p)'
  <2>1. Waits(p, stack'[k])
    <3>1. CASE k = Len(stack)
      BY <1>1, <1>4, <3>1 DEF top
    <3>2. CASE k # Len(stack)
      <4>1. k \in 1..Len(stack) - 1
        BY <3>2
      <4> QED BY <1>1, <1>4, <4>1
    <3> QED BY <3>1, <3>2
  <2> QED BY <1>1, <2>1 DEF Pending, Waits, InFile
<1> QED BY <1>2, <1>3, <1>4 DEF Pending

LEMMA PendReplace ==
  ASSUME Nested, stack # <<>>, NEW f \in Frames, stack' = [stack EXCEPT ![Len(stack)] = f],
         failed => failed', UNCHANGED main, NEW p, Pending(p), Waits(p, top) => Waits(p, f)
  PROVE  Pending(p)'
  BY ReplaceTop, TopFrame, PendKept DEF Nested

\* The top frame after a step
LEMMA TopReplaced ==
  ASSUME Nested, stack # <<>>, NEW f \in Frames, stack' = [stack EXCEPT ![Len(stack)] = f]
  PROVE  top' = f /\ stack' # <<>>
<1>1. Len(stack') = Len(stack) /\ stack'[Len(stack)] = f /\ Len(stack) \in Nat \ {0}
  BY ReplaceTop, TopFrame DEF Nested, Replaced
<1> QED BY <1>1 DEF top

LEMMA TopPopped ==
  ASSUME Nested, stack # <<>>, Return, stack' # <<>>
  PROVE  top'.pc = "readdir"
<1>1. /\ stack' \in Seq(Frames) /\ Len(stack') = Len(stack) - 1 /\ Len(stack) \in Nat \ {0}
      /\ \A k \in 1..Len(stack) - 1 : stack'[k] = stack[k]
  BY PopTop, TopFrame DEF Nested
<1>2. Len(stack') \in 1..Len(stack) - 1 /\ top' = stack'[Len(stack')]
  BY <1>1 DEF top
<1>3. \A j, k \in 1..Len(stack) : j < k => stack[j].pc = "readdir"
  BY DEF Nested
<1> QED BY <1>1, <1>2, <1>3

\* A step that returns and changes no file: either it has failed, or there was
\* nothing left to do.
LEMMA ReturnFiles ==
  ASSUME Nested, FileInv, stack # <<>>, Return, UNCHANGED <<main, mlc>>,
         failed' \/ (failed' = failed /\ top.todo = {} /\ ~InFile(top))
  PROVE  FileInv'
<1>1. Writes'
  BY TopPopped DEF Writes
<1>2. Parts'
  BY DEF FileInv, Parts
<1>3. ASSUME NEW p \in DOMAIN Backup, Pending(p), ~failed' PROVE Pending(p)'
  <2>1. /\ Len(stack') = Len(stack) - 1 /\ Len(stack) \in Nat \ {0}
        /\ \A k \in 1..Len(stack) - 1 : stack'[k] = stack[k]
    BY PopTop, TopFrame DEF Nested
  <2>2. ~Waits(p, top) /\ ~failed
    BY <1>3 DEF Waits
  <2>3. CASE Before(p)
    BY <2>3 DEF Pending, Before
  <2>4. ASSUME NEW k \in 1..Len(stack), Waits(p, stack[k])
        PROVE  Pending(p)'
    <3>1. k \in 1..Len(stack) - 1
      BY <2>1, <2>2, <2>4, TopFrame
    <3> QED BY <2>1, <2>4, <3>1 DEF Pending, Waits, InFile
  <2> QED BY <1>3, <2>2, <2>3, <2>4 DEF Pending
<1>4. Whole'
  BY <1>3 DEF FileInv, Whole, Pending
<1> QED BY <1>1, <1>2, <1>4 DEF FileInv

\* A step that goes on in the same activation and changes no file
LEMMA GotoFiles ==
  ASSUME Nested, FileInv, stack # <<>>, NEW f \in Frames,
         stack' = [stack EXCEPT ![Len(stack)] = f],
         failed => failed', UNCHANGED <<main, mlc>>,
         \A p \in DOMAIN Backup : Waits(p, top) => Waits(p, f) \/ failed' \/ mlc[p] = Backup[p],
         f.pc # "copy", f.pc = "close" => failed', f.pc \in {"opensrc", "opendst"} => f.off = 0
  PROVE  FileInv'
<1>1. top' = f /\ stack' # <<>>
  BY TopReplaced
<1>2. Writes'
  BY <1>1 DEF Writes
<1>3. Parts'
  BY DEF FileInv, Parts
<1>4. ASSUME NEW p \in DOMAIN Backup PROVE mlc'[p] = Backup[p] \/ Pending(p)'
  <2>1. CASE mlc[p] = Backup[p] \/ failed'
    BY <2>1 DEF Pending
  <2>2. CASE mlc[p] # Backup[p] /\ ~failed'
    <3>1. Pending(p) /\ (Waits(p, top) => Waits(p, f))
      BY <2>2 DEF FileInv, Whole
    <3> QED BY <3>1, PendReplace
  <2> QED BY <2>1, <2>2
<1>5. Whole'
  BY <1>4 DEF FileInv, Whole
<1> QED BY <1>2, <1>3, <1>5 DEF FileInv

\* What Goto leaves alone
LEMMA GotoKeeps ==
  ASSUME Nested, stack # <<>>, NEW pc \in Pcs, Goto(pc)
  PROVE  \E f \in Frames :
           /\ stack' = [stack EXCEPT ![Len(stack)] = f] /\ f.pc = pc /\ f.dir = top.dir
           /\ f.todo = top.todo /\ f.entry = top.entry /\ f.off = top.off
<1>1. PICK f : f = [top EXCEPT !.pc = pc]
  OBVIOUS
<1>2. f \in Frames /\ stack' = [stack EXCEPT ![Len(stack)] = f]
  BY <1>1, GotoTop
<1>3. /\ f.pc = pc /\ f.dir = top.dir /\ f.todo = top.todo /\ f.entry = top.entry /\ f.off = top.off
  BY <1>1, TopFrame
<1> QED BY <1>2, <1>3

\* opendir, makedir and opensrc go on to the next step of the same file or directory.
LEMMA OnwardFiles ==
  ASSUME Nested, FileInv, stack # <<>>,
         NEW pc \in {"makedir", "readdir", "opendst"}, Goto(pc), UNCHANGED <<main, mlc, failed>>,
         IF pc = "opendst" THEN top.pc = "opensrc" ELSE ~InFile(top)
  PROVE  FileInv'
<1>1. PICK f \in Frames :
        /\ stack' = [stack EXCEPT ![Len(stack)] = f] /\ f.pc = pc /\ f.dir = top.dir
        /\ f.todo = top.todo /\ f.entry = top.entry /\ f.off = top.off
  BY GotoKeeps DEF Pcs
<1>2. \A p \in DOMAIN Backup : Waits(p, top) => Waits(p, f)
  BY <1>1 DEF Waits, InFile
<1>3. f.pc \in {"opensrc", "opendst"} => f.off = 0
  BY <1>1 DEF FileInv, Writes
<1> QED BY <1>1, <1>2, <1>3, GotoFiles

LEMMA dirFiles == ASSUME Nested, FileInv, opendir \/ makedir \/ closedir \/ opensrc PROVE FileInv'
<1>1. CASE opendir
  <2>1. stack # <<>> /\ ~InFile(top)
    BY <1>1 DEF opendir, At, InFile
  <2>2. CASE Does("FSA_OpenDir") /\ Goto("makedir")
    BY <1>1, <2>1, <2>2, OnwardFiles DEF opendir, Does
  <2>3. CASE Fails("FSA_OpenDir") /\ Return
    BY <1>1, <2>1, <2>3, ReturnFiles DEF opendir, Fails
  <2> QED BY <1>1, <2>2, <2>3 DEF opendir
<1>2. CASE makedir
  <2>1. stack # <<>> /\ ~InFile(top)
    BY <1>2 DEF makedir, At, InFile
  <2>2. CASE Does("FSA_MakeDir") /\ Goto("readdir")
    BY <1>2, <2>1, <2>2, OnwardFiles DEF makedir, Does
  <2>3. CASE Fails("FSA_CloseDir") /\ Return
    BY <1>2, <2>1, <2>3, ReturnFiles DEF makedir, Fails
  <2> QED BY <1>2, <2>2, <2>3 DEF makedir
<1>3. CASE closedir
  <2>1. stack # <<>> /\ ~InFile(top) /\ Return /\ UNCHANGED <<main, mlc>>
    BY <1>3 DEF closedir, At, InFile
  <2>2. failed' \/ (failed' = failed /\ top.todo = {})
    BY <1>3 DEF closedir, Does, Fails
  <2> QED BY <2>1, <2>2, ReturnFiles
<1>4. CASE opensrc
  <2>1. stack # <<>> /\ top.pc = "opensrc"
    BY <1>4 DEF opensrc, At
  <2>2. CASE Does("FSA_OpenFile") /\ Goto("opendst")
    BY <1>4, <2>1, <2>2, OnwardFiles DEF opensrc, Does
  <2>3. CASE Fails("FSA_CloseDir") /\ Return
    BY <1>4, <2>1, <2>3, ReturnFiles DEF opensrc, Fails
  <2> QED BY <1>4, <2>2, <2>3 DEF opensrc
<1> QED BY <1>1, <1>2, <1>3, <1>4

\* A file is complete when it is closed, or something has failed.
LEMMA closeFiles == ASSUME Nested, FileInv, close PROVE FileInv'
<1>1. /\ stack # <<>> /\ Goto("readdir") /\ UNCHANGED <<main, mlc, failed>>
      /\ top.pc = "close" \/ (top.pc = "copy" /\ top.off = fsize)
  BY DEF close, At, Does
<1>2. PICK f \in Frames :
        /\ stack' = [stack EXCEPT ![Len(stack)] = f] /\ f.pc = "readdir" /\ f.todo = top.todo
  BY <1>1, GotoKeeps DEF Pcs
<1>3. failed \/ (top.entry \in DOMAIN Backup => mlc[top.entry] = Backup[top.entry])
  <2>1. CASE top.pc = "close"
    BY <1>1, <2>1 DEF FileInv, Writes
  <2>2. CASE top.pc = "copy" /\ top.off = fsize
    <3>1. mlc[top.entry] = SubSeq(Backup[top.entry], 1, Len(Backup[top.entry]))
      BY <1>1, <2>2 DEF FileInv, Writes, fsize
    <3> QED BY <3>1, Contents, AllOf
  <2> QED BY <1>1, <2>1, <2>2
<1>4. \A p \in DOMAIN Backup : Waits(p, top) => Waits(p, f) \/ failed \/ mlc[p] = Backup[p]
  BY <1>2, <1>3 DEF Waits
<1> QED BY <1>1, <1>2, <1>4, GotoFiles

\* A step that writes the file of the activation on top, and stays with it
LEMMA WriteFiles ==
  ASSUME Nested, FileInv, stack # <<>>, InFile(top), NEW f \in Frames,
         stack' = [stack EXCEPT ![Len(stack)] = f], InFile(f), f.entry = top.entry, f.todo = top.todo,
         f.pc \in {"copy", "close"}, failed => failed', UNCHANGED main, NEW c \in Seq(Bytes),
         mlc' = [mlc EXCEPT ![top.entry] = c], IsPrefixOf(c, Backup[top.entry]),
         f.pc = "close" => failed',
         f.pc = "copy" => f.off <= Len(Backup[top.entry]) /\ c = SubSeq(Backup[top.entry], 1, f.off)
  PROVE  FileInv'
<1>1. top' = f /\ stack' # <<>>
  BY TopReplaced
<1>2. top.entry \in DOMAIN Backup /\ mlc \in [DOMAIN Backup -> Seq(Bytes)]
  BY TopFrame DEF Framed, FileInv, Parts
<1>3. /\ mlc' \in [DOMAIN Backup -> Seq(Bytes)] /\ mlc'[top.entry] = c
      /\ \A p \in DOMAIN Backup : p # top.entry => mlc'[p] = mlc[p]
  BY <1>2
<1>4. Writes'
  BY <1>1, <1>3 DEF Writes
<1>5. Parts'
  BY <1>3 DEF FileInv, Parts
<1>6. ASSUME NEW p \in DOMAIN Backup PROVE mlc'[p] = Backup[p] \/ Pending(p)'
  <2>1. Waits(p, top) => Waits(p, f)
    BY DEF Waits
  <2>2. CASE p = top.entry
    <3>1. Waits(p, top)
      BY <2>2 DEF Waits
    <3>2. Pending(p)
      BY <3>1, TopFrame DEF Pending
    <3> QED BY <2>1, <3>2, PendReplace
  <2>3. CASE p # top.entry /\ mlc[p] = Backup[p]
    BY <1>3, <2>3
  <2>4. CASE p # top.entry /\ mlc[p] # Backup[p]
    BY <2>1, <2>4, PendReplace DEF FileInv, Whole
  <2> QED BY <2>2, <2>3, <2>4
<1>7. Whole'
  BY <1>6 DEF FileInv, Whole
<1> QED BY <1>4, <1>5, <1>7 DEF FileInv

LEMMA opendstFiles == ASSUME Nested, FileInv, opendst PROVE FileInv'
<1>1. stack # <<>> /\ top.pc = "opendst" /\ InFile(top) /\ UNCHANGED main /\ top.off = 0
  BY DEF opendst, At, InFile, FileInv, Writes
<1>2. CASE Does("FSA_OpenFile") /\ Goto("copy") /\ mlc' = [mlc EXCEPT ![top.entry] = <<>>]
  <2>1. PICK f \in Frames :
          /\ stack' = [stack EXCEPT ![Len(stack)] = f] /\ f.pc = "copy" /\ f.dir = top.dir
          /\ f.todo = top.todo /\ f.entry = top.entry /\ f.off = top.off
    BY <1>1, <1>2, GotoKeeps DEF Pcs
  <2>2. Backup[top.entry] \in Seq(Bytes)
    BY <1>1, TopFrame, Contents DEF Framed
  <2>3. /\ SubSeq(Backup[top.entry], 1, f.off) = <<>> /\ <<>> \in Seq(Bytes)
        /\ f.off <= Len(Backup[top.entry]) /\ IsPrefixOf(<<>>, Backup[top.entry])
    BY <1>1, <2>1, <2>2, NonePart
  <2>4. PICK c : c = <<>>
    OBVIOUS
  <2>5. /\ c \in Seq(Bytes) /\ mlc' = [mlc EXCEPT ![top.entry] = c] /\ IsPrefixOf(c, Backup[top.entry])
        /\ f.off <= Len(Backup[top.entry]) /\ c = SubSeq(Backup[top.entry], 1, f.off)
    BY <1>2, <2>3, <2>4
  <2>6. InFile(f) /\ (failed => failed')
    BY <1>2, <2>1 DEF InFile, Does
  <2> QED BY <1>1, <2>1, <2>5, <2>6, WriteFiles
<1>3. CASE Fails("FSA_CloseDir") /\ Return /\ UNCHANGED mlc
  BY <1>1, <1>3, ReturnFiles DEF Fails
<1> QED BY <1>2, <1>3 DEF opendst

LEMMA copyFiles == ASSUME Nested, FileInv, copy PROVE FileInv'
<1>1. stack # <<>> /\ top.pc = "copy" /\ InFile(top) /\ UNCHANGED main /\ top.off < fsize
  BY DEF copy, At, InFile
<1>2. /\ top.entry \in DOMAIN Backup /\ fsize = Len(Backup[top.entry])
      /\ cur_size \in Nat \ {0} /\ top.off + cur_size <= fsize
      /\ top.off \in Nat /\ Backup[top.entry] \in Seq(Bytes)
      /\ mlc[top.entry] = SubSeq(Backup[top.entry], 1, top.off)
  BY <1>1, TopFrame, CurSize, Contents DEF FileInv, Writes
<1>3. CASE Fails("FSA_ReadFile") /\ Goto("close") /\ UNCHANGED mlc
  <2>1. PICK f \in Frames :
          /\ stack' = [stack EXCEPT ![Len(stack)] = f] /\ f.pc = "close" /\ f.dir = top.dir
          /\ f.todo = top.todo /\ f.entry = top.entry /\ f.off = top.off
    BY <1>1, <1>3, GotoKeeps DEF Pcs
  <2>2. failed'
    BY <1>3 DEF Fails
  <2> QED BY <1>1, <1>3, <2>1, <2>2, GotoFiles
<1>4. ASSUME NEW n \in 0..cur_size,
             mlc' = [mlc EXCEPT ![top.entry] = @ \o SubSeq(Backup[top.entry], top.off + 1, top.off + n)],
             IF n = cur_size
               THEN stack' = [stack EXCEPT ![Len(stack)].off = @ + cur_size] /\ Does("FSA_WriteFile")
               ELSE Goto("close") /\ Fails("FSA_WriteFile")
      PROVE  FileInv'
  <2>1. n \in Nat /\ top.off + n <= Len(Backup[top.entry])
    BY <1>2
  <2>2. PICK c : c = SubSeq(Backup[top.entry], 1, top.off + n)
    OBVIOUS
  <2>3. /\ c = SubSeq(Backup[top.entry], 1, top.off) \o SubSeq(Backup[top.entry], top.off + 1, top.off + n)
        /\ c \in Seq(Bytes) /\ IsPrefixOf(c, Backup[top.entry])
    BY ZenonT(60), <1>2, <2>1, <2>2, NextPart
  <2>4. mlc' = [mlc EXCEPT ![top.entry] = c]
    BY <1>2, <1>4, <2>3
  <2>5. CASE n = cur_size
    <3>1. PICK f \in Frames :
            /\ stack' = [stack EXCEPT ![Len(stack)] = f] /\ f.pc = "copy" /\ f.dir = top.dir
            /\ f.todo = top.todo /\ f.entry = top.entry /\ f.off = top.off + n
      BY <1>1, <1>4, <2>1, <2>5, OffTop
    <3>2. InFile(f) /\ (failed => failed')
      BY <1>4, <2>5, <3>1 DEF InFile, Does
    <3> QED BY <1>1, <2>1, <2>2, <2>3, <2>4, <3>1, <3>2, WriteFiles
  <2>6. CASE n # cur_size
    <3>1. PICK f \in Frames :
            /\ stack' = [stack EXCEPT ![Len(stack)] = f] /\ f.pc = "close" /\ f.dir = top.dir
            /\ f.todo = top.todo /\ f.entry = top.entry /\ f.off = top.off
      BY <1>1, <1>4, <2>6, GotoKeeps DEF Pcs
    <3>2. InFile(f) /\ failed'
      BY <1>4, <2>6, <3>1 DEF InFile, Fails
    <3> QED BY <1>1, <2>3, <2>4, <3>1, <3>2, WriteFiles
  <2> QED BY <2>5, <2>6
<1> QED BY <1>3, <1>4 DEF copy

\* A file below the entry that is read waits for the next activation, or is the entry.
LEMMA readdirFiles == ASSUME Nested, FileInv, readdir PROVE FileInv'
<1>1. PICK q \in top.todo, f \in Frames :
        /\ f.dir = top.dir /\ f.todo = top.todo \ {q} /\ f.entry = q /\ Framed(f)
        /\ \/ /\ q \in Dirs /\ f.pc = "readdir"
              /\ stack' = [stack EXCEPT ![Len(stack)] = f] \o <<Frame(q)>>
           \/ /\ q \notin Dirs /\ f.pc = "opensrc" /\ f.off = 0
              /\ stack' = [stack EXCEPT ![Len(stack)] = f]
  BY ReadEntry
<1>2. stack # <<>> /\ top.pc = "readdir" /\ UNCHANGED <<main, mlc, failed>>
  BY DEF readdir, At, Does
<1>3. ASSUME NEW p \in DOMAIN Backup, Waits(p, top), ~Waits(p, f)
      PROVE  q \in Dirs /\ \E n \in 1..Len(p) : SubSeq(p, 1, n) \in Entries(q)
  <2>1. PICK n \in 1..Len(p) : SubSeq(p, 1, n) \in top.todo
    BY <1>2, <1>3 DEF Waits, InFile
  <2>2. SubSeq(p, 1, n) = q
    BY <1>1, <1>3, <2>1 DEF Waits
  <2>3. q \in Dirs
    <3>1. CASE q \notin Dirs
      <4>1. q = p
        BY <2>2, <3>1, Below
      <4> QED BY <1>1, <1>3, <3>1, <4>1 DEF Waits, InFile
    <3> QED BY <3>1
  <2>4. n < Len(p) /\ SubSeq(p, 1, n + 1) \in Entries(q)
    BY <2>2, <2>3, Below
  <2>5. p \in Seq(Names)
    BY FsaCopyAssumption
  <2>6. n + 1 \in 1..Len(p)
    BY <2>4, <2>5
  <2> QED BY <2>3, <2>4, <2>6
<1>4. CASE q \notin Dirs
  BY <1>1, <1>2, <1>3, <1>4, GotoFiles
<1>5. CASE q \in Dirs
  <2> DEFINE n == Len(stack)
  <2>1. q \in Paths
    BY <1>2, TopFrame, EntryPath DEF Framed, Paths
  <2>2. PICK g : g = Frame(q)
    OBVIOUS
  <2>3. g \in Frames /\ g.pc = "opendir" /\ g.todo = Entries(q)
    BY <2>1, <2>2, NewFrame
  <2>4. /\ stack' \in Seq(Frames) /\ Len(stack') = n + 1 /\ n \in Nat \ {0} /\ top = stack[n]
        /\ stack'[n] = f /\ stack'[n + 1] = g
        /\ \A k \in 1..n - 1 : stack'[k] = stack[k]
    BY <1>1, <1>2, <1>5, <2>2, <2>3, PushTop, TopFrame DEF Nested
  <2>5. top'.pc = "opendir"
    BY <2>3, <2>4 DEF top
  <2>6. Writes'
    BY <2>5 DEF Writes
  <2>7. Parts'
    BY <1>2 DEF FileInv, Parts
  <2>8. ASSUME NEW p \in DOMAIN Backup, Pending(p) PROVE Pending(p)'
    <3> HIDE DEF n
    <3>1. CASE failed \/ Before(p)
      BY <1>2, <3>1 DEF Pending, Before
    <3>2. ASSUME NEW k \in 1..n, Waits(p, stack[k])
          PROVE  \E j \in 1..n + 1 : Waits(p, stack'[j])
      <4>1. CASE k = n /\ Waits(p, f)
        BY <2>4, <4>1
      <4>2. CASE k = n /\ ~Waits(p, f)
        <5>1. Waits(p, top)
          BY <2>4, <3>2, <4>2
        <5>2. \E m \in 1..Len(p) : SubSeq(p, 1, m) \in g.todo
          BY <1>3, <2>3, <4>2, <5>1
        <5>3. Waits(p, g)
          BY <5>2 DEF Waits
        <5>4. n + 1 \in 1..n + 1
          BY <2>4
        <5> QED BY <2>4, <5>3, <5>4
      <4>3. CASE k # n
        <5>1. k \in 1..n - 1 /\ k \in 1..n + 1
          BY <2>4, <4>3
        <5>2. stack'[k] = stack[k]
          BY <2>4, <5>1
        <5>3. Waits(p, stack'[k])
          BY <3>2, <5>2
        <5> QED BY <5>1, <5>3
      <4> QED BY <4>1, <4>2, <4>3
    <3>3. (\E j \in 1..n + 1 : Waits(p, stack'[j])) => Pending(p)'
      BY <2>4 DEF Pending, Waits, InFile
    <3> QED BY <2>8, <3>1, <3>2, <3>3 DEF Pending, n
  <2>9. Whole'
    BY <1>2, <2>8 DEF FileInv, Whole
  <2> QED BY <2>6, <2>7, <2>9 DEF FileInv
<1> QED BY <1>4, <1>5

LEMMA copydirsFiles == ASSUME Nested, FileInv, copydirs PROVE FileInv'
<1>1. main \in {"usr", "sys"} /\ stack = <<>> /\ UNCHANGED <<mlc, failed>>
  BY DEF copydirs, Stage
<1>2. <<main>> \in Paths
  BY <1>1 DEF Paths, Names
<1>3. PICK f : f = Frame(<<main>>)
  OBVIOUS
<1>4. stack' = <<f>>
  BY <1>3, Zenon DEF copydirs
<1>5. f.pc = "opendir" /\ f.todo = Entries(<<main>>)
  BY <1>2, <1>3, NewFrame, Zenon
<1>6. Len(stack') = 1 /\ stack'[1] = f /\ top' = f
  BY <1>4 DEF top
<1>7. Writes'
  BY <1>5, <1>6 DEF Writes
<1>8. Parts'
  BY <1>1 DEF FileInv, Parts
<1>9. main' = (IF main = "usr" THEN "sys" ELSE "flush")
  BY DEF copydirs, Stage, Then
<1>10. ASSUME NEW p \in DOMAIN Backup, Pending(p) PROVE Pending(p)'
  <2>1. Len(p) \in Nat /\ Len(p) > 1 /\ SubSeq(p, 1, 1) \in Dirs /\ SubSeq(p, 1, 1) \in {<<"usr">>, <<"sys">>}
    <3>1. /\ p \in Seq(Names) /\ Len(p) > 1 /\ SubSeq(p, 1, 1) \in {<<"usr">>, <<"sys">>}
          /\ \A n \in 1..Len(p) - 1 : SubSeq(p, 1, n) \in Dirs
      BY FsaCopyAssumption
    <3>2. Len(p) \in Nat /\ 1 \in 1..Len(p) - 1
      BY <3>1
    <3> QED BY <3>1, <3>2
  <2>2. CASE SubSeq(p, 1, 1) = <<main>>
    <3>1. 1 \in 1..Len(p) /\ 2 \in 1..Len(p)
      BY <2>1
    <3>2. SubSeq(p, 1, 2) \in Entries(<<main>>)
      <4>1. SubSeq(p, 1, 1 + 1) \in Entries(SubSeq(p, 1, 1))
        BY <2>1, <3>1, Below
      <4>2. 1 + 1 = 2
        OBVIOUS
      <4> QED BY <2>2, <4>1, <4>2, Zenon
    <3>3. Waits(p, f)
      BY <1>5, <3>1, <3>2 DEF Waits
    <3> QED BY <1>6, <3>3 DEF Pending, Waits, InFile
  <2>3. CASE SubSeq(p, 1, 1) # <<main>>
    <3>1. failed \/ Before(p)
      BY <1>1, <1>10 DEF Pending
    <3>2. CASE main = "usr"
      <4>1. SubSeq(p, 1, 1) = <<"sys">> /\ main' = "sys"
        BY <1>9, <2>1, <2>3, <3>2
      <4> QED BY <4>1 DEF Pending, Before
    <3>3. CASE main = "sys"
      <4>1. failed
        BY <2>3, <3>1, <3>3 DEF Before
      <4> QED BY <1>1, <4>1 DEF Pending
    <3> QED BY <1>1, <3>2, <3>3
  <2> QED BY <2>2, <2>3
<1>11. Whole'
  BY <1>1, <1>9, <1>10 DEF FileInv, Whole
<1> QED BY <1>7, <1>8, <1>11 DEF FileInv

\* The steps of wupserver_main outside of fsa_copydir
LEMMA MainFiles ==
  ASSUME FileInv, UNCHANGED <<stack, mlc>>, failed' = failed,
         main' = main \/ (main # "sys" /\ main # "flush" /\ main # "done" /\ main' \notin {"sys", "flush", "done"})
           \/ (main = "flush" /\ stack = <<>>)
  PROVE  FileInv'
<1>1. Writes' /\ Parts'
  BY DEF FileInv, Writes, Parts, top
<1>2. ASSUME NEW p \in DOMAIN Backup, Pending(p) PROVE Pending(p)'
  BY <1>2 DEF Pending, Before, Waits, InFile
<1>3. main' = "done" => stack' = <<>>
  BY DEF FileInv, Whole
<1> QED BY <1>1, <1>2, <1>3 DEF FileInv, Whole

FilesInv == CopyInv /\ FileInv

LEMMA FilesStep == ASSUME FilesInv, [Next]_wupvars PROVE FilesInv'
<1>0. CopyInv' /\ Nested /\ FileInv
  BY CopyStep DEF FilesInv, CopyInv
<1>1. ASSUME fsa_copydir \/ copydirs PROVE FileInv'
  BY <1>0, <1>1, dirFiles, readdirFiles, opendstFiles, copyFiles, closeFiles, copydirsFiles
     DEF fsa_copydir
<1>2. ASSUME FSA_Open \/ mount_sd \/ flush_volumes \/ emergency_install \/ PluginCall
      PROVE  FileInv'
  BY <1>0, <1>2, MainFiles
     DEF FSA_Open, mount_sd, flush_volumes, emergency_install, PluginCall, Stage, Then, Does
<1>3. ASSUME NEW pc \in {"usr", "install"}, wait_storages_ready(pc) PROVE FileInv'
  BY <1>0, <1>3, MainFiles DEF wait_storages_ready, Stage, Then
<1>4. ASSUME Restore \/ Install \/ PluginCall PROVE FileInv'
  BY <1>1, <1>2, <1>3, <1>4 DEF Restore, Install
<1>5. ASSUME UNCHANGED copyvars PROVE FileInv'
  BY <1>0, <1>5, MainFiles DEF copyvars
<1>6. CASE Next
  BY <1>0, <1>4, <1>5, <1>6, Zenon DEF Next, FilesInv
<1>7. CASE UNCHANGED wupvars
  BY <1>0, <1>5, <1>7, Zenon DEF wupvars, FilesInv
<1> QED BY <1>6, <1>7

LEMMA FilesStart == ASSUME Init PROVE FilesInv
<1>1. stack = <<>> /\ mlc = OldMlc /\ main = "FSA_Open" /\ failed = FALSE
  BY DEF Init, CopyInit
<1>2. OldMlc \in [DOMAIN Backup -> Seq(Bytes)]
  BY FsaCopyAssumption DEF Bytes
<1> QED BY <1>1, <1>2, CopyStart DEF FilesInv, FileInv, Writes, Parts, Whole, Pending, Before

LEMMA FilesImply == ASSUME FilesInv PROVE CopyRight
<1>1. FileInv
  BY DEF FilesInv
<1>2. ASSUME main = "done", ~failed PROVE mlc = Backup
  <2>1. \A p \in DOMAIN Backup : mlc[p] = Backup[p]
    BY <1>1, <1>2 DEF FileInv, Whole, Pending, Before
  <2>2. mlc \in [DOMAIN Backup -> Seq(Bytes)] /\ Backup \in [DOMAIN Backup -> Seq(Bytes)]
    BY <1>1, FsaCopyAssumption DEF FileInv, Parts, Bytes
  <2> QED BY <2>1, <2>2
<1> QED BY <1>1, <1>2 DEF CopyRight, FileInv, Parts

\* Whatever fails in fsa_copydir, a file on the MLC is the old one or a first part of
\* its backup; and when wupserver_main is done and nothing has failed, every file of
\* every directory of the backup has been copied whole.
THEOREM RestoresBackup == Spec => []CopyRight
<1>1. Init => FilesInv
  BY FilesStart
<1>2. FilesInv /\ [Next]_wupvars => FilesInv'
  BY FilesStep
<1>3. FilesInv => CopyRight
  BY FilesImply
<1> QED BY <1>1, <1>2, <1>3, PTL DEF Spec

-----------------------------------------------------------------------------
(* The inductive invariant of the server and its clients. Parts of it are about a
   connection c or d, a server s and a memory m. *)

\* a sequence, of whatever values
IsSeq(s) == s \in Seq({s[i] : i \in DOMAIN s})

IsConn(c) ==
  c = [st |-> c.st, peer |-> c.peer, up |-> c.up, down |-> c.down, pc |-> c.pc, cmd |-> c.cmd,
       sent |-> c.sent, got |-> c.got, cmds |-> c.cmds, ret |-> c.ret]
IsServer(s) ==
  s = [pc |-> s.pc, sock |-> s.sock, k |-> s.k, killed |-> s.killed, cmd |-> s.cmd, off |-> s.off,
       ret |-> s.ret, val |-> s.val, old |-> s.old, before |-> s.before]
IsMemory(m) == DOMAIN m = Addrs \cup {Poll} /\ m = [a \in DOMAIN m |-> m[a]]

\* the cells of command c and of the first n units of its data; those of its data after off
CommandCells(s, c, n) ==
  /\ IsSeq(s) /\ n \in Nat /\ Len(s) = n + 1 /\ s[1] = Command(c)
  /\ \A i \in 1..n : s[i + 1] = Data(c.data[i])
DataCells(s, c, off) == IsSeq(s) /\ \A i \in 1..Len(s) : s[i] = Data(c.data[off + i])

\* how far a client is with sending its command
Sending(c) ==
  IF c.cmd.op = "write"
    THEN c.sent \in 0..c.cmd.len /\ c.pc = IF c.sent < c.cmd.len THEN "sending" ELSE "waiting"
    ELSE c.sent = 0 /\ c.pc = "waiting"

\* n units of what client c reads have been received, or are the first on their way
Reading(c, m, n) ==
  /\ IsSeq(c.got) /\ IsSeq(c.down) /\ Len(c.got) <= n
  /\ \A i \in 1..Len(c.got) : c.got[i] = m[c.cmd.addr + i - 1]
  /\ \A i \in 1..n - Len(c.got) : c.down[i] = Data(m[c.cmd.addr + Len(c.got) + i - 1])
ToRead(c) == IF c.op = "read" THEN c.len ELSE 0
HasRead(s) == IF s.cmd.op = "read" THEN s.off ELSE 0

\* The four states of a client that is there
IdleClient(c, m) ==
  /\ c.pc = "idle" /\ c.up = <<>> /\ c.down = <<>>
  /\ c.ret # None => /\ c.cmd \in Commands
                     /\ Reading(c, m, ToRead(c.cmd)) /\ Len(c.got) = ToRead(c.cmd)
PendingClient(c) ==
  /\ c.cmd \in Commands /\ c.ret = None /\ Sending(c)
  /\ CommandCells(c.up, c.cmd, c.sent) /\ c.down = <<>> /\ c.got = <<>>
ServedClient(c, s, m) ==
  /\ c.cmd = s.cmd /\ c.ret = None /\ Sending(c)
  /\ s.cmd.op = "write" => s.off + Len(c.up) = c.sent
  /\ Reading(c, m, HasRead(s)) /\ Len(c.got) + Len(c.down) = HasRead(s)
AnsweredClient(c, m) ==
  /\ c.cmd \in Commands /\ c.ret = None /\ c.pc = "waiting" /\ c.up = <<>>
  /\ Reading(c, m, ToRead(c.cmd)) /\ Len(c.got) + Len(c.down) = ToRead(c.cmd) + 1

Serves(s, k) == k = s.k /\ s.pc \in {"command", "answer"}
There(c) == c.st # "unused" /\ c.peer = "here"
NewClient(c, m) == (IdleClient(c, m) /\ c.ret = None) \/ PendingClient(c)

\* the client of connection k
ClientOK(c, k, s, m) ==
  IF There(c)
    THEN /\ IF Serves(s, k) THEN ServedClient(c, s, m)
            ELSE IdleClient(c, m) \/ PendingClient(c) \/ AnsweredClient(c, m)
         /\ c.st = "backlog" => NewClient(c, m)
         /\ c.st = "closed" => s.killed
    ELSE c.ret = None

\* what a client that has left has sent is no more than one command
OneCommand(up) ==
  \/ up = <<>>
  \/ \E c \in Commands, n \in Nat : CommandCells(up, c, n) /\ n <= IF c.op = "write" THEN c.len ELSE 0
GoneOK(c, k, s) == c.peer = "fin" /\ c.st # "closed" /\ ~Serves(s, k) => OneCommand(c.up)

\* what is at a when n units of the data of a write are in memory
Written(s, a, n) ==
  IF a \in s.cmd.addr..s.cmd.addr + n - 1 THEN s.cmd.data[a - s.cmd.addr + 1] ELSE s.before[a]

\* the command being carried out for connection c, and memory
TransferOK(c, s) ==
  /\ s.cmd.op \in {"write", "read"} =>
       /\ s.off \in Nat
       /\ c.peer # "rst" => s.off <= s.cmd.len
       /\ c.peer # "rst" /\ s.pc = "answer" => s.off = s.cmd.len
  /\ c.peer # "rst" =>
       IF s.cmd.op = "write" THEN Len(c.up) <= s.cmd.len - s.off /\ DataCells(c.up, s.cmd, s.off)
       ELSE c.up = <<>>
StoredOK(c, s, m) ==
  IF s.cmd.op = "memcpy" THEN m = IF s.pc = "answer" THEN Copied(s.before, s.cmd) ELSE s.before
  ELSE IF s.cmd.op # "write" THEN \A a \in Addrs : m[a] = s.before[a]
  ELSE IF c.peer # "rst" THEN \A a \in Addrs : m[a] = Written(s, a, s.off)
  ELSE \A a \in Addrs : m[a] \in {s.before[a], Written(s, a, s.cmd.len)}
CommandOK(c, s, m) == s.cmd \in Commands /\ TransferOK(c, s) /\ StoredOK(c, s, m)

\* where the server is; cs are the connections
ServerOK(s, cs) ==
  /\ IsServer(s) /\ s.k \in Conns \cup {0}
  /\ s.pc \in {"command", "answer"} => s.k # 0
  /\ s.pc \notin {"recv", "command", "answer", "close"} => s.k = 0
  /\ s.killed => s.pc \in {"answer", "close", "listen", "idle"}
  /\ s.pc = "close" /\ s.k # 0 /\ cs[s.k].peer = "here" => s.killed

\* the connections, one client after the other
ConnOK(c, k, s) ==
  /\ IsConn(c) /\ c.peer \in {"here", "fin", "rst"}
  /\ c.st \in {"unused", "backlog", "open", "closed"}
  /\ c.st = "open" <=> k = s.k
  /\ c.st = "unused" => c = Unused
OrderOK(cs) ==
  \A j, k \in Conns : j < k /\ cs[k].st # "unused" => cs[j].peer # "here" /\ cs[j].st # "unused"

NetInv ==
  /\ IsMemory(mem) /\ conns = [k \in Conns |-> conns[k]]
  /\ ServerOK(srv, conns) /\ OrderOK(conns)
  /\ \A k \in Conns :
       ConnOK(conns[k], k, srv) /\ ClientOK(conns[k], k, srv, mem) /\ GoneOK(conns[k], k, srv)
  /\ srv.pc \in {"command", "answer"} => CommandOK(conns[srv.k], srv, mem)

-----------------------------------------------------------------------------
(* Sequences of any values *)

\* What a sequence is
LEMMA SeqFacts ==
  ASSUME NEW s, IsSeq(s)
  PROVE  /\ Len(s) \in Nat /\ DOMAIN s = 1..Len(s)
         /\ s = <<>> <=> Len(s) = 0
         /\ s = [i \in 1..Len(s) |-> s[i]]
<1>. DEFINE S == {s[i] : i \in DOMAIN s}
<1>1. s \in Seq(S)
  BY DEF IsSeq
<1>. HIDE DEF S
<1>. QED
  BY <1>1

\* A sequence over some set is one over its own elements.
LEMMA SeqIs ==
  ASSUME NEW S, NEW s \in Seq(S)
  PROVE  IsSeq(s)
<1>1. s = [i \in 1..Len(s) |-> s[i]] /\ Len(s) \in Nat
  OBVIOUS
<1>. DEFINE T == {s[i] : i \in DOMAIN s}
<1>2. \A i \in 1..Len(s) : s[i] \in T
  BY <1>1
<1>. HIDE DEF T
<1>3. s \in Seq(T)
  BY <1>1, <1>2
<1>. QED
  BY <1>3 DEF IsSeq, T

\* The empty sequence
LEMMA SeqEmpty == IsSeq(<<>>) /\ Len(<<>>) = 0
<1>1. <<>> \in Seq({})
  OBVIOUS
<1>. QED
  BY <1>1, SeqIs

\* A function on 1..n is a sequence.
LEMMA SeqMade ==
  ASSUME NEW n \in Nat, NEW f, f = [i \in 1..n |-> f[i]]
  PROVE  IsSeq(f) /\ Len(f) = n
<1>. DEFINE T == {f[i] : i \in 1..n}
<1>1. \A i \in 1..n : f[i] \in T
  OBVIOUS
<1>. HIDE DEF T
<1>2. f \in Seq(T) /\ Len(f) = n
  BY <1>1
<1>. QED
  BY <1>2, SeqIs

\* One more element
LEMMA SeqAppend ==
  ASSUME NEW s, IsSeq(s), NEW x
  PROVE  /\ IsSeq(Append(s, x)) /\ Len(Append(s, x)) = Len(s) + 1
         /\ \A i \in 1..Len(s) : Append(s, x)[i] = s[i]
         /\ Append(s, x)[Len(s) + 1] = x
<1>. DEFINE T == {s[i] : i \in DOMAIN s} \cup {x}
<1>1. s \in Seq({s[i] : i \in DOMAIN s})
  BY DEF IsSeq
<1>2. s \in Seq(T) /\ x \in T
  <2>. DEFINE S == {s[i] : i \in DOMAIN s}
  <2>1. S \subseteq T
    OBVIOUS
  <2>2. s \in Seq(S)
    BY <1>1
  <2>. HIDE DEF S, T
  <2>3. s \in Seq(T)
    BY <2>1, <2>2
  <2>. QED
    BY <2>3 DEF T
<1>. HIDE DEF T
<1>3. Append(s, x) \in Seq(T)
  BY <1>2
<1>4. IsSeq(Append(s, x))
  BY <1>3, SeqIs
<1>. QED
  BY <1>2, <1>4

\* All but the first element
LEMMA SeqTail ==
  ASSUME NEW s, IsSeq(s), s # <<>>
  PROVE  /\ IsSeq(Tail(s)) /\ Len(Tail(s)) = Len(s) - 1 /\ Len(s) >= 1
         /\ \A i \in 1..Len(s) - 1 : Tail(s)[i] = s[i + 1]
         /\ Head(s) = s[1]
<1>. DEFINE T == {s[i] : i \in DOMAIN s}
<1>1. s \in Seq(T)
  BY DEF IsSeq
<1>. HIDE DEF T
<1>2. Tail(s) \in Seq(T)
  BY <1>1
<1>3. IsSeq(Tail(s))
  BY <1>2, SeqIs
<1>. QED
  BY <1>1, <1>3

\* All but the first n elements
LEMMA SeqDrop ==
  ASSUME NEW s, IsSeq(s), NEW n \in 0..Len(s)
  PROVE  /\ IsSeq(SubSeq(s, n + 1, Len(s))) /\ Len(SubSeq(s, n + 1, Len(s))) = Len(s) - n
         /\ \A i \in 1..Len(s) - n : SubSeq(s, n + 1, Len(s))[i] = s[n + i]
<1>. DEFINE T == {s[i] : i \in DOMAIN s}
            t == SubSeq(s, n + 1, Len(s))
<1>1. s \in Seq(T)
  BY DEF IsSeq
<1>. HIDE DEF T
<1>2. Len(s) \in Nat /\ n \in Nat /\ n <= Len(s)
  BY <1>1
<1>3. t = [i \in 1..Len(s) - n |-> s[n + i]]
  <2>1. t = [i \in 1..Len(s) - (n + 1) + 1 |-> s[n + 1 + i - 1]]
    OBVIOUS
  <2>2. Len(s) - (n + 1) + 1 = Len(s) - n /\ \A i \in 1..Len(s) - n : n + 1 + i - 1 = n + i
    BY <1>2
  <2>. QED
    BY <2>1, <2>2
<1>. HIDE DEF t
<1>4. Len(s) - n \in Nat
  BY <1>2
<1>5. t = [i \in 1..Len(s) - n |-> t[i]]
  BY <1>3
<1>6. IsSeq(t) /\ Len(t) = Len(s) - n
  BY <1>4, <1>5, SeqMade
<1>. QED
  BY <1>3, <1>6 DEF t

\* The same for one element
LEMMA SeqRest ==
  ASSUME NEW s, IsSeq(s), Len(s) >= 1
  PROVE  /\ IsSeq(SubSeq(s, 2, Len(s))) /\ Len(SubSeq(s, 2, Len(s))) = Len(s) - 1
         /\ \A i \in 1..Len(s) - 1 : SubSeq(s, 2, Len(s))[i] = s[1 + i]
<1>1. PICK n \in 0..Len(s) : n = 1
  BY SeqFacts
<1>2. /\ IsSeq(SubSeq(s, n + 1, Len(s))) /\ Len(SubSeq(s, n + 1, Len(s))) = Len(s) - n
      /\ \A i \in 1..Len(s) - n : SubSeq(s, n + 1, Len(s))[i] = s[n + i]
  BY SeqDrop
<1>3. n + 1 = 2
  BY <1>1
<1>. QED
  BY <1>1, <1>2, <1>3

\* Two sequences
LEMMA SeqConcat ==
  ASSUME NEW s, IsSeq(s), NEW t, IsSeq(t)
  PROVE  /\ IsSeq(s \o t) /\ Len(s \o t) = Len(s) + Len(t)
         /\ \A i \in 1..Len(s) : (s \o t)[i] = s[i]
         /\ \A i \in 1..Len(t) : (s \o t)[Len(s) + i] = t[i]
<1>. DEFINE S == {s[i] : i \in DOMAIN s}
            T == {t[i] : i \in DOMAIN t}
            U == S \cup T
<1>1. s \in Seq(S) /\ t \in Seq(T)
  BY DEF IsSeq
<1>2. S \subseteq U /\ T \subseteq U
  OBVIOUS
<1>. HIDE DEF S, T, U
<1>3. s \in Seq(U) /\ t \in Seq(U)
  BY <1>1, <1>2
<1>4. s \o t \in Seq(U)
  BY <1>3
<1>5. IsSeq(s \o t)
  BY <1>4, SeqIs
<1>6. Len(s \o t) = Len(s) + Len(t) /\ Len(s) \in Nat /\ Len(t) \in Nat
  BY <1>3
<1>7. \A i \in 1..Len(s) : (s \o t)[i] = s[i]
  BY <1>3
<1>8. ASSUME NEW i \in 1..Len(t) PROVE (s \o t)[Len(s) + i] = t[i]
  <2>1. Len(s) + i \in 1..Len(s) + Len(t) /\ ~(Len(s) + i <= Len(s)) /\ Len(s) + i - Len(s) = i
    BY <1>6
  <2>. QED
    BY <2>1, <1>3
<1>. QED
  BY <1>5, <1>6, <1>7, <1>8

\* The offset of a transfer: it wraps below zero only.
LEMMA Wraps ==
  ASSUME NEW m \in Nat, NEW x \in Int, m > 0
  PROVE  /\ x % m \in Nat
         /\ x \in 0..m - 1 => x % m = x
<1>1. x % m \in 0..m - 1
  BY SMT
<1>2. ASSUME x \in 0..m - 1 PROVE x % m = x
  BY <1>2, SMT
<1>. QED
  BY <1>1, <1>2

-----------------------------------------------------------------------------
(* Every step keeps the invariant *)

\* A step that changes one connection at most
LEMMA NetFrame ==
  ASSUME NetInv, NEW k \in Conns, NEW d, conns' = [conns EXCEPT ![k] = d],
         IsMemory(mem'), ServerOK(srv', conns'), OrderOK(conns'),
         \A j \in Conns \ {k} : /\ j = srv.k <=> j = srv'.k
                                /\ ClientOK(conns[j], j, srv', mem') /\ GoneOK(conns[j], j, srv'),
         ConnOK(d, k, srv') /\ ClientOK(d, k, srv', mem') /\ GoneOK(d, k, srv'),
         srv'.pc \in {"command", "answer"} => CommandOK(conns'[srv'.k], srv', mem')
  PROVE  NetInv'
<1>1. conns = [j \in Conns |-> conns[j]]
  BY DEF NetInv
<1>2. /\ conns' = [j \in Conns |-> conns'[j]] /\ conns'[k] = d
      /\ \A j \in Conns \ {k} : conns'[j] = conns[j]
  BY <1>1
<1>3. \A j \in Conns \ {k} : ConnOK(conns[j], j, srv')
  BY DEF NetInv, ConnOK
<1>. QED
  BY <1>2, <1>3 DEF NetInv

\* A step that changes no connection
LEMMA SrvFrame ==
  ASSUME NetInv, conns' = conns, IsMemory(mem'), ServerOK(srv', conns),
         \A j \in Conns : /\ j = srv.k <=> j = srv'.k
                          /\ ClientOK(conns[j], j, srv', mem') /\ GoneOK(conns[j], j, srv'),
         srv'.pc \in {"command", "answer"} => CommandOK(conns[srv'.k], srv', mem')
  PROVE  NetInv'
<1>1. \A j \in Conns : ConnOK(conns[j], j, srv')
  BY DEF NetInv, ConnOK
<1>. QED
  BY <1>1 DEF NetInv

\* A server that serves nobody before and after
LEMMA QuietFrame ==
  ASSUME NEW s, NEW t, NEW c, NEW k, NEW m, s.pc \notin {"command", "answer"},
         t.pc \notin {"command", "answer"}, s.killed = t.killed,
         ClientOK(c, k, s, m), GoneOK(c, k, s)
  PROVE  ClientOK(c, k, t, m) /\ GoneOK(c, k, t)
<1>1. ~Serves(s, k) /\ ~Serves(t, k)
  BY DEF Serves
<1>. QED
  BY <1>1 DEF ClientOK, GoneOK

\* A step between the commands
LEMMA QuietStep ==
  ASSUME NetInv, conns' = conns, mem' = mem, IsServer(srv'),
         srv.pc \notin {"command", "answer"}, srv'.pc \notin {"command", "answer"},
         srv'.k = srv.k, srv'.killed = srv.killed,
         srv'.pc \in {"recv", "close"} \/ srv'.k = 0,
         srv'.killed => srv'.pc \in {"answer", "close", "listen", "idle"},
         srv'.pc = "close" => srv'.k = 0 \/ conns[srv'.k].peer # "here" 
  PROVE  NetInv'
<1>1. ServerOK(srv', conns)
  BY DEF NetInv, ServerOK
<1>2. \A j \in Conns : ClientOK(conns[j], j, srv', mem) /\ GoneOK(conns[j], j, srv')
  <2>. SUFFICES ASSUME NEW j \in Conns
                PROVE  ClientOK(conns[j], j, srv', mem) /\ GoneOK(conns[j], j, srv')
    OBVIOUS
  <2>1. ClientOK(conns[j], j, srv, mem) /\ GoneOK(conns[j], j, srv)
    BY DEF NetInv
  <2>. QED
    BY <2>1, QuietFrame
<1>. QED
  BY <1>1, <1>2, SrvFrame DEF NetInv

\* Start-up, listening and a failed accept
LEMMA ListenStep ==
  ASSUME NetInv,
         \/ ifmgrnclInit \/ IFMGRNCL_GetInterfaceStatus \/ socketInit \/ socket_bind \/ listen
         \/ stop_listening \/ accept_error
  PROVE  NetInv'
<1>1. ServerOK(srv, conns) /\ IsServer(srv) /\ conns' = conns /\ mem' = mem
  BY DEF NetInv, ServerOK, ifmgrnclInit, IFMGRNCL_GetInterfaceStatus, socketInit, socket_bind,
         listen, stop_listening, accept_error
<1>2. srv.pc \in {"ifmgrnclInit", "status", "socketInit", "socket", "listen", "accept"}
  BY DEF ifmgrnclInit, IFMGRNCL_GetInterfaceStatus, socketInit, socket_bind, listen,
         stop_listening, accept_error, Step
<1>3. srv.k = 0
  BY <1>1, <1>2 DEF ServerOK
<1>4. srv.killed => srv.pc = "listen"
  BY <1>1, <1>2 DEF ServerOK
<1>5. /\ IsServer(srv') /\ srv'.k = 0 /\ srv'.killed = srv.killed
      /\ srv'.pc \in {"status", "socketInit", "socket", "listen", "accept", "idle", "recv"}
      /\ srv.killed => srv'.pc = "idle"
  <2>1. CASE ifmgrnclInit \/ IFMGRNCL_GetInterfaceStatus \/ socketInit
    BY <2>1, <1>1, <1>3, <1>4 DEF ifmgrnclInit, IFMGRNCL_GetInterfaceStatus, socketInit, Step, IsServer
  <2>2. CASE socket_bind
    BY <2>2, <1>1, <1>3, <1>4 DEF socket_bind, IsServer
  <2>3. CASE listen
    BY <2>3, <1>1, <1>3, <1>4 DEF listen, IsServer
  <2>4. CASE stop_listening
    BY <2>4, <1>1, <1>3, <1>4 DEF stop_listening, IsServer
  <2>5. CASE accept_error
    BY <2>5, <1>1, <1>3, <1>4 DEF accept_error, IsServer
  <2>. QED
    BY <2>1, <2>2, <2>3, <2>4, <2>5
<1>. QED
  BY <1>1, <1>2, <1>3, <1>5, QuietStep

\* A client is in the same state if only the state of its connection changes.
LEMMA SameClient ==
  ASSUME NEW c, NEW d, NEW m, d.up = c.up, d.down = c.down, d.pc = c.pc, d.cmd = c.cmd,
         d.sent = c.sent, d.got = c.got, d.ret = c.ret
  PROVE  /\ IdleClient(c, m) => IdleClient(d, m)
         /\ PendingClient(c) => PendingClient(d)
         /\ AnsweredClient(c, m) => AnsweredClient(d, m)
<1>1. \A n : Reading(c, m, n) => Reading(d, m, n)
  BY DEF Reading
<1>2. IdleClient(c, m) => IdleClient(d, m)
  BY <1>1 DEF IdleClient
<1>3. PendingClient(c) => PendingClient(d)
  BY DEF PendingClient, Sending
<1>4. AnsweredClient(c, m) => AnsweredClient(d, m)
  BY <1>1 DEF AnsweredClient
<1>. QED
  BY <1>2, <1>3, <1>4

\* A connection that is not the server's
LEMMA OtherFrame ==
  ASSUME NEW s, NEW t, NEW c, NEW k, NEW m, k # s.k, k # t.k, s.killed => t.killed,
         ClientOK(c, k, s, m), GoneOK(c, k, s)
  PROVE  ClientOK(c, k, t, m) /\ GoneOK(c, k, t)
<1>1. ~Serves(s, k) /\ ~Serves(t, k)
  BY DEF Serves
<1>. QED
  BY <1>1 DEF ClientOK, GoneOK

\* While a command is carried out, other clients have got nothing yet, and memory is nothing
\* to them.
LEMMA WaitingFrame ==
  ASSUME NEW s, NEW t, NEW c, NEW k, NEW m, NEW n, k # s.k, k # t.k, ~s.killed,
         ConnOK(c, k, s), ClientOK(c, k, s, m), GoneOK(c, k, s)
  PROVE  ClientOK(c, k, t, n) /\ GoneOK(c, k, t)
<1>1. ~Serves(s, k) /\ ~Serves(t, k)
  BY DEF Serves
<1>2. CASE There(c)
  <2>1. c.st = "backlog"
    BY <1>2 DEF ConnOK, ClientOK, There
  <2>2. NewClient(c, m)
    BY <1>2, <2>1 DEF ClientOK
  <2>3. NewClient(c, n)
    BY <2>2 DEF NewClient, IdleClient
  <2>4. IdleClient(c, n) \/ PendingClient(c)
    BY <2>3 DEF NewClient
  <2>. QED
    BY <1>1, <1>2, <2>1, <2>3, <2>4 DEF ClientOK, GoneOK
<1>3. CASE ~There(c)
  BY <1>1, <1>3 DEF ClientOK, GoneOK
<1>. QED
  BY <1>2, <1>3

\* The server takes the next connection.
LEMMA AcceptStep ==
  ASSUME NetInv, accept
  PROVE  NetInv'
<1>1. PICK k \in Conns : /\ conns[k].st = "backlog" /\ conns' = [conns EXCEPT ![k].st = "open"]
                         /\ srv' = [srv EXCEPT !.pc = "recv", !.k = k]
  BY DEF accept
<1>. DEFINE c == conns[k]
            d == [c EXCEPT !.st = "open"]
<1>2. srv.pc = "accept" /\ mem' = mem /\ ServerOK(srv, conns) /\ OrderOK(conns) /\ IsMemory(mem)
  BY DEF accept, NetInv
<1>3. srv.k = 0 /\ ~srv.killed /\ IsServer(srv)
  BY <1>2 DEF ServerOK
<1>4. IsServer(srv') /\ srv'.pc = "recv" /\ srv'.k = k /\ srv'.killed = srv.killed
  BY <1>1, <1>3 DEF IsServer
<1>5. ConnOK(c, k, srv) /\ ClientOK(c, k, srv, mem) /\ GoneOK(c, k, srv)
  BY DEF NetInv
<1>6. IsConn(d) /\ d.st = "open" /\ d.peer = c.peer /\ d.up = c.up /\ d.down = c.down /\ d.pc = c.pc
      /\ d.cmd = c.cmd /\ d.sent = c.sent /\ d.got = c.got /\ d.ret = c.ret
  BY <1>5 DEF ConnOK, IsConn
<1>7. conns = [j \in Conns |-> conns[j]] /\ 0 \notin Conns
  BY ConnsAssumption DEF NetInv
<1>8. conns' = [conns EXCEPT ![k] = d]
  BY <1>1
<1>. HIDE DEF d
<1>9. conns'[k] = d /\ \A j \in Conns \ {k} : conns'[j] = conns[j]
  BY <1>7, <1>8
<1>10. OrderOK(conns')
  BY <1>1, <1>2, <1>6, <1>9 DEF OrderOK
<1>11. ServerOK(srv', conns')
  BY <1>3, <1>4, <1>7 DEF ServerOK
<1>12. ConnOK(d, k, srv')
  BY <1>4, <1>5, <1>6 DEF ConnOK
<1>13. ~Serves(srv, k) /\ ~Serves(srv', k)
  BY <1>2, <1>4 DEF Serves
<1>14. ClientOK(d, k, srv', mem)
  <2>1. There(d) => There(c)
    BY <1>1, <1>6 DEF There
  <2>. QED
    BY <2>1, <1>1, <1>5, <1>6, <1>13, SameClient DEF ClientOK, There
<1>15. GoneOK(d, k, srv')
  BY <1>1, <1>5, <1>6, <1>13 DEF GoneOK
<1>16. ASSUME NEW j \in Conns \ {k}
       PROVE  /\ j = srv.k <=> j = srv'.k
              /\ ClientOK(conns[j], j, srv', mem) /\ GoneOK(conns[j], j, srv')
  <2>1. ClientOK(conns[j], j, srv, mem) /\ GoneOK(conns[j], j, srv) /\ j # srv.k /\ j # srv'.k
    BY <1>3, <1>4, <1>7 DEF NetInv
  <2>. QED
    BY <2>1, <1>4, OtherFrame
<1>. QED
  BY <1>2, <1>4, <1>8, <1>10, <1>11, <1>12, <1>14, <1>15, <1>16, NetFrame

\* The server is done with its client.
LEMMA CloseStep ==
  ASSUME NetInv, closesocket
  PROVE  NetInv'
<1>1. /\ srv.pc = "close" /\ mem' = mem /\ ServerOK(srv, conns) /\ OrderOK(conns) /\ IsMemory(mem)
      /\ srv' = [srv EXCEPT !.pc = "listen", !.k = 0] /\ IsServer(srv)
  BY DEF closesocket, NetInv, ServerOK
<1>2. IsServer(srv') /\ srv'.pc = "listen" /\ srv'.k = 0 /\ srv'.killed = srv.killed
  BY <1>1 DEF IsServer
<1>3. conns = [j \in Conns |-> conns[j]] /\ 0 \notin Conns
  BY ConnsAssumption DEF NetInv
<1>4. CASE srv.k = 0
  <2>1. conns' = conns
    BY <1>4 DEF closesocket, k0
  <2>. QED
    BY <2>1, <1>1, <1>2, <1>4, QuietStep
<1>5. CASE srv.k # 0
  <2>1. PICK k \in Conns : k = srv.k
    BY <1>1, <1>5 DEF ServerOK
  <2>. DEFINE c == conns[k]
              d == [c EXCEPT !.st = "closed"]
  <2>2. ConnOK(c, k, srv) /\ ClientOK(c, k, srv, mem) /\ GoneOK(c, k, srv)
    BY DEF NetInv
  <2>3. IsConn(d) /\ d.st = "closed" /\ d.peer = c.peer /\ d.up = c.up /\ d.down = c.down
        /\ d.pc = c.pc /\ d.cmd = c.cmd /\ d.sent = c.sent /\ d.got = c.got /\ d.ret = c.ret
    BY <2>2 DEF ConnOK, IsConn
  <2>4. conns' = [conns EXCEPT ![k] = d] /\ c.st = "open"
    BY <2>1, <2>2, <1>5 DEF closesocket, k0, ConnOK
  <2>. HIDE DEF d
  <2>5. conns'[k] = d /\ \A j \in Conns \ {k} : conns'[j] = conns[j]
    BY <2>4, <1>3
  <2>6. OrderOK(conns')
    BY <2>3, <2>4, <2>5, <1>1 DEF OrderOK
  <2>7. ServerOK(srv', conns')
    BY <1>1, <1>2 DEF ServerOK
  <2>8. ConnOK(d, k, srv')
    BY <2>2, <2>3, <1>2, <1>3 DEF ConnOK
  <2>9. ~Serves(srv, k) /\ ~Serves(srv', k)
    BY <1>1, <1>2 DEF Serves
  <2>10. ClientOK(d, k, srv', mem)
    <3>1. There(d) => There(c) /\ srv'.killed
      BY <2>1, <2>3, <2>4, <1>1, <1>2, <1>5 DEF There, ServerOK
    <3>2. ~There(d) => d.ret = None
      BY <2>2, <2>3, <2>4 DEF There, ClientOK
    <3>. QED
      BY <3>1, <3>2, <2>2, <2>3, <2>9, SameClient DEF ClientOK
  <2>11. GoneOK(d, k, srv')
    BY <2>3 DEF GoneOK
  <2>12. ASSUME NEW j \in Conns \ {k}
         PROVE  /\ j = srv.k <=> j = srv'.k
                /\ ClientOK(conns[j], j, srv', mem) /\ GoneOK(conns[j], j, srv')
    <3>1. ClientOK(conns[j], j, srv, mem) /\ GoneOK(conns[j], j, srv) /\ j # srv.k /\ j # srv'.k
      BY <2>1, <1>2, <1>3 DEF NetInv
    <3>. QED
      BY <3>1, <1>2, OtherFrame
  <2>. QED
    BY <2>4, <2>6, <2>7, <2>8, <2>10, <2>11, <2>12, <1>1, <1>2, NetFrame
<1>. QED
  BY <1>4, <1>5

\* What the services answer if no buffer is refused
LEMMA Calls ==
  ASSUME Faults \subseteq {"leave"}, srv.k # 0, NEW len \in Nat, len > 0
  PROVE  /\ send(len) = IF conns[srv.k].peer = "rst" THEN {-1} ELSE 1..len
         /\ recv(len) = IF conns[srv.k].peer = "rst" THEN {-1}
                        ELSE IF conns[srv.k].up # <<>> THEN 1..Room(len, Len(conns[srv.k].up))
                        ELSE IF conns[srv.k].peer = "fin" THEN {0} ELSE {}
<1>1. NoMemory = {}
  BY DEF NoMemory
<1>2. ~(len <= 0 \/ srv.k = 0)
  OBVIOUS
<1>. QED
  BY <1>1, <1>2 DEF send, recv, conn, k0

\* An answer is the end of a command: the client has sent all of it, and gets all it reads.
LEMMA AnswerClient ==
  ASSUME NEW c, NEW d, NEW s, NEW m, NEW x, s.pc = "answer", c.peer = "here",
         IsConn(c), ServedClient(c, s, m), CommandOK(c, s, m), d = [c EXCEPT !.down = @ \o <<x>>]
  PROVE  AnsweredClient(d, m)
<1>1. /\ IsSeq(c.got) /\ IsSeq(c.down) /\ Len(c.got) + Len(c.down) = HasRead(s)
      /\ Reading(c, m, HasRead(s)) /\ c.cmd = s.cmd /\ c.ret = None /\ Sending(c) /\ s.cmd \in Commands
  BY DEF ServedClient, Reading, CommandOK
<1>2. HasRead(s) = ToRead(c.cmd) /\ HasRead(s) \in Nat
  <2>1. CASE s.cmd.op = "read"
    BY <2>1, <1>1 DEF CommandOK, TransferOK, HasRead, ToRead
  <2>2. CASE s.cmd.op # "read"
    BY <2>2, <1>1 DEF HasRead, ToRead
  <2>. QED
    BY <2>1, <2>2
<1>3. c.up = <<>> /\ c.pc = "waiting"
  <2>1. CASE s.cmd.op = "write"
    <3>1. /\ s.off = s.cmd.len /\ s.off \in Nat /\ Len(c.up) <= s.cmd.len - s.off /\ IsSeq(c.up)
          /\ s.off + Len(c.up) = c.sent
      BY <2>1 DEF CommandOK, TransferOK, DataCells, ServedClient
    <3>2. Len(c.up) = 0 /\ c.up = <<>>
      BY <3>1, SeqFacts
    <3>. QED
      BY <3>1, <3>2, <2>1, <1>1 DEF Sending
  <2>2. CASE s.cmd.op # "write"
    BY <2>2, <1>1 DEF CommandOK, TransferOK, Sending
  <2>. QED
    BY <2>1, <2>2
<1>4. /\ d.got = c.got /\ d.down = c.down \o <<x>> /\ d.cmd = c.cmd /\ d.ret = None
      /\ d.pc = "waiting" /\ d.up = <<>>
  BY <1>1, <1>3 DEF IsConn
<1>5. IsSeq(<<x>>) /\ Len(<<x>>) = 1
  <2>1. <<x>> \in Seq({x})
    OBVIOUS
  <2>. QED
    BY <2>1, SeqIs
<1>6. /\ IsSeq(d.down) /\ Len(d.down) = Len(c.down) + 1
      /\ \A i \in 1..Len(c.down) : d.down[i] = c.down[i]
  BY <1>1, <1>4, <1>5, SeqConcat
<1>7. Len(c.got) \in Nat /\ Len(c.down) \in Nat
  BY <1>1, SeqFacts
<1>. DEFINE g == Len(c.got)
            b == Len(c.down)
            h == HasRead(s)
<1>. HIDE DEF g, b, h
<1>11. g \in Nat /\ b \in Nat /\ h \in Nat /\ g + b = h
  BY <1>1, <1>2, <1>7 DEF g, b, h
<1>12. h - g = b /\ g + (b + 1) = h + 1
  BY <1>11
<1>8. HasRead(s) - Len(c.got) = Len(c.down)
  BY <1>12 DEF g, b, h
<1>9. Reading(d, m, HasRead(s))
  BY <1>1, <1>4, <1>6, <1>8 DEF Reading
<1>10. Len(d.got) + Len(d.down) = ToRead(d.cmd) + 1
  BY <1>2, <1>4, <1>6, <1>12 DEF g, b, h
<1>. QED
  BY <1>1, <1>2, <1>4, <1>9, <1>10 DEF AnsweredClient

\* The answer is sent, or lost with the client.
LEMMA AnswerStep ==
  ASSUME Faults \subseteq {"leave"}, NetInv, answer
  PROVE  NetInv'
<1>1. /\ srv.pc = "answer" /\ mem' = mem /\ ServerOK(srv, conns) /\ OrderOK(conns) /\ IsMemory(mem)
      /\ srv' = [srv EXCEPT !.pc = IF srv.killed THEN "close" ELSE "recv"] /\ IsServer(srv)
  BY DEF answer, NetInv, ServerOK
<1>2. /\ IsServer(srv') /\ srv'.pc = (IF srv.killed THEN "close" ELSE "recv")
      /\ srv'.k = srv.k /\ srv'.killed = srv.killed
  BY <1>1 DEF IsServer
<1>3. conns = [j \in Conns |-> conns[j]] /\ 0 \notin Conns
  BY ConnsAssumption DEF NetInv
<1>4. PICK k \in Conns : k = srv.k
  BY <1>1 DEF ServerOK
<1>. DEFINE c == conns[k]
            x == Answer(srv.ret, srv.val)
            d == IF c.peer = "here" THEN [c EXCEPT !.down = @ \o <<x>>] ELSE c
<1>5. /\ ConnOK(c, k, srv) /\ ClientOK(c, k, srv, mem) /\ GoneOK(c, k, srv)
      /\ CommandOK(c, srv, mem)
  BY <1>1, <1>4 DEF NetInv
<1>6. send(1) = IF c.peer = "rst" THEN {-1} ELSE 1..1
  BY <1>3, <1>4, Calls
<1>7. conns' = [conns EXCEPT ![k] = d]
  <2>1. PICK n \in send(1) : IF n = 1 THEN Put(<<x>>) ELSE UNCHANGED conns
    BY DEF answer
  <2>2. CASE c.peer = "rst"
    BY <2>1, <2>2, <1>3, <1>6
  <2>3. CASE c.peer # "rst"
    <3>1. Put(<<x>>)
      BY <2>1, <2>3, <1>6
    <3>. QED
      BY <3>1, <1>3, <1>4 DEF Put, conn, k0
  <2>. QED
    BY <2>2, <2>3
<1>8. /\ IsConn(d) /\ d.st = c.st /\ d.peer = c.peer /\ d.up = c.up /\ d.ret = c.ret /\ c.st = "open"
  BY <1>4, <1>5 DEF ConnOK, IsConn
<1>9. Serves(srv, k) /\ ~Serves(srv', k)
  BY <1>1, <1>2, <1>4 DEF Serves
<1>10. ClientOK(d, k, srv', mem)
  <2>1. CASE c.peer = "here"
    <3>1. There(c)
      BY <2>1, <1>8 DEF There
    <3>2. ServedClient(c, srv, mem)
      BY <3>1, <1>5, <1>9 DEF ClientOK
    <3>3. AnsweredClient(d, mem)
      BY <3>2, <2>1, <1>1, <1>5, AnswerClient DEF ConnOK
    <3>. QED
      BY <3>3, <2>1, <1>8, <1>9 DEF ClientOK, There
  <2>2. CASE c.peer # "here"
    BY <2>2, <1>5, <1>8 DEF ClientOK, There
  <2>. QED
    BY <2>1, <2>2
<1>11. GoneOK(d, k, srv')
  <2>1. ASSUME c.peer = "fin" PROVE c.up = <<>>
    <3>1. CASE srv.cmd.op = "write"
      <4>1. /\ srv.off = srv.cmd.len /\ srv.off \in Nat /\ Len(c.up) <= srv.cmd.len - srv.off
            /\ IsSeq(c.up)
        BY <3>1, <2>1, <1>1, <1>5 DEF CommandOK, TransferOK, DataCells
      <4>. QED
        BY <4>1, SeqFacts
    <3>2. CASE srv.cmd.op # "write"
      BY <3>2, <2>1, <1>5 DEF CommandOK, TransferOK
    <3>. QED
      BY <3>1, <3>2
  <2>. QED
    BY <2>1, <1>8 DEF GoneOK, OneCommand
<1>. HIDE DEF d
<1>12. conns'[k] = d /\ \A j \in Conns \ {k} : conns'[j] = conns[j]
  BY <1>3, <1>7
<1>13. OrderOK(conns')
  BY <1>1, <1>8, <1>12 DEF OrderOK
<1>14. ServerOK(srv', conns')
  BY <1>1, <1>2 DEF ServerOK
<1>15. ConnOK(d, k, srv')
  BY <1>2, <1>5, <1>8 DEF ConnOK
<1>16. ASSUME NEW j \in Conns \ {k}
       PROVE  /\ j = srv.k <=> j = srv'.k
              /\ ClientOK(conns[j], j, srv', mem) /\ GoneOK(conns[j], j, srv')
  <2>1. ClientOK(conns[j], j, srv, mem) /\ GoneOK(conns[j], j, srv) /\ j # srv.k /\ j # srv'.k
    BY <1>2, <1>4 DEF NetInv
  <2>. QED
    BY <2>1, <1>2, OtherFrame
<1>17. srv'.pc \notin {"command", "answer"}
  BY <1>2
<1>. QED
  BY <1>1, <1>7, <1>10, <1>11, <1>13, <1>14, <1>15, <1>16, <1>17, NetFrame

\* A step of the server that begins or goes on with a command
LEMMA CommandFrame ==
  ASSUME NetInv, srv.pc \in {"recv", "command"}, NEW k \in Conns, k = srv.k, NEW d,
         conns' = [conns EXCEPT ![k] = d],
         IsConn(d), d.st = conns[k].st, d.peer = conns[k].peer,
         IsServer(srv'), srv'.k = srv.k, srv'.pc \in {"command", "answer"},
         srv'.killed => srv'.pc = "answer", IsMemory(mem'),
         There(d) => ServedClient(d, srv', mem'), ~There(d) => d.ret = None,
         CommandOK(d, srv', mem')
  PROVE  NetInv'
<1>1. ServerOK(srv, conns) /\ OrderOK(conns) /\ conns = [j \in Conns |-> conns[j]]
  BY DEF NetInv
<1>2. ~srv.killed
  BY <1>1 DEF ServerOK
<1>3. conns'[k] = d /\ \A j \in Conns \ {k} : conns'[j] = conns[j]
  BY <1>1
<1>4. OrderOK(conns')
  BY <1>1, <1>3 DEF OrderOK
<1>5. srv'.k # 0 /\ srv'.k \in Conns
  BY ConnsAssumption
<1>6. ServerOK(srv', conns')
  BY <1>5 DEF ServerOK
<1>7. ConnOK(conns[k], k, srv) /\ conns[k].st = "open"
  BY DEF NetInv, ConnOK
<1>8. ConnOK(d, k, srv')
  BY <1>7 DEF ConnOK
<1>9. Serves(srv', k)
  BY DEF Serves
<1>10. ClientOK(d, k, srv', mem') /\ GoneOK(d, k, srv')
  BY <1>7, <1>9 DEF ClientOK, GoneOK
<1>11. ASSUME NEW j \in Conns \ {k}
       PROVE  /\ j = srv.k <=> j = srv'.k
              /\ ClientOK(conns[j], j, srv', mem') /\ GoneOK(conns[j], j, srv')
  <2>1. /\ ConnOK(conns[j], j, srv) /\ ClientOK(conns[j], j, srv, mem) /\ GoneOK(conns[j], j, srv)
        /\ j # srv.k /\ j # srv'.k
    BY DEF NetInv
  <2>. QED
    BY <2>1, <1>2, WaitingFrame
<1>12. CommandOK(conns'[srv'.k], srv', mem')
  BY <1>3
<1>. QED
  BY <1>4, <1>6, <1>8, <1>10, <1>11, <1>12, NetFrame

\* What the server finds in its connection between two commands is a whole command.
LEMMA NextCommand ==
  ASSUME NEW c, NEW k, NEW s, NEW m, ConnOK(c, k, s), ClientOK(c, k, s, m), GoneOK(c, k, s),
         s.pc = "recv", k = s.k, c.peer # "rst", c.up # <<>>
  PROVE  \E q \in Commands, n \in Nat :
           /\ CommandCells(c.up, q, n) /\ n <= IF q.op = "write" THEN q.len ELSE 0
           /\ There(c) => q = c.cmd /\ n = c.sent /\ PendingClient(c)
<1>1. ~Serves(s, k) /\ c.st = "open"
  BY DEF Serves, ConnOK
<1>2. CASE c.peer = "here"
  <2>1. PendingClient(c)
    BY <1>1, <1>2 DEF ClientOK, There, IdleClient, AnsweredClient
  <2>2. c.cmd \in Commands /\ CommandCells(c.up, c.cmd, c.sent) /\ Sending(c) /\ c.sent \in Nat
    BY <2>1 DEF PendingClient, CommandCells
  <2>3. c.sent <= IF c.cmd.op = "write" THEN c.cmd.len ELSE 0
    <3>1. CASE c.cmd.op = "write"
      <4>1. c.cmd.len \in Nat
        BY <3>1, <2>2, CommandsAssumption
      <4>. QED
        BY <4>1, <3>1, <2>2 DEF Sending
    <3>2. CASE c.cmd.op # "write"
      BY <3>2, <2>2 DEF Sending
    <3>. QED
      BY <3>1, <3>2
  <2>. QED
    BY <2>1, <2>2, <2>3
<1>3. CASE c.peer = "fin"
  <2>1. OneCommand(c.up) /\ ~There(c)
    BY <1>1, <1>3 DEF GoneOK, There
  <2>. QED
    BY <2>1 DEF OneCommand
<1>. QED
  BY <1>2, <1>3 DEF ConnOK

\* Cells that come or are taken change nothing else.
LEMMA UpFields ==
  ASSUME NEW c, IsConn(c), NEW u
  PROVE  LET d == [c EXCEPT !.up = u]
         IN  /\ IsConn(d) /\ d.up = u /\ d.st = c.st /\ d.peer = c.peer /\ d.down = c.down
             /\ d.pc = c.pc /\ d.cmd = c.cmd /\ d.sent = c.sent /\ d.got = c.got /\ d.ret = c.ret
  BY DEF IsConn

\* The same for what the server sends
LEMMA DownFields ==
  ASSUME NEW c, IsConn(c), NEW u
  PROVE  LET d == [c EXCEPT !.down = u]
         IN  /\ IsConn(d) /\ d.down = u /\ d.st = c.st /\ d.peer = c.peer /\ d.up = c.up
             /\ d.pc = c.pc /\ d.cmd = c.cmd /\ d.sent = c.sent /\ d.got = c.got /\ d.ret = c.ret
  BY DEF IsConn

\* A command that has just been received
LEMMA Begun ==
  ASSUME NEW c, NEW d, NEW s, NEW m, NEW q \in Commands, NEW n \in Nat,
         CommandCells(c.up, q, n), n <= IF q.op = "write" THEN q.len ELSE 0,
         d.up = SubSeq(c.up, 2, Len(c.up)), d.down = c.down, d.got = c.got, d.cmd = c.cmd,
         d.sent = c.sent, d.ret = c.ret, d.pc = c.pc,
         s.pc = "command", s.cmd = q, s.off = 0, s.before = m
  PROVE  /\ CommandOK(d, s, m)
         /\ PendingClient(c) /\ q = c.cmd /\ n = c.sent => ServedClient(d, s, m)
<1>2. IsSeq(c.up) /\ Len(c.up) = n + 1 /\ \A i \in 1..n : c.up[i + 1] = Data(q.data[i])
  BY DEF CommandCells
<1>3. IsSeq(d.up) /\ Len(d.up) = n /\ \A i \in 1..n : d.up[i] = c.up[1 + i]
  <2>1. Len(c.up) >= 1 /\ Len(c.up) - 1 = n
    BY <1>2
  <2>2. /\ IsSeq(SubSeq(c.up, 2, Len(c.up))) /\ Len(SubSeq(c.up, 2, Len(c.up))) = Len(c.up) - 1
        /\ \A i \in 1..Len(c.up) - 1 : SubSeq(c.up, 2, Len(c.up))[i] = c.up[1 + i]
    BY <2>1, <1>2, SeqRest
  <2>. QED
    BY <2>1, <2>2
<1>4. \A i \in 1..n : d.up[i] = Data(q.data[0 + i])
  <2>1. \A i \in 1..n : 1 + i = i + 1 /\ 0 + i = i
    OBVIOUS
  <2>. QED
    BY <2>1, <1>2, <1>3
<1>5. q.op \in {"write", "read"} => q.len \in Nat /\ q.addr \in Int
  BY CommandsAssumption
<1>6. TransferOK(d, s)
  <2>1. q.op \in {"write", "read"} => s.off \in Nat /\ s.off <= q.len
    BY <1>5
  <2>2. q.op = "write" => Len(d.up) <= q.len - s.off
    BY <1>3, <1>5
  <2>3. q.op # "write" => d.up = <<>>
    <3>1. q.op # "write" => n = 0
      OBVIOUS
    <3>. QED
      BY <3>1, <1>3, SeqFacts
  <2>4. DataCells(d.up, q, s.off)
    BY <1>3, <1>4 DEF DataCells
  <2>. QED
    BY <2>1, <2>2, <2>3, <2>4 DEF TransferOK
<1>7. StoredOK(d, s, m)
  <2>1. CASE q.op = "write"
    <3>1. q.addr..q.addr + 0 - 1 = {} /\ 0 \in Nat
      BY <2>1, <1>5
    <3>2. \A a : Written(s, a, 0) = m[a]
      BY <3>1 DEF Written
    <3>. QED
      BY <3>2, <2>1 DEF StoredOK
  <2>2. CASE q.op # "write"
    BY <2>2 DEF StoredOK
  <2>. QED
    BY <2>1, <2>2
<1>8. ASSUME PendingClient(c), q = c.cmd, n = c.sent
      PROVE  ServedClient(d, s, m)
  <2>1. d.cmd = s.cmd /\ d.ret = None /\ d.down = <<>> /\ d.got = <<>>
    BY <1>8 DEF PendingClient
  <2>2. Sending(d)
    BY <1>8 DEF PendingClient, Sending
  <2>3. s.off + Len(d.up) = d.sent
    BY <1>3, <1>8
  <2>4. HasRead(s) = 0
    BY DEF HasRead
  <2>5. Reading(d, m, 0) /\ Len(d.got) + Len(d.down) = 0
    <3>1. IsSeq(d.got) /\ IsSeq(d.down) /\ Len(d.got) = 0 /\ Len(d.down) = 0
      BY <2>1, SeqEmpty
    <3>. QED
      BY <3>1 DEF Reading
  <2>. QED
    BY <2>1, <2>2, <2>3, <2>4, <2>5 DEF ServedClient
<1>. QED
  BY <1>6, <1>7, <1>8 DEF CommandOK

\* The server gets a command, or finds its client gone.
LEMMA RecvStep ==
  ASSUME Faults \subseteq {"leave"}, NetInv, recv_command
  PROVE  NetInv'
<1>1. /\ srv.pc = "recv" /\ ~srv.killed /\ mem' = mem /\ ServerOK(srv, conns) /\ IsMemory(mem)
      /\ IsServer(srv) /\ conns = [j \in Conns |-> conns[j]] /\ 0 \notin Conns
  BY ConnsAssumption DEF recv_command, NetInv, ServerOK
<1>2. PICK n \in recv(6) :
        /\ n > 1 => "coalesce" \in Faults
        /\ Take(n)
        /\ srv' = IF n <= 0 THEN [srv EXCEPT !.pc = "close"] ELSE Received
  BY DEF recv_command
<1>3. ASSUME n <= 0, srv.k = 0 \/ conns[srv.k].peer # "here" PROVE NetInv'
  <2>1. conns' = conns /\ srv' = [srv EXCEPT !.pc = "close"]
    BY <1>2, <1>3 DEF Take
  <2>2. IsServer(srv') /\ srv'.pc = "close" /\ srv'.k = srv.k /\ srv'.killed = srv.killed
    BY <2>1, <1>1 DEF IsServer
  <2>. QED
    BY <2>1, <2>2, <1>1, <1>3, QuietStep
<1>4. CASE srv.k = 0
  <2>1. recv(6) = {-1}
    BY <1>4 DEF recv, k0
  <2>2. n <= 0
    BY <2>1
  <2>. QED
    BY <2>2, <1>3, <1>4
<1>5. CASE srv.k # 0
  <2>1. PICK k \in Conns : k = srv.k
    BY <1>1, <1>5 DEF ServerOK
  <2>. DEFINE c == conns[k]
              d == [c EXCEPT !.up = SubSeq(@, 2, Len(@))]
  <2>2. ConnOK(c, k, srv) /\ ClientOK(c, k, srv, mem) /\ GoneOK(c, k, srv)
    BY DEF NetInv
  <2>3. recv(6) = IF c.peer = "rst" THEN {-1}
                  ELSE IF c.up # <<>> THEN 1..Room(6, Len(c.up))
                  ELSE IF c.peer = "fin" THEN {0} ELSE {}
    BY <2>1, <1>5, Calls
  <2>4. CASE c.peer = "rst" \/ c.up = <<>>
    <3>1. n <= 0 /\ c.peer # "here"
      BY <2>3, <2>4
    <3>. QED
      BY <3>1, <2>1, <1>3
  <2>5. CASE c.peer # "rst" /\ c.up # <<>>
    <3>1. PICK q \in Commands, z \in Nat :
            /\ CommandCells(c.up, q, z) /\ z <= IF q.op = "write" THEN q.len ELSE 0
            /\ There(c) => q = c.cmd /\ z = c.sent /\ PendingClient(c)
      BY <2>1, <2>2, <2>5, <1>1, NextCommand
    <3>2. n = 1
      <4>1. n \in 1..Room(6, Len(c.up)) /\ ~(n > 1)
        BY <2>3, <2>5, <1>2
      <4>2. Len(c.up) \in Nat
        BY <3>1 DEF CommandCells
      <4>. QED
        BY <4>1, <4>2 DEF Room
    <3>3. srv' = Received /\ conns' = [conns EXCEPT ![k] = d]
      BY <3>2, <2>1, <1>2 DEF Take, k0
    <3>4. Head(c.up) = Command(q)
      <4>1. IsSeq(c.up) /\ c.up[1] = Command(q)
        BY <3>1 DEF CommandCells
      <4>. QED
        BY <4>1, <2>5, SeqTail
    <3>5. srv' = [srv EXCEPT !.pc = "command", !.off = 0, !.ret = 0, !.val = None, !.before = mem,
                    !.cmd = q]
      <4>1. Command(q).cell = "command" /\ Command(q).val = q
        BY DEF Command
      <4>. QED
        BY <4>1, <3>3, <3>4, <2>1 DEF Received, conn, k0
    <3>6. /\ IsServer(srv') /\ srv'.pc = "command" /\ srv'.off = 0 /\ srv'.before = mem
          /\ srv'.cmd = q /\ srv'.k = srv.k /\ srv'.killed = srv.killed
      BY <3>5, <1>1 DEF IsServer
    <3>7. IsConn(d) /\ d.st = c.st /\ d.peer = c.peer /\ d.ret = c.ret
      <4>1. PICK u : u = SubSeq(c.up, 2, Len(c.up))
        OBVIOUS
      <4>2. d = [c EXCEPT !.up = u]
        BY <4>1
      <4>. HIDE DEF c, d
      <4>. QED
        BY <4>2, <2>2, UpFields DEF ConnOK
    <3>10. /\ d.up = SubSeq(c.up, 2, Len(c.up)) /\ d.down = c.down /\ d.got = c.got /\ d.cmd = c.cmd
           /\ d.sent = c.sent /\ d.pc = c.pc
      <4>1. PICK u : u = SubSeq(c.up, 2, Len(c.up))
        OBVIOUS
      <4>2. d = [c EXCEPT !.up = u]
        BY <4>1
      <4>. HIDE DEF c, d
      <4>. QED
        BY <4>1, <4>2, <2>2, UpFields DEF ConnOK
    <3>8. CommandOK(d, srv', mem) /\ (There(c) => ServedClient(d, srv', mem))
      BY <3>1, <3>6, <3>7, <3>10, Begun, ZenonT(60)
    <3>9. (There(d) <=> There(c)) /\ (~There(c) => c.ret = None)
      BY <3>7, <2>2 DEF There, ClientOK
    <3>. QED
      BY <3>3, <3>6, <3>7, <3>8, <3>9, <2>1, <1>1, CommandFrame
  <2>. QED
    BY <2>4, <2>5
<1>. QED
  BY <1>4, <1>5

-----------------------------------------------------------------------------
(* serverCommandHandler *)

\* What is known of the server and its client when a command is carried out
AtWork(k) ==
  /\ k = srv.k /\ srv.k # 0 /\ ConnOK(conns[k], k, srv) /\ conns[k].st = "open"
  /\ IsConn(conns[k]) /\ IsServer(srv) /\ IsMemory(mem)
  /\ CommandOK(conns[k], srv, mem)
  /\ There(conns[k]) => ServedClient(conns[k], srv, mem)
  /\ ~There(conns[k]) => conns[k].ret = None
  /\ conns = [conns EXCEPT ![k] = conns[k]]
  /\ conns = [j \in Conns |-> conns[j]]
  /\ srv.pc = "command" => ~srv.killed

\* The server has a client then.
LEMMA AtCommand ==
  ASSUME NetInv, srv.pc \in {"command", "answer"}
  PROVE  \E k \in Conns : AtWork(k)
<1>1. ServerOK(srv, conns) /\ IsServer(srv) /\ IsMemory(mem) /\ conns = [j \in Conns |-> conns[j]]
  BY DEF NetInv, ServerOK
<1>2. PICK k \in Conns : k = srv.k
  BY <1>1 DEF ServerOK
<1>3. /\ ConnOK(conns[k], k, srv) /\ ClientOK(conns[k], k, srv, mem) /\ CommandOK(conns[k], srv, mem)
  BY <1>2 DEF NetInv
<1>4. IsConn(conns[k]) /\ conns[k].st = "open"
  BY <1>2, <1>3 DEF ConnOK
<1>5. Serves(srv, k)
  BY <1>2 DEF Serves
<1>6. /\ There(conns[k]) => ServedClient(conns[k], srv, mem)
      /\ ~There(conns[k]) => conns[k].ret = None
  BY <1>3, <1>5 DEF ClientOK
<1>7. conns = [conns EXCEPT ![k] = conns[k]]
  BY <1>1
<1>8. srv.pc = "command" => ~srv.killed
  BY <1>1 DEF ServerOK
<1>9. srv.k # 0
  BY <1>1 DEF ServerOK
<1>. QED
  BY <1>1, <1>2, <1>3, <1>4, <1>6, <1>7, <1>8, <1>9 DEF AtWork

\* The commands that transfer nothing leave memory as it was.
LEMMA SameCommand ==
  ASSUME NEW c, NEW s, NEW t, NEW m, NEW n, CommandOK(c, s, m), t.cmd = s.cmd, t.before = s.before,
         s.cmd.op \notin {"write", "read", "memcpy"}, \A a \in Addrs : n[a] = m[a]
  PROVE  CommandOK(c, t, n) /\ (ServedClient(c, s, m) => ServedClient(c, t, n))
<1>1. CommandOK(c, t, n)
  BY DEF CommandOK, TransferOK, StoredOK
<1>2. ASSUME ServedClient(c, s, m) PROVE ServedClient(c, t, n)
  <2>1. HasRead(s) = 0 /\ HasRead(t) = 0
    BY DEF HasRead
  <2>2. Reading(c, m, 0) /\ Len(c.got) + Len(c.down) = 0
    BY <1>2, <2>1 DEF ServedClient
  <2>3. IsSeq(c.got) /\ IsSeq(c.down) /\ Len(c.got) <= 0
    BY <2>2 DEF Reading
  <2>4. Len(c.got) = 0
    BY <2>3, SeqFacts
  <2>5. Reading(c, n, 0)
    BY <2>3, <2>4 DEF Reading
  <2>. QED
    BY <1>2, <2>1, <2>2, <2>5 DEF ServedClient
<1>. QED
  BY <1>1, <1>2

\* The commands that are carried out at once
LEMMA PlainStep ==
  ASSUME NetInv, svc \/ kill \/ unknown
  PROVE  NetInv'
<1>1. srv.pc = "command" /\ conns' = conns /\ mem' = mem /\ srv.cmd.op \in {"svc", "kill", "unknown"}
  BY DEF svc, kill, unknown, Handles
<1>2. PICK k \in Conns : AtWork(k)
  BY <1>1, AtCommand
<1>. USE DEF AtWork
<1>3. /\ IsServer(srv') /\ srv'.pc = "answer" /\ srv'.k = srv.k /\ srv'.cmd = srv.cmd
      /\ srv'.before = srv.before
  <2>1. CASE svc
    BY <2>1, <1>2 DEF svc, Done, IsServer
  <2>2. CASE kill
    BY <2>2, <1>2 DEF kill, Done, IsServer
  <2>3. CASE unknown
    BY <2>3, <1>2 DEF unknown, Done, IsServer
  <2>. QED
    BY <2>1, <2>2, <2>3
<1>4. /\ CommandOK(conns[k], srv', mem)
      /\ ServedClient(conns[k], srv, mem) => ServedClient(conns[k], srv', mem)
  BY <1>1, <1>2, <1>3, SameCommand
<1>5. conns' = [conns EXCEPT ![k] = conns[k]]
  BY <1>1, <1>2
<1>. QED
  BY <1>1, <1>2, <1>3, <1>4, <1>5, CommandFrame

\* A write or a read is complete.
LEMMA TransferredStep ==
  ASSUME NetInv, transferred
  PROVE  NetInv'
<1>1. /\ srv.pc = "command" /\ conns' = conns /\ mem' = mem /\ srv.cmd.op \in {"write", "read"}
      /\ srv.off >= srv.cmd.len /\ srv' = Done(srv)
  BY DEF transferred
<1>2. PICK k \in Conns : AtWork(k)
  BY <1>1, AtCommand
<1>. USE DEF AtWork
<1>. DEFINE c == conns[k]
<1>. HIDE DEF c
<1>3. /\ IsServer(srv') /\ srv'.pc = "answer" /\ srv'.k = srv.k /\ srv'.cmd = srv.cmd
      /\ srv'.before = srv.before /\ srv'.off = srv.off
  BY <1>1, <1>2 DEF Done, IsServer
<1>4. srv.cmd \in Commands /\ TransferOK(c, srv) /\ StoredOK(c, srv, mem)
  BY <1>2 DEF CommandOK, c
<1>5. srv.cmd.len \in Nat /\ srv.off \in Nat /\ (c.peer # "rst" => srv.off <= srv.cmd.len)
  BY <1>1, <1>4, CommandsAssumption DEF TransferOK
<1>6. c.peer # "rst" => srv.off = srv.cmd.len
  BY <1>1, <1>5
<1>7. TransferOK(c, srv')
  BY <1>1, <1>3, <1>4, <1>5, <1>6 DEF TransferOK
<1>8. StoredOK(c, srv', mem)
  <2>1. \A a, n : Written(srv', a, n) = Written(srv, a, n)
    BY <1>3 DEF Written
  <2>. QED
    BY <2>1, <1>1, <1>3, <1>4 DEF StoredOK
<1>9. ServedClient(c, srv, mem) => ServedClient(c, srv', mem)
  <2>1. HasRead(srv') = HasRead(srv)
    BY <1>3 DEF HasRead
  <2>. QED
    BY <2>1, <1>3 DEF ServedClient
<1>10. CommandOK(c, srv', mem)
  BY <1>3, <1>4, <1>7, <1>8 DEF CommandOK
<1>11. conns' = [conns EXCEPT ![k] = c]
  BY <1>1, <1>2 DEF c
<1>. QED
  BY <1>1, <1>2, <1>3, <1>9, <1>10, <1>11, CommandFrame DEF c

\* A copy is made in one step.
LEMMA MemcpyStep ==
  ASSUME NetInv, memcpy
  PROVE  NetInv'
<1>1. /\ srv.pc = "command" /\ conns' = conns /\ mem' = Copied(mem, srv.cmd)
      /\ srv.cmd.op = "memcpy" /\ srv' = Done(srv)
  BY DEF memcpy, Handles
<1>2. PICK k \in Conns : AtWork(k)
  BY <1>1, AtCommand
<1>. USE DEF AtWork
<1>. DEFINE c == conns[k]
<1>. HIDE DEF c
<1>3. /\ IsServer(srv') /\ srv'.pc = "answer" /\ srv'.k = srv.k /\ srv'.cmd = srv.cmd
      /\ srv'.before = srv.before
  BY <1>1, <1>2 DEF Done, IsServer
<1>4. srv.cmd \in Commands /\ TransferOK(c, srv) /\ StoredOK(c, srv, mem)
  BY <1>2 DEF CommandOK, c
<1>5. mem' = Copied(srv.before, srv.cmd)
  BY <1>1, <1>4 DEF StoredOK
<1>6. CommandOK(c, srv', mem')
  BY <1>1, <1>3, <1>4, <1>5 DEF CommandOK, TransferOK, StoredOK
<1>7. IsMemory(mem')
  BY <1>1, <1>2 DEF IsMemory, Copied
<1>8. ASSUME ServedClient(c, srv, mem) PROVE ServedClient(c, srv', mem')
  <2>1. HasRead(srv) = 0 /\ HasRead(srv') = 0
    BY <1>1, <1>3 DEF HasRead
  <2>2. Reading(c, mem, 0) /\ Len(c.got) + Len(c.down) = 0
    BY <1>8, <2>1 DEF ServedClient
  <2>3. IsSeq(c.got) /\ IsSeq(c.down) /\ Len(c.got) <= 0
    BY <2>2 DEF Reading
  <2>4. Len(c.got) = 0
    BY <2>3, SeqFacts
  <2>5. Reading(c, mem', 0)
    BY <2>3, <2>4 DEF Reading
  <2>. QED
    BY <1>1, <1>3, <1>8, <2>1, <2>2, <2>5 DEF ServedClient
<1>9. conns' = [conns EXCEPT ![k] = c]
  BY <1>1, <1>2 DEF c
<1>. QED
  BY <1>1, <1>2, <1>3, <1>6, <1>7, <1>8, <1>9, CommandFrame DEF c

\* Waiting for the polled word, and what somebody else does to it
LEMMA RepeatStep ==
  ASSUME NetInv, repeated_write \/ Other
  PROVE  NetInv'
<1>1. srv.pc = "command" /\ conns' = conns /\ srv.cmd.op = "repeat"
  BY DEF repeated_write, Other, Handles
<1>2. PICK k \in Conns : AtWork(k)
  BY <1>1, AtCommand
<1>. USE DEF AtWork
<1>3. mem' = mem \/ \E v : mem' = [mem EXCEPT ![Poll] = v]
  BY DEF repeated_write, Other
<1>4. IsMemory(mem') /\ \A a \in Addrs : mem'[a] = mem[a]
  BY <1>2, <1>3, MemoryAssumption DEF IsMemory
<1>5. /\ IsServer(srv') /\ srv'.pc \in {"command", "answer"} /\ srv'.k = srv.k /\ srv'.cmd = srv.cmd
      /\ srv'.before = srv.before /\ srv'.killed = srv.killed
  <2>1. CASE Other
    BY <2>1, <1>1, <1>2 DEF Other
  <2>2. CASE repeated_write
    <3>1. \/ srv' = [srv EXCEPT !.old = Cached]
          \/ srv' = [srv EXCEPT !.off = @ + 1]
          \/ srv' = [srv EXCEPT !.off = @ + 1, !.old = 0]
          \/ srv' = Done([srv EXCEPT !.old = None])
      BY <2>2 DEF repeated_write
    <3>. QED
      BY <3>1, <1>1, <1>2 DEF Done, IsServer
  <2>. QED
    BY <2>1, <2>2
<1>6. /\ CommandOK(conns[k], srv', mem')
      /\ ServedClient(conns[k], srv, mem) => ServedClient(conns[k], srv', mem')
  BY <1>1, <1>2, <1>4, <1>5, SameCommand
<1>7. conns' = [conns EXCEPT ![k] = conns[k]]
  BY <1>1, <1>2
<1>. QED
  BY <1>1, <1>2, <1>4, <1>5, <1>6, <1>7, CommandFrame

\* Where a unit of a write goes
LEMMA Offsets ==
  ASSUME NEW a \in Int, NEW b \in Int, NEW o \in Nat, NEW n \in Nat, NEW l \in Nat, n <= l,
         a \in b + o..b + o + n - 1
  PROVE  a - (b + o) + 1 \in 1..l /\ o + (a - (b + o) + 1) = a - b + 1 /\ a \in b..b + (o + n) - 1
  OBVIOUS

\* An address the n new units miss is written before them exactly when it is written after them.
LEMMA OutsideOffsets ==
  ASSUME NEW a \in Int, NEW b \in Int, NEW o \in Nat, NEW n \in Nat,
         a \notin b + o..b + o + n - 1
  PROVE  a \in b..b + o - 1 <=> a \in b..b + (o + n) - 1
  OBVIOUS

\* Units move from the connection to memory.
LEMMA Shifted ==
  ASSUME NEW x \in Nat, NEW y, NEW n \in Nat, NEW o \in Nat, NEW z, y = x - n, o + x = z
  PROVE  (o + n) + y = z
  OBVIOUS

\* n units of data arrive.
LEMMA WriteClient ==
  ASSUME NEW c, NEW d, NEW s, NEW t, NEW m, NEW w, NEW n \in Nat, n > 0,
         s.cmd.op = "write", s.pc = "command", c.peer # "rst", CommandOK(c, s, m), IsMemory(m),
         n <= s.cmd.len - s.off, n <= Len(c.up),
         w = [a \in DOMAIN m |-> IF a \in s.cmd.addr + s.off..s.cmd.addr + s.off + n - 1
                                   THEN c.up[a - (s.cmd.addr + s.off) + 1].val ELSE m[a]],
         d.up = SubSeq(c.up, n + 1, Len(c.up)), d.peer = c.peer, d.cmd = c.cmd, d.ret = c.ret,
         d.sent = c.sent, d.pc = c.pc, d.got = c.got, d.down = c.down,
         t.pc = s.pc, t.cmd = s.cmd, t.before = s.before, t.off = s.off + n
  PROVE  CommandOK(d, t, w) /\ (ServedClient(c, s, m) => ServedClient(d, t, w))
<1>. DEFINE q == s.cmd
            o == s.off
<1>1. q \in Commands /\ TransferOK(c, s) /\ StoredOK(c, s, m)
  BY DEF CommandOK
<1>2. q.len \in Nat /\ q.addr \in Int /\ o \in Nat /\ o + n <= q.len /\ o + n \in Nat
  <2>1. q.len \in Nat /\ q.addr \in Int /\ o \in Nat
    BY <1>1, CommandsAssumption DEF TransferOK
  <2>. QED
    BY <2>1
<1>3. /\ IsSeq(c.up) /\ Len(c.up) <= q.len - o
      /\ \A i \in 1..Len(c.up) : c.up[i] = Data(q.data[o + i])
  BY <1>1 DEF TransferOK, DataCells
<1>4. Len(c.up) \in Nat /\ n \in 0..Len(c.up)
  BY <1>3, SeqFacts
<1>5. /\ IsSeq(d.up) /\ Len(d.up) = Len(c.up) - n
      /\ \A i \in 1..Len(c.up) - n : d.up[i] = c.up[n + i]
  BY <1>3, <1>4, SeqDrop
<1>. HIDE DEF q, o
<1>6. \A i \in 1..Len(d.up) : d.up[i] = Data(q.data[(o + n) + i])
  <2>. SUFFICES ASSUME NEW i \in 1..Len(d.up)
                PROVE  d.up[i] = Data(q.data[(o + n) + i])
    OBVIOUS
  <2>1. i \in 1..Len(c.up) - n /\ n + i \in 1..Len(c.up) /\ o + (n + i) = (o + n) + i
    BY <1>2, <1>4, <1>5
  <2>. QED
    BY <2>1, <1>3, <1>5
<1>7. Len(d.up) <= q.len - (o + n)
  BY <1>2, <1>3, <1>4, <1>5
<1>8. TransferOK(d, t)
  BY <1>2, <1>5, <1>6, <1>7 DEF TransferOK, DataCells, q, o
<1>9. ASSUME NEW a \in Addrs PROVE w[a] = Written(t, a, o + n)
  <2>1. a \in DOMAIN m /\ a \in Int
    BY MemoryAssumption DEF IsMemory
  <2>2. m[a] = IF a \in q.addr..q.addr + o - 1 THEN q.data[a - q.addr + 1] ELSE s.before[a]
    BY <1>1 DEF StoredOK, Written, q, o
  <2>3. w[a] = IF a \in q.addr + o..q.addr + o + n - 1 THEN c.up[a - (q.addr + o) + 1].val ELSE m[a]
    BY <2>1 DEF q, o
  <2>4. Written(t, a, o + n) = IF a \in q.addr..q.addr + (o + n) - 1 THEN q.data[a - q.addr + 1]
                               ELSE s.before[a]
    BY DEF Written, q
  <2>5. CASE a \in q.addr + o..q.addr + o + n - 1
    <3>1. /\ a - (q.addr + o) + 1 \in 1..Len(c.up)
          /\ o + (a - (q.addr + o) + 1) = a - q.addr + 1
          /\ a \in q.addr..q.addr + (o + n) - 1
      <4>. DEFINE b == q.addr
                  l == Len(c.up)
      <4>1. b \in Int /\ l \in Nat /\ o \in Nat /\ n <= l /\ a \in Int /\ a \in b + o..b + o + n - 1
        BY <2>1, <2>5, <1>2, <1>4
      <4>. HIDE DEF b, l
      <4>2. a - (b + o) + 1 \in 1..l /\ o + (a - (b + o) + 1) = a - b + 1 /\ a \in b..b + (o + n) - 1
        BY <4>1, Offsets
      <4>. QED
        BY <4>2 DEF b, l
    <3>2. c.up[a - (q.addr + o) + 1] = Data(q.data[a - q.addr + 1])
      BY <3>1, <1>3 DEF q, o
    <3>. QED
      BY <3>1, <3>2, <2>3, <2>4, <2>5 DEF Data
  <2>6. CASE a \notin q.addr + o..q.addr + o + n - 1
    <3>1. a \in q.addr..q.addr + o - 1 <=> a \in q.addr..q.addr + (o + n) - 1
      <4>. DEFINE b == q.addr
      <4>1. b \in Int /\ o \in Nat /\ a \in Int /\ a \notin b + o..b + o + n - 1
        BY <2>1, <2>6, <1>2
      <4>. HIDE DEF b
      <4>2. a \in b..b + o - 1 <=> a \in b..b + (o + n) - 1
        BY <4>1, OutsideOffsets
      <4>. QED
        BY <4>2 DEF b
    <3>. QED
      BY <3>1, <2>2, <2>3, <2>4, <2>6
  <2>. QED
    BY <2>5, <2>6
<1>10. CommandOK(d, t, w)
  <2>1. StoredOK(d, t, w)
    BY <1>9 DEF StoredOK, o
  <2>. QED
    BY <2>1, <1>1, <1>8 DEF CommandOK, q
<1>11. ASSUME ServedClient(c, s, m) PROVE ServedClient(d, t, w)
  <2>1. HasRead(s) = 0 /\ HasRead(t) = 0
    BY DEF HasRead
  <2>2. /\ Reading(c, m, 0) /\ Len(c.got) + Len(c.down) = 0 /\ o + Len(c.up) = c.sent
        /\ c.cmd = s.cmd /\ c.ret = None /\ Sending(c)
    BY <1>11, <2>1 DEF ServedClient, o
  <2>3. IsSeq(c.got) /\ IsSeq(c.down) /\ Len(c.got) <= 0
    BY <2>2 DEF Reading
  <2>4. Len(c.got) = 0
    BY <2>3, SeqFacts
  <2>5. Reading(d, w, 0)
    BY <2>3, <2>4 DEF Reading
  <2>6. (o + n) + Len(d.up) = c.sent
    <3>. DEFINE x == Len(c.up)
                y == Len(d.up)
                z == c.sent
    <3>1. o + x = z /\ x \in Nat /\ o \in Nat /\ y = x - n
      BY <2>2, <1>2, <1>4, <1>5
    <3>. HIDE DEF x, y, z
    <3>2. (o + n) + y = z
      BY <3>1, Shifted
    <3>. QED
      BY <3>2 DEF x, y, z
  <2>7. Sending(d)
    BY <2>2 DEF Sending
  <2>. QED
    BY <2>1, <2>2, <2>5, <2>6, <2>7 DEF ServedClient, o
<1>. QED
  BY <1>10, <1>11

\* The server receives a part of a write: data, nothing, or an error that wraps the offset.
LEMMA WriteStep ==
  ASSUME Faults \subseteq {"leave"}, NetInv, write
  PROVE  NetInv'
<1>1. srv.pc = "command" /\ srv.cmd.op = "write" /\ srv.off < srv.cmd.len
  BY DEF write, Handles
<1>2. PICK k \in Conns : AtWork(k)
  BY <1>1, AtCommand
<1>. USE DEF AtWork
<1>. DEFINE c == conns[k]
<1>3. PICK n \in recv(srv.cmd.len - srv.off) :
        /\ Take(n)
        /\ mem' = [a \in DOMAIN mem |->
                     IF n > 0 /\ a \in srv.cmd.addr + srv.off..srv.cmd.addr + srv.off + n - 1
                       THEN c.up[a - (srv.cmd.addr + srv.off) + 1].val ELSE mem[a]]
        /\ srv' = [srv EXCEPT !.off = Advanced(n)]
  BY <1>2 DEF write, conn, k0
<1>4. srv.cmd \in Commands /\ TransferOK(c, srv) /\ StoredOK(c, srv, mem)
  BY <1>2 DEF CommandOK
<1>5. /\ srv.cmd.len \in 0..OffMod - 1 /\ srv.cmd.addr \in Int /\ srv.off \in Nat /\ OffMod \in Nat
      /\ OffMod > 0
  <2>1. srv.cmd.len \in 0..OffMod - 1 /\ srv.cmd.addr \in Int /\ srv.off \in Nat /\ OffMod \in Nat
    BY <1>1, <1>4, CommandsAssumption DEF TransferOK
  <2>. QED
    BY <2>1
<1>6. /\ IsServer(srv') /\ srv'.pc = "command" /\ srv'.k = srv.k /\ srv'.cmd = srv.cmd
      /\ srv'.before = srv.before /\ srv'.killed = srv.killed /\ srv'.off = (srv.off + n) % OffMod
  BY <1>1, <1>2, <1>3 DEF IsServer, Advanced
<1>. DEFINE len == srv.cmd.len - srv.off
<1>7. len \in Nat /\ len > 0
  BY <1>1, <1>5
<1>8. recv(len) = IF c.peer = "rst" THEN {-1}
                  ELSE IF c.up # <<>> THEN 1..Room(len, Len(c.up))
                  ELSE IF c.peer = "fin" THEN {0} ELSE {}
  BY <1>2, <1>7, Calls
<1>. HIDE DEF c
<1>9. ASSUME n <= 0, n \in Int PROVE mem' = mem /\ conns' = [conns EXCEPT ![k] = c]
  <2>1. mem' = [a \in DOMAIN mem |-> mem[a]]
    BY <1>3, <1>9
  <2>. QED
    BY <2>1, <1>2, <1>3, <1>9 DEF Take, IsMemory, c
<1>10. CASE c.peer = "rst"
  <2>1. n = -1
    BY <1>8, <1>10
  <2>2. srv'.off \in Nat
    BY <2>1, <1>5, <1>6, Wraps
  <2>3. mem' = mem /\ conns' = [conns EXCEPT ![k] = c]
    BY <2>1, <1>9
  <2>4. TransferOK(c, srv')
    BY <2>2, <1>6, <1>10 DEF TransferOK
  <2>5. StoredOK(c, srv', mem)
    <3>1. \A a, z : Written(srv', a, z) = Written(srv, a, z)
      BY <1>6 DEF Written
    <3>. QED
      BY <3>1, <1>1, <1>4, <1>6, <1>10 DEF StoredOK
  <2>6. CommandOK(c, srv', mem) /\ ~There(c)
    BY <2>4, <2>5, <1>4, <1>6, <1>10 DEF CommandOK, There
  <2>. QED
    BY <2>3, <2>6, <1>1, <1>2, <1>6, CommandFrame DEF c
<1>11. CASE c.peer # "rst" /\ c.up = <<>>
  <2>1. n = 0 /\ c.peer # "here"
    BY <1>8, <1>11
  <2>2. srv.off \in 0..OffMod - 1 /\ srv.off + n = srv.off
    BY <2>1, <1>1, <1>5
  <2>3. srv'.off = srv.off
    BY <2>2, <1>5, <1>6, Wraps
  <2>4. mem' = mem /\ conns' = [conns EXCEPT ![k] = c]
    BY <2>1, <1>9
  <2>5. TransferOK(c, srv')
    BY <2>3, <1>1, <1>4, <1>6 DEF TransferOK
  <2>6. StoredOK(c, srv', mem)
    <3>1. \A a, z : Written(srv', a, z) = Written(srv, a, z)
      BY <1>6 DEF Written
    <3>. QED
      BY <3>1, <2>3, <1>1, <1>4, <1>6, <1>11 DEF StoredOK
  <2>7. CommandOK(c, srv', mem) /\ ~There(c)
    BY <2>1, <2>5, <2>6, <1>4, <1>6 DEF CommandOK, There
  <2>. QED
    BY <2>4, <2>7, <1>1, <1>2, <1>6, CommandFrame DEF c
<1>12. CASE c.peer # "rst" /\ c.up # <<>>
  <2>1. IsSeq(c.up) /\ Len(c.up) \in Nat
    <3>1. IsSeq(c.up)
      BY <1>1, <1>4, <1>12 DEF TransferOK, DataCells
    <3>. QED
      BY <3>1, SeqFacts
  <2>2. n \in Nat /\ n > 0 /\ n <= len /\ n <= Len(c.up)
    <3>1. n \in 1..Room(len, Len(c.up))
      BY <1>8, <1>12
    <3>. QED
      BY <3>1, <2>1, <1>7 DEF Room
  <2>3. srv.off + n \in 0..OffMod - 1
    BY <2>2, <1>5
  <2>4. srv'.off = srv.off + n
    BY <2>3, <1>5, <1>6, Wraps
  <2>5. PICK u : u = SubSeq(c.up, n + 1, Len(c.up))
    OBVIOUS
  <2>. DEFINE d == [c EXCEPT !.up = u]
  <2>6. conns' = [conns EXCEPT ![k] = d]
    <3>1. ~(n <= 0)
      BY <2>2
    <3>2. conns' = [conns EXCEPT ![k].up = SubSeq(conns[k].up, n + 1, Len(conns[k].up))]
      BY <3>1, <1>2, <1>3, ZenonT(60) DEF Take, k0
    <3>3. u = SubSeq(conns[k].up, n + 1, Len(conns[k].up))
      BY <2>5 DEF c
    <3>. QED
      BY <3>2, <3>3, ZenonT(60) DEF c
  <2>7. /\ IsConn(d) /\ d.up = u /\ d.st = c.st /\ d.peer = c.peer /\ d.down = c.down
        /\ d.pc = c.pc /\ d.cmd = c.cmd /\ d.sent = c.sent /\ d.got = c.got /\ d.ret = c.ret
    BY <1>2, UpFields DEF c
  <2>. HIDE DEF d
  <2>8. mem' = [a \in DOMAIN mem |->
                  IF a \in srv.cmd.addr + srv.off..srv.cmd.addr + srv.off + n - 1
                    THEN c.up[a - (srv.cmd.addr + srv.off) + 1].val ELSE mem[a]]
    BY <2>2, <1>3 DEF c
  <2>9. IsMemory(mem')
    BY <2>8, <1>2 DEF IsMemory
  <2>10. CommandOK(c, srv, mem) /\ IsMemory(mem)
    BY <1>2 DEF c
  <2>11. CommandOK(d, srv', mem') /\ (ServedClient(c, srv, mem) => ServedClient(d, srv', mem'))
    <3>1. d.up = SubSeq(c.up, n + 1, Len(c.up)) /\ n <= srv.cmd.len - srv.off
      BY <2>2, <2>5, <2>7
    <3>2. /\ srv'.pc = srv.pc /\ srv'.cmd = srv.cmd /\ srv'.before = srv.before
          /\ srv'.off = srv.off + n
      BY <2>4, <1>1, <1>6
    <3>3. PICK t : t = srv'
      OBVIOUS
    <3>4. PICK w : w = mem'
      OBVIOUS
    <3>5. CommandOK(d, t, w) /\ (ServedClient(c, srv, mem) => ServedClient(d, t, w))
      BY <3>1, <3>2, <3>3, <3>4, <2>2, <2>7, <2>8, <2>10, <1>1, <1>12, WriteClient
    <3>. QED
      BY <3>3, <3>4, <3>5
  <2>12. (There(d) <=> There(c)) /\ (~There(c) => d.ret = None) /\ (There(c) => ServedClient(c, srv, mem))
    BY <2>7, <1>2 DEF There, c
  <2>. QED
    BY <2>6, <2>7, <2>9, <2>11, <2>12, <1>1, <1>2, <1>6, CommandFrame DEF c
<1>. QED
  BY <1>10, <1>11, <1>12

\* r is t behind s
Behind(r, s, t) ==
  /\ IsSeq(r) /\ Len(r) = Len(s) + Len(t)
  /\ \A i \in 1..Len(s) : r[i] = s[i]
  /\ \A i \in 1..Len(t) : r[Len(s) + i] = t[i]
\* x is n units of memory m at a
UnitsAt(x, m, a, n) == IsSeq(x) /\ Len(x) = n /\ \A i \in 1..n : x[i] = Data(m[a + i - 1])
\* n units have been sent to client c
SentTo(c, m, n) == Reading(c, m, n) /\ Len(c.got) + Len(c.down) = n

\* The same with a name for the result
LEMMA SeqJoined ==
  ASSUME NEW s, IsSeq(s), NEW t, IsSeq(t), NEW r, r = s \o t
  PROVE  Behind(r, s, t)
<1>1. IsSeq(r) /\ Len(r) = Len(s) + Len(t)
  BY SeqConcat
<1>2. ASSUME NEW i \in 1..Len(s) PROVE r[i] = s[i]
  BY SeqConcat
<1>3. ASSUME NEW i \in 1..Len(t) PROVE r[Len(s) + i] = t[i]
  <2>. DEFINE S == {s[j] : j \in DOMAIN s}
              T == {t[j] : j \in DOMAIN t}
              U == S \cup T
  <2>1. s \in Seq(S) /\ t \in Seq(T)
    BY DEF IsSeq
  <2>2. S \subseteq U /\ T \subseteq U
    OBVIOUS
  <2>. HIDE DEF S, T, U
  <2>3. s \in Seq(U) /\ t \in Seq(U)
    BY <2>1, <2>2
  <2>4. Len(s) \in Nat /\ Len(t) \in Nat
    BY <2>3
  <2>5. Len(s) + i \in 1..Len(s) + Len(t) /\ ~(Len(s) + i <= Len(s)) /\ Len(s) + i - Len(s) = i
    BY <2>4
  <2>. QED
    BY <2>3, <2>5
<1>. QED
  BY <1>1, <1>2, <1>3 DEF Behind

\* The units sent follow those on their way.
LEMMA ReadClient ==
  ASSUME NEW c, NEW d, NEW m, NEW x, NEW n \in Nat, NEW o \in Nat, NEW b \in Int,
         SentTo(c, m, o), c.cmd.addr = b,
         d.cmd = c.cmd, d.got = c.got, Behind(d.down, c.down, x), UnitsAt(x, m, b + o, n)
  PROVE  SentTo(d, m, o + n)
<1>. DEFINE G == Len(c.got)
            D == Len(c.down)
<1>1. /\ IsSeq(c.got) /\ IsSeq(c.down) /\ G <= o /\ G + D = o
      /\ \A i \in 1..G : c.got[i] = m[b + i - 1]
      /\ \A i \in 1..o - G : c.down[i] = Data(m[b + G + i - 1])
  BY DEF Reading, SentTo
<1>2. G \in Nat /\ D \in Nat
  BY <1>1, SeqFacts
<1>3. /\ IsSeq(d.down) /\ Len(d.down) = D + n
      /\ \A i \in 1..D : d.down[i] = c.down[i]
      /\ \A i \in 1..n : d.down[D + i] = x[i]
  BY <1>2 DEF Behind, UnitsAt
<1>8. \A i \in 1..n : x[i] = Data(m[b + o + i - 1])
  BY DEF UnitsAt
<1>. HIDE DEF G, D
<1>4. G + (D + n) = o + n /\ G <= o + n /\ o - G = D /\ (o + n) - G = D + n
  BY <1>1, <1>2
<1>5. ASSUME NEW i \in 1..(o + n) - G PROVE d.down[i] = Data(m[b + G + i - 1])
  <2>1. i \in 1..D + n
    BY <1>4
  <2>2. CASE i \in 1..D
    BY <2>2, <1>1, <1>3, <1>4
  <2>3. CASE i \notin 1..D
    <3>1. PICK j \in 1..n : i = D + j
      <4>1. i - D \in 1..n /\ i = D + (i - D)
        BY <2>1, <2>3, <1>2
      <4>. QED
        BY <4>1
    <3>2. b + o + j - 1 = b + G + i - 1
      BY <3>1, <1>1, <1>2
    <3>3. d.down[i] = Data(m[b + o + j - 1])
      BY <3>1, <1>3, <1>8
    <3>. QED
      BY <3>2, <3>3
  <2>. QED
    BY <2>2, <2>3
<1>6. Reading(d, m, o + n)
  BY <1>1, <1>3, <1>4, <1>5 DEF Reading, G
<1>7. Len(d.got) + Len(d.down) = o + n
  BY <1>3, <1>4 DEF G
<1>. QED
  BY <1>6, <1>7 DEF SentTo

\* The server sends a part of a read.
LEMMA ReadStep ==
  ASSUME Faults \subseteq {"leave"}, NetInv, read
  PROVE  NetInv'
<1>1. srv.pc = "command" /\ srv.cmd.op = "read" /\ srv.off < srv.cmd.len /\ mem' = mem
  BY DEF read, Handles
<1>2. PICK k \in Conns : AtWork(k)
  BY <1>1, AtCommand
<1>. USE DEF AtWork
<1>. DEFINE c == conns[k]
<1>3. PICK n \in send(srv.cmd.len - srv.off) :
        /\ Put([i \in 1..n |-> Data(mem[srv.cmd.addr + srv.off + i - 1])])
        /\ srv' = [srv EXCEPT !.off = Advanced(n)]
  BY DEF read
<1>4. srv.cmd \in Commands /\ TransferOK(c, srv) /\ StoredOK(c, srv, mem)
  BY <1>2 DEF CommandOK
<1>5. /\ srv.cmd.len \in 0..OffMod - 1 /\ srv.cmd.addr \in Int /\ srv.off \in Nat /\ OffMod \in Nat
      /\ OffMod > 0
  <2>1. srv.cmd.len \in 0..OffMod - 1 /\ srv.cmd.addr \in Int /\ srv.off \in Nat /\ OffMod \in Nat
    BY <1>1, <1>4, CommandsAssumption DEF TransferOK
  <2>. QED
    BY <2>1
<1>6. /\ IsServer(srv') /\ srv'.pc = "command" /\ srv'.k = srv.k /\ srv'.cmd = srv.cmd
      /\ srv'.before = srv.before /\ srv'.killed = srv.killed /\ srv'.off = (srv.off + n) % OffMod
  BY <1>1, <1>2, <1>3 DEF IsServer, Advanced
<1>. DEFINE len == srv.cmd.len - srv.off
<1>7. len \in Nat /\ len > 0
  BY <1>1, <1>5
<1>8. send(len) = IF c.peer = "rst" THEN {-1} ELSE 1..len
  BY <1>2, <1>7, Calls
<1>9. ASSUME NEW d PROVE StoredOK(d, srv', mem)
  BY <1>1, <1>4, <1>6 DEF StoredOK
<1>. HIDE DEF c
<1>10. c.peer # "here" => conns' = [conns EXCEPT ![k] = c] /\ ~There(c)
  BY <1>2, <1>3 DEF Put, conn, k0, c, There
<1>11. CASE c.peer = "rst"
  <2>1. n = -1
    BY <1>8, <1>11
  <2>2. srv'.off \in Nat
    BY <2>1, <1>5, <1>6, Wraps
  <2>3. TransferOK(c, srv')
    BY <2>2, <1>6, <1>11 DEF TransferOK
  <2>4. CommandOK(c, srv', mem)
    BY <2>3, <1>4, <1>6, <1>9 DEF CommandOK
  <2>. QED
    BY <2>4, <1>1, <1>2, <1>6, <1>10, <1>11, CommandFrame DEF c
<1>12. CASE c.peer # "rst"
  <2>1. n \in Nat /\ n > 0 /\ n <= srv.cmd.len - srv.off
    BY <1>7, <1>8, <1>12
  <2>2. srv.off + n \in 0..OffMod - 1 /\ srv.off + n <= srv.cmd.len /\ srv.off + n \in Nat
    BY <2>1, <1>5
  <2>3. srv'.off = srv.off + n
    BY <2>2, <1>5, <1>6, Wraps
  <2>4. c.up = <<>>
    BY <1>1, <1>4, <1>12 DEF TransferOK
  <2>5. ASSUME NEW d, d.up = c.up PROVE CommandOK(d, srv', mem)
    <3>1. TransferOK(d, srv')
      BY <2>2, <2>3, <2>4, <2>5, <1>1, <1>6 DEF TransferOK
    <3>2. StoredOK(d, srv', mem)
      BY <1>1, <1>4, <1>6 DEF StoredOK
    <3>. QED
      BY <3>1, <3>2, <1>4, <1>6 DEF CommandOK
  <2>6. CASE c.peer # "here"
    <3>1. CommandOK(c, srv', mem)
      BY <2>5
    <3>. QED
      BY <3>1, <2>6, <1>1, <1>2, <1>6, <1>10, CommandFrame DEF c
  <2>7. CASE c.peer = "here"
    <3>1. PICK x : x = [i \in 1..n |-> Data(mem[srv.cmd.addr + srv.off + i - 1])]
      OBVIOUS
    <3>2. IsSeq(x) /\ Len(x) = n
      BY <3>1, <2>1, SeqMade
    <3>3. UnitsAt(x, mem, srv.cmd.addr + srv.off, n)
      BY <3>1, <3>2 DEF UnitsAt
    <3>. DEFINE d == [c EXCEPT !.down = c.down \o x]
    <3>4. conns' = [conns EXCEPT ![k] = d]
      BY <3>1, <2>7, <1>2, <1>3 DEF Put, conn, k0, c
    <3>5. /\ IsConn(d) /\ d.down = c.down \o x /\ d.st = c.st /\ d.peer = c.peer /\ d.up = c.up
          /\ d.pc = c.pc /\ d.cmd = c.cmd /\ d.sent = c.sent /\ d.got = c.got /\ d.ret = c.ret
      BY <1>2, DownFields, ZenonT(60) DEF c
    <3>. HIDE DEF d
    <3>6. There(c) /\ There(d)
      BY <3>5, <2>7, <1>2 DEF There, c
    <3>7. ServedClient(c, srv, mem)
      BY <3>6, <1>2 DEF c
    <3>8. /\ Reading(c, mem, srv.off) /\ Len(c.got) + Len(c.down) = srv.off /\ c.cmd = srv.cmd
          /\ c.ret = None /\ Sending(c)
      BY <3>7, <1>1 DEF ServedClient, HasRead
    <3>9. Reading(d, mem, srv.off + n) /\ Len(d.got) + Len(d.down) = srv.off + n
      <4>. DEFINE o == srv.off
                  b == srv.cmd.addr
      <4>1. /\ Reading(c, mem, o) /\ Len(c.got) + Len(c.down) = o /\ c.cmd.addr = b
            /\ UnitsAt(x, mem, b + o, n)
            /\ o \in Nat /\ b \in Int
        BY <3>3, <3>8, <1>5
      <4>. HIDE DEF o, b
      <4>2. Reading(d, mem, o + n) /\ Len(d.got) + Len(d.down) = o + n
        <5>1. d.cmd = c.cmd /\ d.got = c.got
          BY <3>5
        <5>2. n \in Nat /\ o \in Nat /\ b \in Int
          BY <4>1, <2>1
        <5>3. PICK m : m = mem
          OBVIOUS
        <5>4. PICK u : u = c.down
          OBVIOUS
        <5>5. IsSeq(u)
          BY <5>4, <4>1 DEF Reading
        <5>6. PICK v : v = d.down
          OBVIOUS
        <5>7. v = u \o x
          BY <5>4, <5>6, <3>5
        <5>8. Behind(v, u, x)
          BY ONLY <5>5, <5>7, <3>2, SeqJoined
        <5>9. /\ Behind(d.down, c.down, x) /\ UnitsAt(x, m, b + o, n)
              /\ SentTo(c, m, o) /\ c.cmd.addr = b
          BY ONLY <5>3, <5>4, <5>6, <5>8, <4>1 DEF SentTo
        <5>10. SentTo(d, m, o + n)
          BY ONLY <5>1, <5>2, <5>9, ReadClient
        <5>. QED
          BY <5>3, <5>10 DEF SentTo
      <4>. QED
        BY <4>2 DEF o
    <3>10. HasRead(srv') = srv.off + n
      BY <2>3, <1>1, <1>6 DEF HasRead
    <3>11. Sending(d)
      BY <3>5, <3>8 DEF Sending
    <3>12. ServedClient(d, srv', mem)
      BY <3>5, <3>8, <3>9, <3>10, <3>11, <1>1, <1>6 DEF ServedClient
    <3>13. CommandOK(d, srv', mem)
      BY <3>5, <2>5
    <3>. QED
      BY <3>4, <3>5, <3>6, <3>12, <3>13, <1>1, <1>2, <1>6, CommandFrame DEF c
  <2>. QED
    BY <2>6, <2>7
<1>. QED
  BY <1>11, <1>12

\* A step of a client that is there
LEMMA ClientFrame ==
  ASSUME NetInv, NEW k \in Conns, NEW d, conns' = [conns EXCEPT ![k] = d], srv' = srv, mem' = mem,
         There(conns[k]), IsConn(d), d.st = conns[k].st, d.peer \in {"here", "fin", "rst"},
         ClientOK(d, k, srv, mem), GoneOK(d, k, srv), Serves(srv, k) => CommandOK(d, srv, mem)
  PROVE  NetInv'
<1>1. /\ ServerOK(srv, conns) /\ OrderOK(conns) /\ IsMemory(mem) /\ conns = [j \in Conns |-> conns[j]]
      /\ ConnOK(conns[k], k, srv) /\ 0 \notin Conns
      /\ srv.pc \in {"command", "answer"} => CommandOK(conns[srv.k], srv, mem)
  BY ConnsAssumption DEF NetInv
<1>2. conns'[k] = d /\ \A j \in Conns \ {k} : conns'[j] = conns[j]
  BY <1>1
<1>3. conns[k].peer = "here" /\ conns[k].st # "unused"
  BY DEF There
<1>4. OrderOK(conns')
  BY <1>1, <1>2, <1>3 DEF OrderOK
<1>5. ServerOK(srv', conns')
  BY <1>1, <1>2, <1>3 DEF ServerOK
<1>6. ConnOK(d, k, srv')
  BY <1>1, <1>3 DEF ConnOK
<1>7. ASSUME NEW j \in Conns \ {k}
      PROVE  /\ j = srv.k <=> j = srv'.k
             /\ ClientOK(conns[j], j, srv', mem') /\ GoneOK(conns[j], j, srv')
  BY DEF NetInv
<1>8. ASSUME srv'.pc \in {"command", "answer"} PROVE CommandOK(conns'[srv'.k], srv', mem')
  <2>1. srv.k \in Conns /\ CommandOK(conns[srv.k], srv, mem)
    BY <1>1, <1>8 DEF ServerOK
  <2>2. CASE srv.k = k
    <3>1. CommandOK(d, srv, mem)
      BY <2>2, <1>8 DEF Serves
    <3>. QED
      BY <3>1, <2>2, <1>2
  <2>3. CASE srv.k # k
    <3>1. conns'[srv.k] = conns[srv.k]
      BY <2>1, <2>3, <1>2
    <3>. QED
      BY <3>1, <2>1
  <2>. QED
    BY <2>2, <2>3
<1>9. ClientOK(d, k, srv', mem') /\ GoneOK(d, k, srv') /\ IsMemory(mem')
  BY <1>1
<1>. QED
  BY <1>4, <1>5, <1>6, <1>7, <1>8, <1>9, NetFrame

\* What is known of a client that takes a step
LEMMA ClientThere ==
  ASSUME NetInv, NEW k \in Conns, Connected(k)
  PROVE  /\ There(conns[k]) /\ IsConn(conns[k]) /\ conns[k].peer = "here"
         /\ conns = [j \in Conns |-> conns[j]]
         /\ ClientOK(conns[k], k, srv, mem)
         /\ Serves(srv, k) => ServedClient(conns[k], srv, mem) /\ CommandOK(conns[k], srv, mem)
         /\ ~Serves(srv, k) => \/ IdleClient(conns[k], mem) \/ PendingClient(conns[k])
                               \/ AnsweredClient(conns[k], mem)
         /\ conns[k].st = "backlog" => NewClient(conns[k], mem)
         /\ conns[k].st = "closed" => srv.killed
<1>1. There(conns[k]) /\ conns[k].peer = "here"
  BY DEF Connected, There
<1>2. ConnOK(conns[k], k, srv) /\ ClientOK(conns[k], k, srv, mem) /\ conns = [j \in Conns |-> conns[j]]
  BY DEF NetInv
<1>3. Serves(srv, k) => CommandOK(conns[k], srv, mem)
  BY DEF NetInv, Serves
<1>. QED
  BY <1>1, <1>2, <1>3 DEF ConnOK, ClientOK

\* A client that has a command is sending it or waits.
LEMMA SendingWaits ==
  ASSUME NEW c, Sending(c)
  PROVE  c.pc \in {"sending", "waiting"}
  BY DEF Sending

\* A client comes when the last one has left.
LEMMA ConnectStep ==
  ASSUME NetInv, NEW k \in Conns, Connect(k)
  PROVE  NetInv'
<1>1. /\ ServerOK(srv, conns) /\ OrderOK(conns) /\ IsMemory(mem) /\ conns = [j \in Conns |-> conns[j]]
      /\ ConnOK(conns[k], k, srv) /\ 0 \notin Conns
      /\ srv.pc \in {"command", "answer"} => CommandOK(conns[srv.k], srv, mem)
  BY ConnsAssumption DEF NetInv
<1>2. /\ srv' = srv /\ mem' = mem /\ conns[k].st = "unused"
      /\ k > 1 => conns[k - 1].peer # "here"
      /\ conns' = [conns EXCEPT ![k].st = "backlog"]
  BY DEF Connect
<1>3. conns[k] = Unused /\ k # srv.k
  BY <1>1, <1>2 DEF ConnOK
<1>. DEFINE d == [Unused EXCEPT !.st = "backlog"]
<1>4. conns' = [conns EXCEPT ![k] = d]
  BY <1>2, <1>3
<1>5. /\ IsConn(d) /\ d.st = "backlog" /\ d.peer = "here" /\ d.up = <<>> /\ d.down = <<>>
      /\ d.pc = "idle" /\ d.ret = None
  BY DEF Unused, IsConn
<1>. HIDE DEF d
<1>6. conns'[k] = d /\ \A j \in Conns \ {k} : conns'[j] = conns[j]
  BY <1>1, <1>4
<1>7. ASSUME NEW j \in Conns, j < k PROVE conns[j].peer # "here" /\ conns[j].st # "unused"
  <2>1. j \in Nat \ {0} /\ k \in Nat \ {0}
    BY ConnsAssumption
  <2>2. k > 1 /\ k - 1 \in Conns /\ (j = k - 1 \/ j < k - 1)
    BY <2>1, <1>7, ConnsAssumption
  <2>3. conns[k - 1].peer # "here" /\ ConnOK(conns[k - 1], k - 1, srv)
    BY <2>2, <1>2 DEF NetInv
  <2>4. conns[k - 1].st # "unused"
    BY <2>3 DEF ConnOK, Unused
  <2>. QED
    BY <2>2, <2>3, <2>4, <1>1 DEF OrderOK
<1>8. OrderOK(conns')
  <2>. SUFFICES ASSUME NEW i \in Conns, NEW j \in Conns, i < j, conns'[j].st # "unused"
                PROVE  conns'[i].peer # "here" /\ conns'[i].st # "unused"
    BY DEF OrderOK
  <2>1. i # j
    BY ConnsAssumption
  <2>2. CASE j = k
    BY <2>1, <2>2, <1>6, <1>7
  <2>3. CASE j # k
    <3>1. conns[i].peer # "here" /\ conns[i].st # "unused"
      BY <2>3, <1>1, <1>6 DEF OrderOK
    <3>. QED
      BY <3>1, <1>2, <1>6
  <2>. QED
    BY <2>2, <2>3
<1>9. ServerOK(srv', conns')
  BY <1>1, <1>2, <1>3, <1>6 DEF ServerOK
<1>10. ConnOK(d, k, srv')
  BY <1>2, <1>3, <1>5 DEF ConnOK
<1>11. ClientOK(d, k, srv', mem') /\ GoneOK(d, k, srv')
  <2>1. ~Serves(srv', k)
    BY <1>2, <1>3 DEF Serves
  <2>2. IdleClient(d, mem') /\ NewClient(d, mem')
    BY <1>5 DEF IdleClient, NewClient
  <2>. QED
    BY <2>1, <2>2, <1>5 DEF ClientOK, GoneOK
<1>12. ASSUME NEW j \in Conns \ {k}
       PROVE  /\ j = srv.k <=> j = srv'.k
              /\ ClientOK(conns[j], j, srv', mem') /\ GoneOK(conns[j], j, srv')
  BY <1>2 DEF NetInv
<1>13. ASSUME srv'.pc \in {"command", "answer"} PROVE CommandOK(conns'[srv'.k], srv', mem')
  <2>1. srv.k \in Conns /\ CommandOK(conns[srv.k], srv, mem) /\ srv.k # k
    BY <1>1, <1>2, <1>3, <1>13 DEF ServerOK
  <2>2. conns'[srv.k] = conns[srv.k]
    BY <2>1, <1>6
  <2>. QED
    BY <2>1, <2>2, <1>2
<1>14. IsMemory(mem')
  BY <1>1, <1>2
<1>. QED
  BY <1>4, <1>8, <1>9, <1>10, <1>11, <1>12, <1>13, <1>14, NetFrame

\* a client with a new command
Commanded(c, u, q, l, z) ==
  [c EXCEPT !.up = u, !.cmd = q, !.sent = 0, !.got = <<>>, !.ret = None, !.cmds = l, !.pc = z]

\* It changes nothing else.
LEMMA CommandFields ==
  ASSUME NEW c, IsConn(c), NEW u, NEW z, NEW q, NEW l
  PROVE  LET d == Commanded(c, u, q, l, z)
         IN  /\ IsConn(d) /\ d.st = c.st /\ d.peer = c.peer /\ d.up = u /\ d.down = c.down
             /\ d.pc = z /\ d.cmd = q /\ d.sent = 0 /\ d.got = <<>> /\ d.ret = None
<1>. DEFINE d == Commanded(c, u, q, l, z)
<1>1. PICK a1, a2, a3, a4, a5, a6, a7, a8, a9, a10 :
        c = [st |-> a1, peer |-> a2, up |-> a3, down |-> a4, pc |-> a5, cmd |-> a6, sent |-> a7,
             got |-> a8, cmds |-> a9, ret |-> a10]
  BY Zenon DEF IsConn
<1>2. c.st = a1 /\ c.peer = a2 /\ c.down = a4
  BY <1>1
<1>3. PICK e : e = [c EXCEPT !.up = u, !.cmd = q]
  OBVIOUS
<1>4. e = [st |-> a1, peer |-> a2, up |-> u, down |-> a4, pc |-> a5, cmd |-> q, sent |-> a7,
           got |-> a8, cmds |-> a9, ret |-> a10]
  BY <1>1, <1>3
<1>5. PICK f : f = [e EXCEPT !.sent = 0, !.got = <<>>]
  OBVIOUS
<1>6. f = [st |-> a1, peer |-> a2, up |-> u, down |-> a4, pc |-> a5, cmd |-> q, sent |-> 0,
           got |-> <<>>, cmds |-> a9, ret |-> a10]
  BY <1>4, <1>5
<1>7. PICK h : h = [f EXCEPT !.ret = None, !.cmds = l]
  OBVIOUS
<1>8. h = [st |-> a1, peer |-> a2, up |-> u, down |-> a4, pc |-> a5, cmd |-> q, sent |-> 0,
            got |-> <<>>, cmds |-> l, ret |-> None]
  BY <1>6, <1>7
<1>9. [h EXCEPT !.pc = z]
        = [st |-> a1, peer |-> a2, up |-> u, down |-> a4, pc |-> z, cmd |-> q, sent |-> 0,
           got |-> <<>>, cmds |-> l, ret |-> None]
  BY <1>8
<1>10. d = [h EXCEPT !.pc = z]
  BY <1>3, <1>5, <1>7 DEF Commanded
<1>. HIDE DEF d
<1>11. d = [st |-> a1, peer |-> a2, up |-> u, down |-> a4, pc |-> z, cmd |-> q, sent |-> 0,
            got |-> <<>>, cmds |-> l, ret |-> None]
  BY <1>9, <1>10
<1>12. /\ IsConn(d) /\ d.st = c.st /\ d.peer = c.peer /\ d.up = u /\ d.down = c.down
       /\ d.pc = z /\ d.cmd = q /\ d.sent = 0 /\ d.got = <<>> /\ d.ret = None
  BY <1>2, <1>11 DEF IsConn
<1>. QED
  BY <1>12 DEF d

\* A client sends a command.
LEMMA SendCommandStep ==
  ASSUME NetInv, NEW k \in Conns, SendCommand(k)
  PROVE  NetInv'
<1>. DEFINE c == conns[k]
<1>1. Connected(k) /\ c.pc = "idle" /\ srv' = srv /\ mem' = mem
  BY DEF SendCommand
<1>2. PICK q \in Commands :
        conns' = [conns EXCEPT ![k].up = Append(@, Command(q)), ![k].cmd = q, ![k].sent = 0,
                    ![k].got = <<>>, ![k].ret = None, ![k].cmds = @ + 1,
                    ![k].pc = IF q.op = "write" THEN "sending" ELSE "waiting"]
  BY DEF SendCommand
<1>3. /\ There(c) /\ IsConn(c) /\ c.peer = "here" /\ conns = [j \in Conns |-> conns[j]]
      /\ Serves(srv, k) => ServedClient(c, srv, mem) /\ CommandOK(c, srv, mem)
      /\ ~Serves(srv, k) => IdleClient(c, mem) \/ PendingClient(c) \/ AnsweredClient(c, mem)
      /\ c.st = "closed" => srv.killed
  BY <1>1, ClientThere
<1>4. ~Serves(srv, k) /\ IdleClient(c, mem)
  BY <1>1, <1>3, SendingWaits DEF ServedClient, PendingClient, AnsweredClient
<1>5. c.up = <<>> /\ c.down = <<>>
  BY <1>4 DEF IdleClient
<1>6. PICK u : u = Append(<<>>, Command(q))
  OBVIOUS
<1>7. CommandCells(u, q, 0)
  <2>1. IsSeq(u) /\ Len(u) = 1 /\ u[1] = Command(q)
    <3>1. PICK e : e = <<>> /\ IsSeq(e) /\ Len(e) = 0
      BY SeqEmpty
    <3>2. PICK x : x = Command(q)
      OBVIOUS
    <3>3. IsSeq(Append(e, x)) /\ Len(Append(e, x)) = Len(e) + 1 /\ Append(e, x)[Len(e) + 1] = x
      BY <3>1, SeqAppend
    <3>4. u = Append(e, x)
      BY <3>1, <3>2, <1>6
    <3>5. Len(e) + 1 = 1
      BY <3>1
    <3>6. IsSeq(u) /\ Len(u) = 1 /\ u[1] = x
      BY ONLY <3>3, <3>4, <3>5
    <3>. QED
      BY <3>2, <3>6
  <2>. QED
    BY <2>1 DEF CommandCells
<1>. DEFINE z == IF q.op = "write" THEN "sending" ELSE "waiting"
            l == c.cmds + 1
            d == Commanded(c, u, q, l, z)
<1>8. conns' = [conns EXCEPT ![k] = d]
  <2>1. Append(c.up, Command(q)) = u
    BY <1>5, <1>6
  <2>2. conns' = [conns EXCEPT ![k] = [c EXCEPT !.up = Append(@, Command(q)), !.cmd = q, !.sent = 0,
                                         !.got = <<>>, !.ret = None, !.cmds = @ + 1, !.pc = z]]
    BY <1>2
  <2>. QED
    BY <2>1, <2>2 DEF Commanded
<1>9. /\ IsConn(d) /\ d.st = c.st /\ d.peer = c.peer /\ d.up = u /\ d.down = c.down /\ d.pc = z
      /\ d.cmd = q /\ d.sent = 0 /\ d.got = <<>> /\ d.ret = None
  BY <1>3, CommandFields
<1>. HIDE DEF d, c
<1>10. Sending(d)
  <2>1. q.op = "write" => q.len \in Nat /\ q.len > 0
    BY CommandsAssumption
  <2>. QED
    BY <2>1, <1>9 DEF Sending
<1>11. PendingClient(d)
  BY <1>5, <1>7, <1>9, <1>10 DEF PendingClient
<1>12. ClientOK(d, k, srv, mem) /\ GoneOK(d, k, srv)
  BY <1>3, <1>4, <1>9, <1>11 DEF ClientOK, GoneOK, NewClient
<1>. QED
  BY <1>1, <1>3, <1>4, <1>8, <1>9, <1>12, ClientFrame DEF c

\* a client that has sent one more unit
DataSent(c, u, n, z) == [c EXCEPT !.up = u, !.sent = n, !.pc = z]

\* It changes nothing else.
LEMMA DataFields ==
  ASSUME NEW c, IsConn(c), NEW u, NEW n, NEW z
  PROVE  LET d == DataSent(c, u, n, z)
         IN  /\ IsConn(d) /\ d.st = c.st /\ d.peer = c.peer /\ d.up = u /\ d.down = c.down
             /\ d.pc = z /\ d.cmd = c.cmd /\ d.sent = n /\ d.got = c.got /\ d.ret = c.ret
<1>. DEFINE d == DataSent(c, u, n, z)
<1>1. PICK a1, a2, a3, a4, a5, a6, a7, a8, a9, a10 :
        c = [st |-> a1, peer |-> a2, up |-> a3, down |-> a4, pc |-> a5, cmd |-> a6, sent |-> a7,
             got |-> a8, cmds |-> a9, ret |-> a10]
  BY Zenon DEF IsConn
<1>2. c.st = a1 /\ c.peer = a2 /\ c.down = a4 /\ c.cmd = a6 /\ c.got = a8 /\ c.ret = a10
  BY <1>1
<1>3. PICK e : e = [c EXCEPT !.up = u, !.sent = n]
  OBVIOUS
<1>4. e = [st |-> a1, peer |-> a2, up |-> u, down |-> a4, pc |-> a5, cmd |-> a6, sent |-> n,
           got |-> a8, cmds |-> a9, ret |-> a10]
  BY <1>1, <1>3
<1>5. d = [e EXCEPT !.pc = z]
  BY <1>3 DEF DataSent
<1>. HIDE DEF d
<1>6. d = [st |-> a1, peer |-> a2, up |-> u, down |-> a4, pc |-> z, cmd |-> a6, sent |-> n,
           got |-> a8, cmds |-> a9, ret |-> a10]
  BY <1>4, <1>5
<1>7. /\ IsConn(d) /\ d.st = c.st /\ d.peer = c.peer /\ d.up = u /\ d.down = c.down
      /\ d.pc = z /\ d.cmd = c.cmd /\ d.sent = n /\ d.got = c.got /\ d.ret = c.ret
  BY <1>2, <1>6 DEF IsConn
<1>. QED
  BY <1>7 DEF d

\* u is the data of write q behind the first o units, up to the n-th
Follows(u, q, o, n) == IsSeq(u) /\ o + Len(u) = n /\ DataCells(u, q, o)
NextSent(u, q, n) == Append(u, Data(q.data[n + 1]))

\* What the client of a write sends next is the next unit of its data.
LEMMA NextUnit ==
  ASSUME NEW u, NEW q, NEW n \in Nat, NEW o \in Nat, Follows(u, q, o, n)
  PROVE  Follows(NextSent(u, q, n), q, o, n + 1)
<1>. DEFINE v == NextSent(u, q, n)
<1>. USE DEF Follows
<1>1. PICK x : x = Data(q.data[n + 1])
  OBVIOUS
<1>2. /\ IsSeq(v) /\ Len(v) = Len(u) + 1 /\ \A i \in 1..Len(u) : v[i] = u[i]
      /\ v[Len(u) + 1] = x
  <2>1. v = Append(u, x)
    BY <1>1 DEF NextSent
  <2>2. /\ IsSeq(Append(u, x)) /\ Len(Append(u, x)) = Len(u) + 1
        /\ \A i \in 1..Len(u) : Append(u, x)[i] = u[i]
        /\ Append(u, x)[Len(u) + 1] = x
    BY SeqAppend
  <2>. QED
    BY ONLY <2>1, <2>2
<1>. HIDE DEF v
<1>3. Len(u) \in Nat
  BY SeqFacts
<1>4. o + (Len(u) + 1) = n + 1
  BY <1>3
<1>5. ASSUME NEW i \in 1..Len(v) PROVE v[i] = Data(q.data[o + i])
  <2>1. CASE i \in 1..Len(u)
    BY <2>1, <1>2 DEF DataCells
  <2>2. CASE i \notin 1..Len(u)
    <3>1. i = Len(u) + 1 /\ o + i = n + 1
      BY <2>2, <1>2, <1>3
    <3>. QED
      BY <3>1, <1>1, <1>2
  <2>. QED
    BY <2>1, <2>2
<1>6. DataCells(v, q, o)
  BY <1>2, <1>5 DEF DataCells
<1>. QED
  BY <1>2, <1>4, <1>6 DEF v

\* A command with n units of its data is followed by the next one.
LEMMA NextCell ==
  ASSUME NEW u, NEW v, NEW q, NEW n \in Nat, CommandCells(u, q, n),
         v = Append(u, Data(q.data[n + 1]))
  PROVE  CommandCells(v, q, n + 1)
<1>1. PICK x : x = Data(q.data[n + 1])
  OBVIOUS
<1>2. /\ IsSeq(u) /\ Len(u) = n + 1 /\ u[1] = Command(q)
      /\ \A i \in 1..n : u[i + 1] = Data(q.data[i])
  BY DEF CommandCells
<1>3. /\ IsSeq(v) /\ Len(v) = Len(u) + 1 /\ \A i \in 1..Len(u) : v[i] = u[i]
      /\ v[Len(u) + 1] = x
  <2>1. v = Append(u, x)
    BY <1>1
  <2>2. /\ IsSeq(Append(u, x)) /\ Len(Append(u, x)) = Len(u) + 1
        /\ \A i \in 1..Len(u) : Append(u, x)[i] = u[i]
        /\ Append(u, x)[Len(u) + 1] = x
    BY <1>2, SeqAppend
  <2>. QED
    BY ONLY <2>1, <2>2
<1>4. Len(v) = (n + 1) + 1 /\ v[1] = Command(q)
  BY <1>2, <1>3
<1>5. ASSUME NEW i \in 1..n + 1 PROVE v[i + 1] = Data(q.data[i])
  <2>1. CASE i \in 1..n
    BY <2>1, <1>2, <1>3
  <2>2. CASE i \notin 1..n
    <3>1. i = n + 1 /\ i + 1 = Len(u) + 1
      BY <2>2, <1>2
    <3>. QED
      BY <3>1, <1>1, <1>3
  <2>. QED
    BY <2>1, <2>2
<1>. QED
  BY <1>3, <1>4, <1>5 DEF CommandCells

\* A client sends a unit of data, before or while its write is carried out.
LEMMA SendDataStep ==
  ASSUME NetInv, NEW k \in Conns, SendData(k)
  PROVE  NetInv'
<1>. DEFINE c == conns[k]
            v == Append(c.up, Data(c.cmd.data[c.sent + 1]))
            n == c.sent + 1
            z == IF n = c.cmd.len THEN "waiting" ELSE "sending"
            d == DataSent(c, v, n, z)
<1>1. Connected(k) /\ c.pc = "sending" /\ srv' = srv /\ mem' = mem
  BY DEF SendData
<1>2. conns' = [conns EXCEPT ![k] = d]
  BY DEF SendData, DataSent
<1>3. /\ There(c) /\ IsConn(c) /\ c.peer = "here"
      /\ Serves(srv, k) => ServedClient(c, srv, mem) /\ CommandOK(c, srv, mem)
      /\ ~Serves(srv, k) => IdleClient(c, mem) \/ PendingClient(c) \/ AnsweredClient(c, mem)
      /\ c.st = "backlog" => NewClient(c, mem)
      /\ c.st = "closed" => srv.killed
  BY <1>1, ClientThere
<1>4. /\ IsConn(d) /\ d.st = c.st /\ d.peer = c.peer /\ d.up = v /\ d.down = c.down /\ d.pc = z
      /\ d.cmd = c.cmd /\ d.sent = n /\ d.got = c.got /\ d.ret = c.ret
  <2>. HIDE DEF v, n, z, c
  <2>. QED
    BY <1>3, DataFields
<1>. HIDE DEF d, c
<1>5. c.cmd \in Commands /\ Sending(c) /\ c.ret = None
  BY <1>1, <1>3 DEF IdleClient, PendingClient, AnsweredClient, ServedClient, CommandOK
<1>6. /\ c.cmd.op = "write" /\ c.sent \in Nat /\ c.sent < c.cmd.len /\ c.cmd.len \in Nat
      /\ n \in 0..c.cmd.len
  BY <1>1, <1>5, CommandsAssumption DEF Sending
<1>7. Sending(d)
  BY <1>4, <1>6 DEF Sending
<1>8. CASE Serves(srv, k)
  <2>1. /\ ServedClient(c, srv, mem) /\ TransferOK(c, srv) /\ StoredOK(c, srv, mem)
        /\ srv.cmd = c.cmd /\ srv.cmd \in Commands
    BY <1>3, <1>8 DEF CommandOK, ServedClient
  <2>2. /\ srv.off \in Nat /\ IsSeq(c.up) /\ DataCells(c.up, c.cmd, srv.off)
        /\ srv.off + Len(c.up) = c.sent
    BY <2>1, <1>3, <1>6 DEF TransferOK, DataCells, ServedClient
  <2>3. /\ IsSeq(v) /\ srv.off + Len(v) = n
        /\ DataCells(v, c.cmd, srv.off)
    <3>1. Follows(c.up, c.cmd, srv.off, c.sent) /\ c.sent \in Nat /\ srv.off \in Nat
      BY <2>2, <1>6 DEF Follows
    <3>2. Follows(NextSent(c.up, c.cmd, c.sent), c.cmd, srv.off, c.sent + 1)
      BY ONLY <3>1, NextUnit
    <3>. QED
      BY <3>2 DEF Follows, NextSent
  <2>4. Len(v) <= c.cmd.len - srv.off
    <3>1. Len(v) \in Nat
      BY <2>3, SeqFacts
    <3>. QED
      BY <3>1, <2>2, <2>3, <1>6
  <2>. HIDE DEF v, n, z
  <2>5. TransferOK(d, srv)
    BY <2>1, <2>2, <2>3, <2>4, <1>3, <1>4, <1>6 DEF TransferOK
  <2>6. StoredOK(d, srv, mem)
    BY <2>1, <1>4 DEF StoredOK
  <2>7. CommandOK(d, srv, mem)
    BY <2>1, <2>5, <2>6 DEF CommandOK
  <2>8. Reading(d, mem, HasRead(srv)) /\ Len(d.got) + Len(d.down) = HasRead(srv)
    BY <2>1, <1>4 DEF ServedClient, Reading
  <2>9. ServedClient(d, srv, mem)
    BY <2>1, <2>3, <2>8, <1>4, <1>5, <1>7 DEF ServedClient
  <2>10. c.st # "backlog"
    BY <1>8 DEF NetInv, ConnOK, Serves, c
  <2>11. ClientOK(d, k, srv, mem) /\ GoneOK(d, k, srv)
    BY <2>9, <2>10, <1>3, <1>4, <1>8 DEF ClientOK, GoneOK, There
  <2>. QED
    BY <2>7, <2>11, <1>1, <1>2, <1>3, <1>4, ClientFrame DEF c
<1>9. CASE ~Serves(srv, k)
  <2>1. PendingClient(c)
    BY <1>1, <1>3, <1>9 DEF IdleClient, AnsweredClient
  <2>2. CommandCells(c.up, c.cmd, c.sent)
    BY <2>1 DEF PendingClient
  <2>3. CommandCells(v, c.cmd, n)
    BY <2>2, <1>6, NextCell
  <2>. HIDE DEF v, n, z
  <2>4. PendingClient(d)
    BY <2>1, <2>3, <1>4, <1>7 DEF PendingClient
  <2>5. ClientOK(d, k, srv, mem) /\ GoneOK(d, k, srv)
    BY <2>4, <1>3, <1>4, <1>9 DEF ClientOK, GoneOK, NewClient, There
  <2>. QED
    BY <2>5, <1>1, <1>2, <1>3, <1>4, <1>9, ClientFrame DEF c
<1>. QED
  BY <1>8, <1>9

\* a client that has taken a cell
CellTaken(c, w, g, r, z) == [c EXCEPT !.down = w, !.got = g, !.ret = r, !.pc = z]

\* It changes nothing else.
LEMMA TakenFields ==
  ASSUME NEW c, IsConn(c), NEW w, NEW g, NEW r, NEW z
  PROVE  LET d == CellTaken(c, w, g, r, z)
         IN  /\ IsConn(d) /\ d.st = c.st /\ d.peer = c.peer /\ d.up = c.up /\ d.down = w
             /\ d.pc = z /\ d.cmd = c.cmd /\ d.sent = c.sent /\ d.got = g /\ d.ret = r
<1>. DEFINE d == CellTaken(c, w, g, r, z)
<1>1. PICK a1, a2, a3, a4, a5, a6, a7, a8, a9, a10 :
        c = [st |-> a1, peer |-> a2, up |-> a3, down |-> a4, pc |-> a5, cmd |-> a6, sent |-> a7,
             got |-> a8, cmds |-> a9, ret |-> a10]
  BY Zenon DEF IsConn
<1>2. c.st = a1 /\ c.peer = a2 /\ c.up = a3 /\ c.cmd = a6 /\ c.sent = a7
  BY <1>1
<1>3. PICK e : e = [c EXCEPT !.down = w, !.got = g]
  OBVIOUS
<1>4. e = [st |-> a1, peer |-> a2, up |-> a3, down |-> w, pc |-> a5, cmd |-> a6, sent |-> a7,
           got |-> g, cmds |-> a9, ret |-> a10]
  BY <1>1, <1>3
<1>5. d = [e EXCEPT !.ret = r, !.pc = z]
  BY <1>3 DEF CellTaken
<1>. HIDE DEF d
<1>6. d = [st |-> a1, peer |-> a2, up |-> a3, down |-> w, pc |-> z, cmd |-> a6, sent |-> a7,
           got |-> g, cmds |-> a9, ret |-> r]
  BY <1>4, <1>5
<1>7. /\ IsConn(d) /\ d.st = c.st /\ d.peer = c.peer /\ d.up = c.up /\ d.down = w
      /\ d.pc = z /\ d.cmd = c.cmd /\ d.sent = c.sent /\ d.got = g /\ d.ret = r
  BY <1>2, <1>6 DEF IsConn
<1>. QED
  BY <1>7 DEF d

\* g and w are the t cells got and on their way: the first n are units of memory m at a
Streamed(g, w, m, a, n, t) ==
  /\ IsSeq(g) /\ IsSeq(w) /\ Len(g) <= n /\ Len(g) + Len(w) = t
  /\ \A i \in 1..Len(g) : g[i] = m[a + i - 1]
  /\ \A i \in 1..n - Len(g) : w[i] = Data(m[a + Len(g) + i - 1])
NextGot(g, w) == Append(g, Head(w).val)

\* A unit received is the next one of memory.
LEMMA ReceiveUnit ==
  ASSUME NEW g, NEW w, NEW m, NEW a \in Int, NEW n \in Nat, NEW t \in Nat, n <= t,
         Streamed(g, w, m, a, n, t), w # <<>>, Len(g) < n
  PROVE  Streamed(NextGot(g, w), Tail(w), m, a, n, t)
<1>1. /\ IsSeq(g) /\ IsSeq(w) /\ Len(g) <= n /\ Len(g) + Len(w) = t
      /\ \A i \in 1..Len(g) : g[i] = m[a + i - 1]
      /\ \A i \in 1..n - Len(g) : w[i] = Data(m[a + Len(g) + i - 1])
  BY DEF Streamed
<1>2. PICK v, h, x : v = Tail(w) /\ x = Head(w).val /\ h = Append(g, x)
  OBVIOUS
<1>3. IsSeq(v) /\ Len(v) = Len(w) - 1 /\ \A i \in 1..Len(w) - 1 : v[i] = w[i + 1]
  BY <1>1, <1>2, SeqTail
<1>4. Head(w) = w[1] /\ Len(w) >= 1
  BY <1>1, SeqTail
<1>5. IsSeq(h) /\ Len(h) = Len(g) + 1 /\ (\A i \in 1..Len(g) : h[i] = g[i]) /\ h[Len(g) + 1] = x
  <2>1. /\ IsSeq(Append(g, x)) /\ Len(Append(g, x)) = Len(g) + 1
        /\ \A i \in 1..Len(g) : Append(g, x)[i] = g[i]
        /\ Append(g, x)[Len(g) + 1] = x
    BY <1>1, SeqAppend
  <2>. QED
    BY ONLY <2>1, <1>2
<1>6. Len(g) \in Nat /\ Len(w) \in Nat
  BY <1>1, SeqFacts
<1>7. x = m[a + (Len(g) + 1) - 1]
  <2>1. 1 \in 1..n - Len(g) /\ a + Len(g) + 1 - 1 = a + (Len(g) + 1) - 1
    BY <1>6
  <2>2. w[1] = Data(m[a + Len(g) + 1 - 1])
    BY <2>1, <1>1
  <2>. QED
    BY <2>1, <2>2, <1>2, <1>4 DEF Data
<1>8. ASSUME NEW i \in 1..Len(h) PROVE h[i] = m[a + i - 1]
  <2>1. CASE i \in 1..Len(g)
    BY <2>1, <1>1, <1>5
  <2>2. CASE i \notin 1..Len(g)
    <3>1. i = Len(g) + 1
      BY <2>2, <1>5, <1>6
    <3>. QED
      BY <3>1, <1>5, <1>7
  <2>. QED
    BY <2>1, <2>2
<1>9. ASSUME NEW i \in 1..n - Len(h) PROVE v[i] = Data(m[a + Len(h) + i - 1])
  <2>1. /\ i \in 1..Len(w) - 1 /\ i + 1 \in 1..n - Len(g)
        /\ a + Len(g) + (i + 1) - 1 = a + Len(h) + i - 1
    BY <1>1, <1>5, <1>6
  <2>2. w[i + 1] = Data(m[a + Len(g) + (i + 1) - 1])
    BY <2>1, <1>1
  <2>. QED
    BY <2>1, <2>2, <1>3
<1>10. Len(h) <= n /\ Len(h) + Len(v) = t
  <2>. DEFINE x1 == Len(g)
              x2 == Len(w)
              y1 == Len(h)
              y2 == Len(v)
  <2>1. x1 \in Nat /\ x2 \in Nat /\ x1 + x2 = t /\ x1 < n /\ y1 = x1 + 1 /\ y2 = x2 - 1
    BY <1>1, <1>3, <1>5, <1>6
  <2>. HIDE DEF x1, x2, y1, y2
  <2>2. y1 <= n /\ y1 + y2 = t
    BY <2>1
  <2>. QED
    BY <2>2 DEF y1, y2
<1>11. Streamed(h, v, m, a, n, t)
  BY <1>3, <1>5, <1>8, <1>9, <1>10 DEF Streamed
<1>12. h = NextGot(g, w) /\ v = Tail(w)
  BY <1>2 DEF NextGot
<1>. QED
  BY ONLY <1>11, <1>12

\* A client takes a unit or the answer.
LEMMA ReceiveStep ==
  ASSUME NetInv, NEW k \in Conns, Receive(k)
  PROVE  NetInv'
<1>. DEFINE c == conns[k]
            more == c.cmd.op = "read" /\ Len(c.got) < c.cmd.len
            w == Tail(c.down)
            g == IF more THEN NextGot(c.got, c.down) ELSE c.got
            r == IF more THEN None ELSE Head(c.down).ret
            z == IF more THEN "waiting" ELSE "idle"
            d == CellTaken(c, w, g, r, z)
<1>1. Connected(k) /\ c.pc = "waiting" /\ c.down # <<>> /\ srv' = srv /\ mem' = mem
  BY DEF Receive
<1>2. conns' = [conns EXCEPT ![k] = d]
  BY DEF Receive, CellTaken, NextGot
<1>3. /\ There(c) /\ IsConn(c) /\ c.peer = "here"
      /\ Serves(srv, k) => ServedClient(c, srv, mem) /\ CommandOK(c, srv, mem)
      /\ ~Serves(srv, k) => IdleClient(c, mem) \/ PendingClient(c) \/ AnsweredClient(c, mem)
      /\ c.st = "backlog" => NewClient(c, mem)
      /\ c.st = "closed" => srv.killed
  BY <1>1, ClientThere
<1>4. /\ IsConn(d) /\ d.st = c.st /\ d.peer = c.peer /\ d.up = c.up /\ d.down = w /\ d.pc = z
      /\ d.cmd = c.cmd /\ d.sent = c.sent /\ d.got = g /\ d.ret = r
  <2>. HIDE DEF w, g, r, z, c
  <2>. QED
    BY <1>3, TakenFields
<1>. HIDE DEF d, c, more
<1>5. c.st # "backlog"
  BY <1>1, <1>3 DEF NewClient, IdleClient, PendingClient
<1>6. There(d) /\ GoneOK(d, k, srv)
  BY <1>3, <1>4 DEF There, GoneOK
<1>7. ASSUME NEW n \in Nat, NEW t \in Nat, n <= t, more, c.cmd.addr \in Int, Len(c.got) < n,
             Reading(c, mem, n), Len(c.got) + Len(c.down) = t
      PROVE  Reading(d, mem, n) /\ Len(d.got) + Len(d.down) = t
  <2>1. Streamed(c.got, c.down, mem, c.cmd.addr, n, t)
    BY <1>7 DEF Reading, Streamed
  <2>2. Streamed(NextGot(c.got, c.down), Tail(c.down), mem, c.cmd.addr, n, t)
    BY <2>1, <1>1, <1>7, ReceiveUnit
  <2>3. Streamed(d.got, d.down, mem, d.cmd.addr, n, t)
    BY <2>2, <1>4, <1>7
  <2>. QED
    BY <2>3 DEF Streamed, Reading
<1>8. CASE Serves(srv, k)
  <2>1. /\ ServedClient(c, srv, mem) /\ TransferOK(c, srv) /\ StoredOK(c, srv, mem)
        /\ srv.cmd = c.cmd /\ srv.cmd \in Commands
    BY <1>3, <1>8 DEF CommandOK, ServedClient
  <2>2. /\ Reading(c, mem, HasRead(srv)) /\ Len(c.got) + Len(c.down) = HasRead(srv)
        /\ IsSeq(c.got) /\ IsSeq(c.down)
    BY <2>1 DEF ServedClient, Reading
  <2>3. Len(c.got) \in Nat /\ Len(c.down) \in Nat \ {0}
    BY <2>2, <1>1, SeqFacts
  <2>4. HasRead(srv) # 0 /\ Len(c.got) < HasRead(srv)
    <3>. DEFINE x == Len(c.got)
                y == Len(c.down)
                n == HasRead(srv)
    <3>1. x + y = n /\ x \in Nat /\ y \in Nat \ {0}
      BY <2>2, <2>3
    <3>. HIDE DEF x, y, n
    <3>2. n # 0 /\ x < n
      BY <3>1
    <3>. QED
      BY <3>2 DEF x, n
  <2>5. c.cmd.op = "read" /\ HasRead(srv) = srv.off
    BY <2>1, <2>4 DEF HasRead
  <2>6. /\ srv.off \in Nat /\ srv.off <= c.cmd.len /\ c.cmd.addr \in Int /\ c.cmd.len \in Nat
        /\ c.up = <<>>
    BY <2>1, <2>5, <1>3, CommandsAssumption DEF TransferOK
  <2>7. more
    BY <2>3, <2>4, <2>5, <2>6 DEF more
  <2>8. Reading(d, mem, srv.off) /\ Len(d.got) + Len(d.down) = srv.off
    <3>. DEFINE n == srv.off
    <3>1. /\ n \in Nat /\ c.cmd.addr \in Int /\ Len(c.got) < n
          /\ Reading(c, mem, n) /\ Len(c.got) + Len(c.down) = n
      BY <2>2, <2>4, <2>5, <2>6, Zenon
    <3>. HIDE DEF n
    <3>2. n <= n
      BY <3>1
    <3>3. Reading(d, mem, n) /\ Len(d.got) + Len(d.down) = n
      BY <3>1, <3>2, <2>7, <1>7
    <3>. QED
      BY <3>3 DEF n
  <2>9. z = "waiting" /\ r = None
    BY <2>7
  <2>. HIDE DEF w, g, r, z
  <2>10. ServedClient(d, srv, mem)
    <3>1. Sending(c) /\ c.pc = "waiting" /\ d.pc = c.pc /\ d.ret = None
      BY <2>1, <2>9, <1>1, <1>4 DEF ServedClient
    <3>2. Sending(d)
      BY <3>1, <1>4 DEF Sending
    <3>. QED
      BY <3>1, <3>2, <2>1, <2>5, <2>8, <1>4 DEF ServedClient
  <2>11. CommandOK(d, srv, mem)
    BY <2>1, <1>4 DEF CommandOK, TransferOK, StoredOK
  <2>12. ClientOK(d, k, srv, mem)
    BY <2>10, <1>3, <1>4, <1>5, <1>6, <1>8 DEF ClientOK
  <2>. QED
    BY <2>11, <2>12, <1>1, <1>2, <1>3, <1>4, <1>6, ClientFrame DEF c
<1>9. CASE ~Serves(srv, k)
  <2>. DEFINE R == ToRead(c.cmd)
  <2>1. AnsweredClient(c, mem)
    BY <1>1, <1>3, <1>9 DEF IdleClient, PendingClient
  <2>2. /\ c.cmd \in Commands /\ c.up = <<>> /\ Reading(c, mem, R)
        /\ Len(c.got) + Len(c.down) = R + 1 /\ IsSeq(c.got) /\ IsSeq(c.down) /\ Len(c.got) <= R
    BY <2>1 DEF AnsweredClient, Reading
  <2>3. Len(c.got) \in Nat /\ Len(c.down) \in Nat /\ R \in Nat
    BY <2>2, SeqFacts, CommandsAssumption DEF ToRead
  <2>4. CASE more
    <3>1. /\ R = c.cmd.len /\ Len(c.got) < R /\ c.cmd.addr \in Int /\ z = "waiting" /\ r = None
      BY <2>2, <2>4, CommandsAssumption DEF more, ToRead
    <3>. DEFINE t == R + 1
    <3>2. t \in Nat /\ R <= t /\ Len(c.got) + Len(c.down) = t
      <4>1. R \in Nat /\ Len(c.got) + Len(c.down) = t
        BY <2>2, <2>3
      <4>. HIDE DEF R
      <4>2. t \in Nat /\ R <= t
        BY <4>1
      <4>. QED
        BY <4>1, <4>2
    <3>. HIDE DEF R, t, w, g, r, z
    <3>3. Reading(d, mem, R) /\ Len(d.got) + Len(d.down) = t
      BY <3>1, <3>2, <2>2, <2>3, <2>4, <1>7
    <3>4. AnsweredClient(d, mem)
      BY <3>1, <3>3, <2>2, <1>4 DEF AnsweredClient, R, t
    <3>5. ClientOK(d, k, srv, mem)
      BY <3>4, <1>3, <1>4, <1>5, <1>6, <1>9 DEF ClientOK
    <3>. QED
      BY <3>5, <1>1, <1>2, <1>3, <1>4, <1>6, <1>9, ClientFrame DEF c
  <2>5. CASE ~more
    <3>1. Len(c.got) = R
      BY <2>2, <2>3, <2>5 DEF more, ToRead
    <3>2. Len(c.down) = 1
      <4>. DEFINE x == Len(c.got)
                  y == Len(c.down)
      <4>1. x + y = R + 1 /\ x = R /\ x \in Nat /\ y \in Nat
        BY <3>1, <2>2, <2>3
      <4>. HIDE DEF x, y, R
      <4>2. y = 1
        BY <4>1
      <4>. QED
        BY <4>2 DEF y
    <3>3. w = <<>>
      <4>1. IsSeq(w) /\ Len(w) = Len(c.down) - 1
        BY <2>2, <1>1, SeqTail
      <4>2. Len(w) = 0
        BY <4>1, <3>2
      <4>. QED
        BY <4>1, <4>2, SeqFacts
    <3>4. d.got = c.got /\ d.down = <<>> /\ d.pc = "idle" /\ d.up = <<>> /\ d.cmd = c.cmd
      BY <3>3, <2>2, <2>5, <1>4
    <3>. HIDE DEF w, g, r, z
    <3>5. Reading(d, mem, R)
      <4>1. IsSeq(c.got) /\ IsSeq(d.down) /\ R - Len(c.got) = 0 /\ Len(c.got) <= R
        BY <3>1, <3>4, <2>2, <2>3, SeqEmpty
      <4>2. \A i \in 1..Len(c.got) : c.got[i] = mem[c.cmd.addr + i - 1]
        BY <2>2 DEF Reading
      <4>. HIDE DEF R
      <4>3. \A i \in 1..R - Len(c.got) : FALSE
        BY <4>1
      <4>. QED
        BY <4>1, <4>2, <4>3, <3>4 DEF Reading
    <3>6. IdleClient(d, mem)
      BY <3>1, <3>4, <3>5, <2>2 DEF IdleClient
    <3>7. ClientOK(d, k, srv, mem)
      BY <3>6, <1>3, <1>4, <1>5, <1>6, <1>9 DEF ClientOK
    <3>. QED
      BY <3>7, <1>1, <1>2, <1>3, <1>4, <1>6, <1>9, ClientFrame DEF c
  <2>. QED
    BY <2>4, <2>5
<1>. QED
  BY <1>8, <1>9

\* a client that has left
Departed(c, p, u) ==
  [c EXCEPT !.peer = p, !.pc = "gone", !.cmd = None, !.got = <<>>, !.ret = None, !.down = <<>>,
     !.up = u]

\* It keeps the state of its connection.
LEMMA DepartedFields ==
  ASSUME NEW c, IsConn(c), NEW p, NEW u
  PROVE  LET d == Departed(c, p, u)
         IN  IsConn(d) /\ d.st = c.st /\ d.peer = p /\ d.up = u /\ d.ret = None
<1>. DEFINE d == Departed(c, p, u)
<1>1. PICK a1, a2, a3, a4, a5, a6, a7, a8, a9, a10 :
        c = [st |-> a1, peer |-> a2, up |-> a3, down |-> a4, pc |-> a5, cmd |-> a6, sent |-> a7,
             got |-> a8, cmds |-> a9, ret |-> a10]
  BY Zenon DEF IsConn
<1>2. c.st = a1
  BY <1>1
<1>3. PICK e : e = [c EXCEPT !.peer = p, !.pc = "gone"]
  OBVIOUS
<1>4. e = [st |-> a1, peer |-> p, up |-> a3, down |-> a4, pc |-> "gone", cmd |-> a6, sent |-> a7,
           got |-> a8, cmds |-> a9, ret |-> a10]
  BY <1>1, <1>3
<1>5. PICK f : f = [e EXCEPT !.cmd = None, !.got = <<>>]
  OBVIOUS
<1>6. f = [st |-> a1, peer |-> p, up |-> a3, down |-> a4, pc |-> "gone", cmd |-> None, sent |-> a7,
           got |-> <<>>, cmds |-> a9, ret |-> a10]
  BY <1>4, <1>5
<1>7. PICK h : h = [f EXCEPT !.ret = None, !.down = <<>>]
  OBVIOUS
<1>8. h = [st |-> a1, peer |-> p, up |-> a3, down |-> <<>>, pc |-> "gone", cmd |-> None,
           sent |-> a7, got |-> <<>>, cmds |-> a9, ret |-> None]
  BY <1>6, <1>7
<1>9. d = [h EXCEPT !.up = u]
  BY <1>3, <1>5, <1>7 DEF Departed
<1>. HIDE DEF d
<1>10. d = [st |-> a1, peer |-> p, up |-> u, down |-> <<>>, pc |-> "gone", cmd |-> None,
            sent |-> a7, got |-> <<>>, cmds |-> a9, ret |-> None]
  BY <1>8, <1>9
<1>11. IsConn(d) /\ d.st = c.st /\ d.peer = p /\ d.up = u /\ d.ret = None
  BY <1>2, <1>10 DEF IsConn
<1>. QED
  BY <1>11 DEF d

\* The part of a write that is there when the connection is reset
LEMMA ResetWrite ==
  ASSUME NEW s, NEW a \in Addrs, s.cmd.len \in Nat, s.cmd.addr \in Int, s.off \in Nat,
         s.off <= s.cmd.len
  PROVE  Written(s, a, s.off) \in {s.before[a], Written(s, a, s.cmd.len)}
<1>. DEFINE b == s.cmd.addr
            l == s.cmd.len
            o == s.off
<1>1. a \in Int /\ b \in Int /\ l \in Nat /\ o \in Nat /\ o <= l
  BY MemoryAssumption
<1>. HIDE DEF b, l, o
<1>2. a \in b..b + o - 1 => a \in b..b + l - 1
  BY <1>1
<1>. QED
  BY <1>2 DEF Written, b, l, o

\* A client leaves, between its commands or in one.
LEMMA LeaveStep ==
  ASSUME NetInv, NEW k \in Conns, Leave(k)
  PROVE  NetInv'
<1>. DEFINE c == conns[k]
<1>1. Connected(k) /\ srv' = srv /\ mem' = mem
  BY DEF Leave
<1>2. PICK how \in {"fin", "rst"} :
        conns' = [conns EXCEPT ![k].peer = how, ![k].pc = "gone", ![k].cmd = None, ![k].got = <<>>,
                    ![k].ret = None, ![k].down = <<>>, ![k].up = IF how = "rst" THEN <<>> ELSE @]
  BY DEF Leave
<1>. DEFINE u == IF how = "rst" THEN <<>> ELSE c.up
            d == Departed(c, how, u)
<1>3. /\ There(c) /\ IsConn(c) /\ c.peer = "here" /\ conns = [j \in Conns |-> conns[j]]
      /\ Serves(srv, k) => ServedClient(c, srv, mem) /\ CommandOK(c, srv, mem)
      /\ ~Serves(srv, k) => IdleClient(c, mem) \/ PendingClient(c) \/ AnsweredClient(c, mem)
  BY <1>1, ClientThere
<1>4. conns' = [conns EXCEPT ![k] = d]
  BY <1>2, <1>3 DEF Departed
<1>5. IsConn(d) /\ d.st = c.st /\ d.peer = how /\ d.up = u /\ d.ret = None
  <2>. HIDE DEF u, c
  <2>. QED
    BY <1>3, DepartedFields
<1>. HIDE DEF d, c
<1>6. ClientOK(d, k, srv, mem)
  BY <1>5 DEF ClientOK, There
<1>7. GoneOK(d, k, srv)
  <2>. SUFFICES ASSUME how = "fin", ~Serves(srv, k) PROVE OneCommand(d.up)
    BY <1>5 DEF GoneOK
  <2>1. d.up = c.up
    BY <1>5
  <2>2. CASE c.up = <<>>
    BY <2>1, <2>2 DEF OneCommand
  <2>3. CASE c.up # <<>>
    <3>1. PendingClient(c)
      BY <2>3, <1>3 DEF IdleClient, AnsweredClient
    <3>2. c.cmd \in Commands /\ Sending(c) /\ CommandCells(c.up, c.cmd, c.sent) /\ c.sent \in Nat
      BY <3>1 DEF PendingClient, CommandCells
    <3>3. c.sent <= IF c.cmd.op = "write" THEN c.cmd.len ELSE 0
      BY <3>2, CommandsAssumption DEF Sending
    <3>. QED
      BY <3>2, <3>3, <2>1 DEF OneCommand
  <2>. QED
    BY <2>2, <2>3
<1>8. ASSUME Serves(srv, k) PROVE CommandOK(d, srv, mem)
  <2>1. srv.cmd \in Commands /\ TransferOK(c, srv) /\ StoredOK(c, srv, mem)
    BY <1>3, <1>8 DEF CommandOK
  <2>2. CASE how = "fin"
    <3>1. d.up = c.up /\ d.peer # "rst" /\ c.peer # "rst"
      BY <2>2, <1>3, <1>5
    <3>. QED
      BY <3>1, <2>1 DEF CommandOK, TransferOK, StoredOK
  <2>3. CASE how = "rst"
    <3>1. TransferOK(d, srv)
      BY <2>1, <2>3, <1>5 DEF TransferOK
    <3>2. StoredOK(d, srv, mem)
      <4>1. CASE srv.cmd.op = "write"
        <5>1. /\ \A a \in Addrs : mem[a] = Written(srv, a, srv.off)
              /\ srv.off \in Nat /\ srv.off <= srv.cmd.len
              /\ srv.cmd.len \in Nat /\ srv.cmd.addr \in Int
          BY <4>1, <2>1, <1>3, CommandsAssumption DEF StoredOK, TransferOK
        <5>2. \A a \in Addrs : mem[a] \in {srv.before[a], Written(srv, a, srv.cmd.len)}
          BY <5>1, ResetWrite
        <5>. QED
          BY <5>2, <4>1, <2>3, <1>5 DEF StoredOK
      <4>2. CASE srv.cmd.op # "write"
        BY <4>2, <2>1 DEF StoredOK
      <4>. QED
        BY <4>1, <4>2
    <3>. QED
      BY <3>1, <3>2, <2>1 DEF CommandOK
  <2>. QED
    BY <2>2, <2>3
<1>9. d.peer \in {"here", "fin", "rst"}
  BY <1>5
<1>. QED
  BY <1>1, <1>3, <1>4, <1>5, <1>6, <1>7, <1>8, <1>9, ClientFrame DEF c

\* The server and the clients start so.
LEMMA NetStart == NetInit => NetInv
<1>. SUFFICES ASSUME NetInit PROVE NetInv
  OBVIOUS
<1>1. /\ mem = [a \in Addrs \cup {Poll} |-> 0] /\ conns = [k \in Conns |-> Unused]
      /\ srv = [pc |-> "ifmgrnclInit", sock |-> "bad", k |-> 0, killed |-> FALSE, cmd |-> None,
                off |-> 0, ret |-> 0, val |-> None, old |-> None, before |-> mem]
  BY DEF NetInit
<1>2. IsMemory(mem)
  BY <1>1 DEF IsMemory
<1>3. /\ IsServer(srv) /\ srv.pc = "ifmgrnclInit" /\ srv.k = 0 /\ srv.killed = FALSE
  BY <1>1 DEF IsServer
<1>4. ServerOK(srv, conns)
  BY <1>3 DEF ServerOK
<1>5. /\ IsConn(Unused) /\ Unused.st = "unused" /\ Unused.peer = "here" /\ Unused.ret = None
  BY DEF Unused, IsConn
<1>6. \A k \in Conns : conns[k] = Unused
  BY <1>1
<1>7. OrderOK(conns)
  BY <1>5, <1>6 DEF OrderOK
<1>8. ASSUME NEW k \in Conns
      PROVE  ConnOK(conns[k], k, srv) /\ ClientOK(conns[k], k, srv, mem) /\ GoneOK(conns[k], k, srv)
  <2>1. k # 0
    BY ConnsAssumption
  <2>2. ConnOK(Unused, k, srv)
    BY <2>1, <1>3, <1>5 DEF ConnOK
  <2>3. ClientOK(Unused, k, srv, mem) /\ GoneOK(Unused, k, srv)
    BY <1>5 DEF ClientOK, GoneOK, There
  <2>. QED
    BY <2>2, <2>3, <1>6
<1>9. conns = [k \in Conns |-> conns[k]]
  BY <1>1
<1>. QED
  BY <1>2, <1>3, <1>4, <1>7, <1>8, <1>9 DEF NetInv

\* Every step keeps it.
LEMMA NetStep ==
  ASSUME Faults \subseteq {"leave"}, NetInv, Net
  PROVE  NetInv'
<1>1. CASE \/ ifmgrnclInit \/ IFMGRNCL_GetInterfaceStatus \/ socketInit \/ socket_bind \/ listen
           \/ stop_listening \/ accept_error
  BY <1>1, ListenStep
<1>2. CASE accept \/ closesocket
  BY <1>2, AcceptStep, CloseStep
<1>3. CASE recv_command \/ answer
  BY <1>3, RecvStep, AnswerStep
<1>4. CASE write \/ read \/ transferred
  BY <1>4, WriteStep, ReadStep, TransferredStep
<1>5. CASE svc \/ kill \/ unknown
  BY <1>5, PlainStep
<1>6. CASE memcpy
  BY <1>6, MemcpyStep
<1>7. CASE repeated_write \/ Other
  BY <1>7, RepeatStep
<1>8. ASSUME NEW k \in Conns,
             Connect(k) \/ SendCommand(k) \/ SendData(k) \/ Receive(k) \/ Leave(k)
      PROVE  NetInv'
  BY <1>8, ConnectStep, SendCommandStep, SendDataStep, ReceiveStep, LeaveStep
<1>. QED
  BY <1>1, <1>2, <1>3, <1>4, <1>5, <1>6, <1>7, <1>8 DEF Net, Server

\* So do the steps of the other builds.
LEMMA NetStutter ==
  ASSUME NetInv, UNCHANGED netvars
  PROVE  NetInv'
  BY DEF NetInv, netvars

\* what the client of a read has got
LEMMA ReadDone ==
  ASSUME NetInv, NEW k \in Conns, conns[k].ret = 0, conns[k].cmd.op = "read"
  PROVE  conns[k].got = [i \in 1..conns[k].cmd.len |-> mem[conns[k].cmd.addr + i - 1]]
<1>. DEFINE c == conns[k]
<1>1. ClientOK(c, k, srv, mem) /\ c.ret # None
  BY ConnsAssumption DEF NetInv
<1>2. IdleClient(c, mem)
  BY <1>1 DEF ClientOK, ServedClient, PendingClient, AnsweredClient
<1>3. Reading(c, mem, c.cmd.len) /\ Len(c.got) = c.cmd.len
  BY <1>1, <1>2 DEF IdleClient, ToRead
<1>4. IsSeq(c.got) /\ \A i \in 1..Len(c.got) : c.got[i] = mem[c.cmd.addr + i - 1]
  BY <1>3 DEF Reading
<1>5. c.got = [i \in 1..Len(c.got) |-> c.got[i]]
  BY <1>4, SeqFacts
<1>. HIDE DEF c
<1>6. c.got = [i \in 1..c.cmd.len |-> mem[c.cmd.addr + i - 1]]
  BY <1>3, <1>4, <1>5
<1>. QED
  BY <1>6 DEF c

\* It implies the property.
LEMMA NetDone == NetInv => CommandsDone
<1>. SUFFICES ASSUME NetInv PROVE CommandsDone
  OBVIOUS
<1>. DEFINE q == srv.cmd
<1>1. ASSUME srv.pc \in {"command", "answer"}, NEW a \in Addrs
      PROVE  /\ mem[a] \in {srv.before[a], Asked(a)}
             /\ srv.pc = "answer" /\ conns[srv.k].peer = "here" => mem[a] = Asked(a)
  <2>1. PICK k \in Conns : AtWork(k)
    BY <1>1, AtCommand
  <2>. DEFINE c == conns[k]
  <2>2. /\ q \in Commands /\ TransferOK(c, srv) /\ StoredOK(c, srv, mem) /\ k = srv.k
        /\ IsMemory(mem)
    BY <2>1 DEF AtWork, CommandOK
  <2>. HIDE DEF c
  <2>3. CASE q.op = "memcpy"
    <3>1. Asked(a) = Copied(srv.before, q)[a]
      BY <2>3 DEF Asked
    <3>2. mem = IF srv.pc = "answer" THEN Copied(srv.before, q) ELSE srv.before
      BY <2>2, <2>3 DEF StoredOK
    <3>. QED
      BY <3>1, <3>2
  <2>4. CASE q.op \notin {"memcpy", "write"}
    <3>1. Asked(a) = srv.before[a]
      BY <2>4 DEF Asked
    <3>2. mem[a] = srv.before[a]
      BY <2>2, <2>4 DEF StoredOK
    <3>. QED
      BY <3>1, <3>2
  <2>5. CASE q.op = "write"
    <3>1. Asked(a) = Written(srv, a, q.len)
      BY <2>5 DEF Asked, Written
    <3>2. CASE c.peer = "rst"
      <4>1. mem[a] \in {srv.before[a], Written(srv, a, q.len)}
        BY <3>2, <2>2, <2>5 DEF StoredOK
      <4>2. conns[srv.k].peer # "here"
        BY <3>2, <2>2 DEF c
      <4>. QED
        BY <4>1, <4>2, <3>1
    <3>3. CASE c.peer # "rst"
      <4>1. mem[a] = Written(srv, a, srv.off)
        BY <3>3, <2>2, <2>5 DEF StoredOK
      <4>2. /\ srv.off \in Nat /\ srv.off <= q.len /\ q.len \in Nat /\ q.addr \in Int
            /\ srv.pc = "answer" => srv.off = q.len
        BY <3>3, <2>2, <2>5, CommandsAssumption DEF TransferOK
      <4>3. Written(srv, a, srv.off) \in {srv.before[a], Written(srv, a, q.len)}
        BY <4>2, ResetWrite
      <4>. QED
        BY <4>1, <4>2, <4>3, <3>1
    <3>. QED
      BY <3>2, <3>3
  <2>. QED
    BY <2>3, <2>4, <2>5
<1>2. \A k \in Conns : conns[k].ret = 0 /\ conns[k].cmd.op = "read" =>
        conns[k].got = [i \in 1..conns[k].cmd.len |-> mem[conns[k].cmd.addr + i - 1]]
  BY ReadDone
<1>. QED
  BY <1>1, <1>2 DEF CommandsDone, conn, k0

\* Without refused buffers and without two sends arriving in one (the runs show what happens
\* then), whatever clients send, however the stream is cut and whenever they leave: a unit of
\* data is put where its client wanted it and nothing else changes, a command that is
\* answered has been carried out, and a read has returned what memory holds
\* (serverCommandHandler of wupserver.c).
THEOREM CommandsCarriedOut ==
  ASSUME Faults \subseteq {"leave"}
  PROVE  Spec => []CommandsDone
<1>1. Init => NetInv
  BY NetStart DEF Init
<1>2. NetInv /\ [Next]_wupvars => NetInv'
  <2>. SUFFICES ASSUME NetInv, [Next]_wupvars PROVE NetInv'
    OBVIOUS
  <2>1. Net \/ UNCHANGED netvars
    BY DEF Next, wupvars
  <2>. QED
    BY <2>1, NetStep, NetStutter
<1>3. NetInv => CommandsDone
  BY NetDone
<1>. QED
  BY <1>1, <1>2, <1>3, PTL DEF Spec
=============================================================================
