-------------------------------- MODULE Fsa --------------------------------
(***************************************************************************)
(* The FSA and MCP calls of services/fsa.c. Each one allocates a zeroed       *)
(* buffer, puts its arguments into the first \h520 bytes, sends them, copies  *)
(* from the second part what the service has answered, and frees the buffer.  *)
(* What tells the calls apart is where they put what: a message here is the   *)
(* list of its fields in the order the code writes them, in bytes.            *)
(***************************************************************************)
EXTENDS Integers, Sequences

IN_SIZE == \h520    \* the request; the answer of OUT_SIZE bytes is behind it
OUT_SIZE == \h293
IOVEC == \h7C0      \* up to three vectors of 12 bytes
IOBUF_SIZE == \h828
PATH == \h27F

\* strncpy writes all n bytes; most numbers are words
Str(off, n) == [off |-> off, len |-> n, string |-> TRUE]
Num(off) == [off |-> off, len |-> 4, string |-> FALSE]
Byte(off) == [off |-> off, len |-> 1, string |-> FALSE]

\* put: the fields. in: how much of the buffer is sent. out: how many bytes are
\* copied from the answer, behind its first word. vecs: 0 for an ioctl.
Ioctl(put) == [put |-> put, in |-> IN_SIZE, out |-> 0, vecs |-> 0]
Ioctlv(put, vecs) == [Ioctl(put) EXCEPT !.vecs = vecs]
Out(m, n) == [m EXCEPT !.out = n]

OnPath == <<Str(4, PATH)>>
OnPathAnd(more) == OnPath \o more
OnHandle == <<Num(4)>>
FSStat == 100
FSDirectoryEntry == FSStat + 256

InstallOps ==
  [MCP_InstallGetInfo |-> [Ioctlv(<<Str(0, PATH)>>, 2) EXCEPT !.in = PATH],
   MCP_Install |-> [Ioctlv(<<Str(0, PATH)>>, 1) EXCEPT !.in = PATH],
   MCP_InstallTarget |-> [Ioctl(<<Byte(3)>>) EXCEPT !.in = 4]]

VolumeOps ==
  [FSA_Mount |-> Ioctlv(OnPathAnd(<<Str(\h284, PATH), Num(\h504), Num(\h508)>>), 3),
   FSA_Unmount |-> Ioctl(OnPathAnd(<<Num(\h284)>>)),
   FSA_FlushVolume |-> Ioctl(OnPath)]

DirOps ==
  [FSA_MakeDir |-> Ioctl(OnPathAnd(<<Num(\h284)>>)),
   FSA_OpenDir |-> Out(Ioctl(OnPath), 4),
   FSA_ReadDir |-> Out(Ioctl(OnHandle), FSDirectoryEntry),
   FSA_RewindDir |-> Ioctl(OnHandle),
   FSA_CloseDir |-> Ioctl(OnHandle),
   FSA_ChangeDir |-> Ioctl(OnPath)]

QuotaOps ==
  [FSA_MakeQuota |-> Ioctl(OnPathAnd(<<Num(\h284), Num(\h288), Num(\h28C)>>)),
   FSA_RemoveQuota |-> Ioctl(OnPath)]

_FSA_ReadWriteFile == Ioctlv(<<Num(8), Num(\hC), Num(\h14), Num(\h18)>>, 3)

\* Mutant: the mode is put where the path still is.
FSA_OpenFile_mutant == Out(Ioctl(OnPathAnd(<<Str(\hA1, \h10)>>)), 4)

FSA_OpenFile == Out(Ioctl(OnPathAnd(<<Str(4 * \hA1, \h10)>>)), 4)

FileOps ==
  [FSA_OpenFile |-> FSA_OpenFile,
   FSA_ReadFile |-> _FSA_ReadWriteFile,
   FSA_WriteFile |-> _FSA_ReadWriteFile,
   FSA_StatFile |-> Out(Ioctl(OnHandle), FSStat),
   FSA_GetStat |-> Out(Ioctl(OnPathAnd(<<Num(\h284)>>)), FSStat),
   FSA_SetPosFile |-> Ioctl(<<Num(4), Num(8)>>),
   FSA_CloseFile |-> Ioctl(OnHandle),
   FSA_FlushFile |-> Ioctl(OnHandle)]

\* FSA_Format takes flags and does not send them. FSA_GetDeviceInfo copies at
\* most \h64 bytes, by type.
DeviceOps ==
  [FSA_ChangeMode |-> Ioctl(OnPathAnd(<<Num(\h284), Num(\h288)>>)),
   FSA_Format |-> Ioctl(OnPathAnd(<<Str(\h284, 8), Num(\h28C), Num(\h290)>>)),
   FSA_GetDeviceInfo |-> Out(Ioctl(OnPathAnd(<<Num(\h284)>>)), \h64),
   FSA_GetVolumeInfo |-> Out(Ioctl(OnPath), \h1BC)]

RawIo == Ioctlv(<<Num(8), Num(\hC), Num(\h10), Num(\h14), Num(\h18)>>, 3)
RawOps ==
  [FSA_RawOpen |-> Out(Ioctl(OnPath), 4),
   FSA_RawClose |-> Ioctl(OnHandle),
   FSA_RawRead |-> RawIo,
   FSA_RawWrite |-> RawIo,
   FSA_Remove |-> Ioctl(OnPath)]

Services == {InstallOps, VolumeOps, DirOps, QuotaOps, FileOps, DeviceOps, RawOps}
Ops == UNION {DOMAIN s : s \in Services}
Messages == [op \in Ops |-> (CHOOSE s \in Services : op \in DOMAIN s)[op]]

-----------------------------------------------------------------------------

Garbled == "garbled"

Apart(f, g) == f.off + f.len <= g.off \/ g.off + g.len <= f.off

\* Field i arrives if it is sent and nothing written later covers it.
Arrives(op, i) ==
  LET put == Messages[op].put
  IN  /\ put[i].off + put[i].len <= Messages[op].in
      /\ \A j \in i + 1..Len(put) : Apart(put[i], put[j])

\* What the service reads where the arguments were put
Got(op, args) == [i \in DOMAIN args |-> IF Arrives(op, i) THEN args[i] ELSE Garbled]

\* A string that fills its field is terminated by a zero nothing is written over.
Terminated(op, i) ==
  LET f == Messages[op].put[i]
      zero == Byte(f.off + f.len)
  IN  f.string => /\ zero.off < Messages[op].in
                  /\ \A j \in DOMAIN Messages[op].put : Apart(zero, Messages[op].put[j])

\* What is copied from the answer is inside it.
OutFits(op) ==
  /\ 4 + Messages[op].out <= OUT_SIZE
  /\ IN_SIZE + OUT_SIZE <= IOVEC /\ IOVEC + 12 * Messages[op].vecs <= IOBUF_SIZE
=============================================================================
