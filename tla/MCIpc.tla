------------------------------- MODULE MCIpc -------------------------------
(***************************************************************************)
(* Ipc with two clients that send well-formed and malformed requests: one is  *)
(* after memory (two cache lines), one after everything else.                 *)
(***************************************************************************)
EXTENDS Ipc
LOCAL INSTANCE SequencesExt

Ioctl(code, in, io) == [command |-> "IOCTL", code |-> code, in |-> in, io |-> io,
                        path |-> [dir |-> None, name |-> None, long |-> FALSE]]
SetPath(dir, name, long) ==
  [Ioctl("SET_FW_PATH", "full", "null") EXCEPT !.path = [dir |-> dir, name |-> name, long |-> long]]
Ioctlv(code, addrs, data, num_io, odd) ==
  [command |-> "IOCTLV", code |-> code, addrs |-> addrs, data |-> data,
   num_in |-> 1 + Len(data), num_io |-> num_io, odd |-> odd]

MCAddrs == 1..2
MemoryRequests ==
  {Ioctlv("WRITE_MEMORY", <<1>>, << <<"x", "y">> >>, 0, FALSE),
   Ioctlv("WRITE_MEMORY", <<2, 1>>, << <<"y">>, <<>> >>, 0, FALSE),
   Ioctlv("WRITE_MEMORY", <<1, 2>>, << <<"x">> >>, 0, FALSE),
   Ioctlv("WRITE_MEMORY", <<>>, <<>>, 0, TRUE),
   Ioctlv("WRITE_MEMORY", <<>>, <<>>, 1, FALSE),
   Ioctlv("EXECUTE", <<2>>, <<>>, 0, FALSE),
   [Ioctlv("EXECUTE", <<>>, <<>>, 0, FALSE) EXCEPT !.num_in = 0],
   SetPath("/vol/slc", "a.img", FALSE)}
OtherRequests ==
  {[command |-> c] : c \in {"OPEN", "READ"}}
    \cup {Ioctl("GET_API_VERSION", "null", "full"), Ioctl("MAP_MEMORY", "full", "null"),
          Ioctl("MAP_MEMORY", "short", "null"), Ioctl("GET_PLUGIN_PATH", "null", "short"),
          Ioctl("GET_MINUTE_PATH", "null", "full"),
          Ioctl("SET_FW_PATH", "null", "null"), Ioctl("unknown", "null", "null"),
          SetPath(None, "b.img", TRUE),
          Ioctlv("unknown", <<>>, <<>>, 0, FALSE)}
MCRequests == [c \in Clients |-> IF c = "memory" THEN MemoryRequests ELSE OtherRequests]

MCBoots == {[boot |-> "sd", on_slc |-> TRUE, location |-> None]}
=============================================================================
