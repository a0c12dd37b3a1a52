-------------------------------- MODULE Wup --------------------------------
(***************************************************************************)
(* wafel_plugin_wupserver: mcp_main starts wupserver_main, which is the       *)
(* server, or one of the two other things it can be built for; or another      *)
(* plugin uses the calls of wafel_core.                                       *)
(***************************************************************************)
EXTENDS WupServer, FsaCopy

CONSTANT Builds   \* what wupserver_main is built for

VARIABLE build
wupvars == <<build, netvars, copyvars>>

Init == build \in Builds /\ NetInit /\ CopyInit

Next ==
  \/ build = "server" /\ Net /\ UNCHANGED <<build, copyvars>>
  \/ build = "restore" /\ Restore /\ UNCHANGED <<build, netvars>>
  \/ build = "install" /\ Install /\ UNCHANGED <<build, netvars>>
  \/ build = "plugin" /\ PluginCall /\ UNCHANGED <<build, netvars>>

Spec == Init /\ [][Next]_wupvars /\ NetFairness
=============================================================================
