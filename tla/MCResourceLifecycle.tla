------------------------- MODULE MCResourceLifecycle -------------------------
(***************************************************************************)
(* The hierarchy of the repository with the most kinds of relations, for   *)
(* ResourceLifecycle.                                                      *)
(*                                                                         *)
(* They are the thread pool, the Linux network change service that reaches *)
(* it by a reference and depends on it, the SSDP discovery service whose   *)
(* network change handler depends on that, and a search that only holds a  *)
(* reference to the discovery service.  The discovery service has a        *)
(* network interface that comes and goes.                                  *)
(***************************************************************************)
EXTENDS ResourceLifecycle

NetService == {"proactor", "pool", "net", "poolRef", "ssdp", "handler", "netRef", "search", "ssdpRef"}
NetResource == {"timer", "interface"}
NetParent ==
    [n \in (NetService \cup NetResource) \ {"proactor"} |->
        CASE n \in {"poolRef", "timer"} -> "net"
          [] n \in {"handler", "interface"} -> "ssdp"
          [] n = "netRef" -> "handler"
          [] n = "ssdpRef" -> "search"
          [] OTHER -> "proactor"]
NetReference == {"poolRef", "netRef", "ssdpRef"}
NetTarget ==
    [r \in NetReference |->
        CASE r = "poolRef" -> "pool" [] r = "netRef" -> "net" [] r = "ssdpRef" -> "ssdp"]
NetDependsOn == {<<"net", "pool">>, <<"handler", "net">>}
NetMember == {"timer"}
NetPrompt == {"proactor", "netRef", "ssdpRef", "handler", "search"}
=============================================================================
