----------------------------- MODULE MCExporter -----------------------------
(* Two fast proxies, one of them good: they share three lists, and one list *)
(* has only the good one.                                                   *)
EXTENDS Exporter, TLC

Http == [protocol |-> "http", elite |-> FALSE, fast |-> TRUE, good |-> FALSE,
         country |-> NoCountry]
Socks == [protocol |-> "socks5", elite |-> FALSE, fast |-> TRUE, good |-> TRUE,
          country |-> NoCountry]
MCProxies == {Http, Socks}
=============================================================================
