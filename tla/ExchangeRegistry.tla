--------------------------- MODULE ExchangeRegistry ---------------------------
(***************************************************************************)
(* The chat engine's registry of running exchanges (Engine.live and the    *)
(* Exchange type of pkg/chat).  The map is keyed by session and sessions   *)
(* do not meet in it, so this module holds the entry of ONE session.       *)
(*                                                                         *)
(* An exchange goes through four points that other goroutines can tell     *)
(* apart: it is registered (begin), its context may be cancelled, it is    *)
(* removed from the registry, and last its done channel is closed.         *)
(***************************************************************************)
CONSTANTS
    Exchanges,    \* everything that may ever run as an exchange
    NoExchange    \* the absent map entry

VARIABLES
    live,         \* Engine.live of the session
    begun,        \* exchanges begin() has registered
    cancelled,    \* exchanges whose context has ended
    ended,        \* exchanges finish() has removed from the registry
    closed        \* exchanges whose done channel is closed

registryVars == <<live, begun, cancelled, ended, closed>>

ASSUME NoExchangeIsNone == NoExchange \notin Exchanges

RegistryTypeOK ==
    /\ live \in Exchanges \union {NoExchange}
    /\ begun \subseteq Exchanges
    /\ cancelled \subseteq begun
    /\ ended \subseteq begun
    /\ closed \subseteq ended

\* Attach: the registered exchange, unless it is closed already.
Attached == live # NoExchange /\ live \notin closed

\* begin: the entry is written whatever it held before.
Begin(x) ==
    /\ x \notin begun
    /\ live' = x
    /\ begun' = begun \union {x}
    /\ UNCHANGED <<cancelled, ended, closed>>

\* Mutant: finish removes whatever entry the session has.
DeregisterAny(x) ==
    /\ x \in begun \ ended
    /\ live' = NoExchange
    /\ ended' = ended \union {x}
    /\ UNCHANGED <<begun, cancelled, closed>>

\* finish, under the registry lock: an exchange removes its own entry only.
Deregister(x) ==
    /\ x \in begun \ ended
    /\ live' = IF live = x THEN NoExchange ELSE live
    /\ ended' = ended \union {x}
    /\ UNCHANGED <<begun, cancelled, closed>>

\* The rest of finish: Cancel, then close.
Close(x) ==
    /\ x \in ended \ closed
    /\ cancelled' = cancelled \union {x}
    /\ closed' = closed \union {x}
    /\ UNCHANGED <<live, begun, ended>>

\* CancelExchange, or the exchange's own time limit.
Cancel(x) ==
    /\ x \in begun \ cancelled
    /\ cancelled' = cancelled \union {x}
    /\ UNCHANGED <<live, begun, ended, closed>>
=============================================================================
