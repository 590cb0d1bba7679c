------------------------------ MODULE ApiProvider ------------------------------
(****************************************************************************)
(* The service of the relayer that owns the connection to the Gear node.     *)
(* Every other service holds a copy of it, numbered by a session, and asks   *)
(* for a new one when a call fails.  Requests queue up in a channel; a       *)
(* request of an old session is answered with the connection there is, so    *)
(* that several services that lost one connection open one new connection.   *)
(* A provider that cannot connect ends, and with it every request.           *)
(****************************************************************************)
EXTENDS Naturals, Sequences

CONSTANTS Clients,      \* services that hold a connection
          MaxSession    \* bound: the last session that is ever opened

VARIABLES session,      \* ApiProvider::session
          provider,     \* "running", "ended"
          requests,     \* the channel: [client, session] in order
          held          \* ApiProviderConnection::session of every client

providerVars == <<session, provider, requests, held>>

ProviderInit ==
    /\ session = 0
    /\ provider = "running"
    /\ requests = <<>>
    /\ held = [c \in Clients |-> 0]

Asked(c) == \E i \in DOMAIN requests : requests[i].client = c

\* ApiProviderConnection::reconnect up to its await.  The send fails, and so
\* does the call, once the provider has ended.
RequestSent(c) ==
    IF provider = "running"
      THEN Append(requests, [client |-> c, session |-> held[c]])
      ELSE requests

\* Whether the provider answers a request with the connection it has.
Reuses(request) == request.session < session

\* The provider takes a request of an old session from the channel.
Reuse ==
    /\ provider = "running"
    /\ requests # <<>>
    /\ Reuses(Head(requests))
    /\ held' = [held EXCEPT ![Head(requests).client] = session]
    /\ requests' = Tail(requests)
    /\ UNCHANGED <<session, provider>>

\* The provider opens a new connection.
Connect ==
    /\ provider = "running"
    /\ requests # <<>>
    /\ ~Reuses(Head(requests))
    /\ session < MaxSession
    /\ session' = session + 1
    /\ held' = [held EXCEPT ![Head(requests).client] = session']
    /\ requests' = Tail(requests)
    /\ UNCHANGED provider

\* Every attempt to connect fails: the task returns and drops the channel.
GiveUp ==
    /\ provider = "running"
    /\ requests # <<>>
    /\ ~Reuses(Head(requests))
    /\ provider' = "ended"
    /\ requests' = <<>>
    /\ UNCHANGED <<session, held>>

Serve == Reuse \/ Connect \/ GiveUp
================================================================================
