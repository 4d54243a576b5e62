-------------------------------- MODULE Relay --------------------------------
(***************************************************************************)
(* Messages to other agents' sessions, and the registry of identities that *)
(* they are looked up in (tool_handlers.py, identity.py). a2a_discover     *)
(* writes an identity in place, after a test for the file; a relay reads   *)
(* it twice, and posts up to Deliveries times until a post is answered.    *)
(***************************************************************************)
EXTENDS RuntimeState

CONSTANTS
  Relays,       \* threads that call a2a_send_session_message
  Registrars,   \* threads that call a2a_discover with register=true
  Own,          \* the identity that the operator wrote, with a webhook
  Legacy,       \* an entry of the profile's vault.yaml that has one
  Deliveries    \* A2A_WEBHOOK_DELIVERY_RETRIES

ASSUME RelayAssumption ==
  /\ Relays \cup Registrars \subseteq Threads \ {Main} /\ Relays \cap Registrars = {}
  /\ Deliveries \in Nat \ {0} /\ IsFiniteSet(Relays)
  /\ (Registrars \cup {Own}) \cap {"absent", "empty", "mixed"} = {} /\ Own \notin Registrars

VARIABLES
  file,         \* identity.yaml of the one agent there is, by who wrote it
  vault,        \* the entry of the profile's vault for it, or None
  overwrite,    \* register_overwrite of each registration
  broken,       \* registrations whose file could not be written to the end
  together,     \* two registrations had the file open at once
  relays        \* what each relay has read, sent, and said

registry == <<file, vault, overwrite, broken, together>>

Unread == [posts |-> 0, copies |-> 0, inits |-> 0, answer |-> "none"]

RelayInit ==
  /\ file \in {"absent", Own} /\ vault \in {None, Legacy}
  /\ overwrite \in [Registrars -> BOOLEAN]
  /\ broken = {} /\ together = FALSE
  /\ relays = [t \in Relays |-> Unread]

\* What _load_yaml_file makes of the file: one that was truncated, and not yet
\* written, is as good as none.
Whole == file \in Registrars \cup {Own}
Identity == IF Whole THEN file ELSE vault
Webhook == {Own, Legacy}

-----------------------------------------------------------------------------
(* a2a_discover: the card has been fetched.                                 *)
Exists == file # "absent"

\* As a bug would be: the path of the card is checked when the file has been opened.
CheckFileOpened(r) ==
  /\ pc[r] = "idle"
  /\ \E safe \in BOOLEAN :
       /\ Go(r, IF (Exists /\ ~overwrite[r]) \/ ~safe THEN "refused" ELSE "open")
       /\ file' = IF (Exists /\ ~overwrite[r]) \/ safe THEN file ELSE "empty"
  /\ UNCHANGED <<vault, overwrite, broken, together, relays>>

CheckFile(r) ==
  /\ pc[r] = "idle"
  /\ \E safe \in BOOLEAN :
       Go(r, IF (Exists /\ ~overwrite[r]) \/ ~safe THEN "refused" ELSE "open")
  /\ UNCHANGED <<registry, relays>>

\* open(.., "w")
Truncate(r) ==
  /\ GoFrom(r, "open", "write")
  /\ file' = "empty"
  /\ together' = (together \/ \E q \in Registrars \ {r} : pc[q] = "write")
  /\ UNCHANGED <<vault, overwrite, broken, relays>>

\* The text goes over whatever another registration has written meanwhile, and
\* may leave the end of a longer one behind it.
Over(r) == IF file = "empty" THEN {r} ELSE {r, "mixed"}

Write(r) ==
  /\ GoFrom(r, "write", "registered")
  /\ file' \in Over(r)
  /\ UNCHANGED <<vault, overwrite, broken, together, relays>>

WriteFails(r) ==
  /\ GoFrom(r, "write", "failed")
  /\ broken' = broken \cup {r}
  /\ UNCHANGED <<file, vault, overwrite, together, relays>>

-----------------------------------------------------------------------------
(* a2a_send_session_message                                                 *)
Say(t, answer) == Go(t, "done") /\ relays' = [relays EXCEPT ![t].answer = answer]

\* resolve_agent: only whether there is one is used; YAML that does not parse raises.
Resolve(t) ==
  /\ pc[t] = "idle"
  /\ IF file = "mixed" \/ Identity = None
     THEN Say(t, IF file = "mixed" THEN "raised" ELSE "not found")
     ELSE Go(t, "read") /\ UNCHANGED relays
  /\ UNCHANGED registry

\* get_raw_agent_identity, which passes over a file that does not parse, and the
\* checks of what it gives: a URL and a secret, from the one reading.
ReadRaw(t) ==
  /\ pc[t] = "read"
  /\ \/ Identity \in Webhook /\ Go(t, "metrics") /\ UNCHANGED relays
     \/ Say(t, "refused")
  /\ UNCHANGED registry

GetMetrics(t) ==
  /\ GoFrom(t, "metrics", "post") /\ Ready(t)
  /\ relays' = [relays EXCEPT ![t].inits = runtime.inits]
  /\ UNCHANGED registry

\* A post that is answered with JSON ends the loop; one may arrive and not be.
LastPost(t) == relays[t].posts + 1 = Deliveries

Post(t) ==
  /\ pc[t] = "post"
  /\ \E arrives, answered \in BOOLEAN :
       /\ answered => arrives
       /\ relays' = [relays EXCEPT ![t].posts = @ + 1, ![t].copies = @ + IF arrives THEN 1 ELSE 0]
       /\ Go(t, IF answered THEN "count success" ELSE IF LastPost(t) THEN "count failure" ELSE "post")
  /\ UNCHANGED registry

\* As a bug would be: the loop goes on after a success.
CountSuccessAgain(t) ==
  /\ GoFrom(t, "count success", IF relays[t].posts = Deliveries THEN "float" ELSE "post")
  /\ Record(relays[t].inits, "successes")
  /\ UNCHANGED <<registry, relays>>

CountSuccess(t) ==
  /\ GoFrom(t, "count success", "float")
  /\ Record(relays[t].inits, "successes")
  /\ UNCHANGED <<registry, relays>>

CountFailure(t) ==
  /\ pc[t] = "count failure" /\ Say(t, "failed")
  /\ Record(relays[t].inits, "failures")
  /\ UNCHANGED registry

\* The float to the operator's chat swallows whatever goes wrong with it.
Float(t) == pc[t] = "float" /\ Say(t, "delivered") /\ UNCHANGED registry
=============================================================================
