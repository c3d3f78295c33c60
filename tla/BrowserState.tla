---------------------------- MODULE BrowserState -----------------------------
(***************************************************************************)
(* The state parameter of overlay/api/neurwerk_sso.py: each start of a     *)
(* login puts a fresh nonce into the session of the browser (58-71) and    *)
(* into a signed state that travels through Keycloak; the callback is      *)
(* honoured if both agree (149-166), and takes the nonce out of the        *)
(* session.                                                                *)
(*                                                                         *)
(* The session is Flask's, a cookie: a request works on the copy it was    *)
(* sent with, and what it changes reaches the browser with the answer, in  *)
(* whatever order answers arrive, or never.  So requests of one browser    *)
(* that are under way together do not see each other's changes.            *)
(*                                                                         *)
(* A start is named by its number, which stands for its nonce and for the  *)
(* signed state that carries it.  The state is in the answer to the start. *)
(* Whoever has it may present it any number of times and in any browser.   *)
(***************************************************************************)
EXTENDS Naturals, Sequences

CONSTANTS
    Browsers,
    Logins,            \* requests of the callback
    Nobody,            \* no browser
    MaxStarts          \* bound on the logins started

ASSUME BrowserAssumption == MaxStarts \in Nat /\ Nobody \notin Browsers

VARIABLES
    begun,             \* the browser of each start so far
    arrived,           \* the starts whose answer has arrived, as they came
    nonce,             \* keycloak_oauth_state in the cookie of each browser
    due,               \* the browser to which the answer of a callback is due
    heard              \* the callbacks whose answer has arrived

stateVars == <<begun, arrived, nonce, due, heard>>

NoNonce == 0
Starts == 1..MaxStarts

BrowserTypeOK ==
    /\ begun \in Seq(Browsers) /\ Len(begun) \in 0..MaxStarts
    /\ arrived \in Seq(Starts)
    /\ nonce \in [Browsers -> {NoNonce} \cup Starts]
    /\ due \in [Logins -> Browsers \cup {Nobody}]
    /\ heard \subseteq Logins

BrowserInit ==
    /\ begun = <<>> /\ arrived = <<>>
    /\ nonce = [b \in Browsers |-> NoNonce]
    /\ due = [l \in Logins |-> Nobody]
    /\ heard = {}

HasArrived(n) == \E i \in DOMAIN arrived : arrived[i] = n

(* get_authorization_url.  The nonce is stored in the session first: when  *)
(* the discovery that follows raises, the answer has it, without a state.  *)
Begin(b) ==
    /\ Len(begun) < MaxStarts
    /\ begun' = Append(begun, b)
    /\ UNCHANGED <<arrived, nonce, due, heard>>

(* The answer to start n brings the browser the state and the cookie with  *)
(* the nonce, whatever the cookie was before.                              *)
AnswerStart(n) ==
    /\ n \in 1..Len(begun) /\ ~HasArrived(n)
    /\ arrived' = Append(arrived, n)
    /\ nonce' = [nonce EXCEPT ![begun[n]] = n]
    /\ UNCHANGED <<begun, due, heard>>

(* decode_keycloak_state, in callback l of browser b, with the state of    *)
(* start n.  The nonce is taken out of the session of this request,        *)
(* whether it matches or not.  A request whose session has none changes    *)
(* nothing and is refused, as is one whose state is not signed or too old, *)
(* which is looked at before: as if they had not been made.                *)
Decode(l, b, n) ==
    /\ HasArrived(n) /\ nonce[b] # NoNonce
    /\ due' = [due EXCEPT ![l] = b]
    /\ UNCHANGED <<begun, arrived, nonce, heard>>

(* Mutant: it is enough that some login was started in this browser.       *)
MatchesAny(b, n) == nonce[b] # NoNonce
(* The comparison at the end of decode_keycloak_state.                     *)
Matches(b, n) == nonce[b] = n

(* Mutant: the session keeps the nonce, session.get for session.pop.       *)
AnswerKeepsNonce(l) ==
    /\ due[l] # Nobody
    /\ due' = [due EXCEPT ![l] = Nobody]
    /\ heard' = heard \cup {l}
    /\ UNCHANGED <<begun, arrived, nonce>>
(* The answer to callback l brings the session without a nonce, and so     *)
(* ends whichever nonce the cookie has by then.                            *)
AnswerCallback(l) ==
    /\ due[l] # Nobody
    /\ nonce' = [nonce EXCEPT ![due[l]] = NoNonce]
    /\ due' = [due EXCEPT ![l] = Nobody]
    /\ heard' = heard \cup {l}
    /\ UNCHANGED <<begun, arrived>>

(* The pod is killed before it answers.                                    *)
NoAnswer(l) ==
    /\ due' = [due EXCEPT ![l] = Nobody]
    /\ UNCHANGED <<begun, arrived, nonce, heard>>
=============================================================================
