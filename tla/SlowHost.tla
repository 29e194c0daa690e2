------------------------------- MODULE SlowHost -------------------------------
(***************************************************************************)
(* A host that keeps its side of the session but may be slow: an answer    *)
(* may come when the interval of the handshake that waits for it is over,  *)
(* and an attempt may have begun that the answer does not belong to.  Such *)
(* a host may never get a session; it has one once it is prompt.           *)
(***************************************************************************)
EXTENDS HostSession

CONSTANT Prompt   \* milliseconds in which a prompt host answers

ASSUME SlowHostAssumption == Prompt \in 0 .. MaxDelay

\* Once the host answers in time, however late its answers have been until then and
\* however many of them are still on their way, there is a session and it lasts: the
\* answers to attempts given up and the retries do not take the handshake round for ever.
SettlesOncePrompt == <>[](delay <= Prompt) => SessionSettles

===============================================================================
