------------------------- MODULE ConcurrentSessions -------------------------
(***************************************************************************)
(* Several windows on one store, their store calls freely interleaved.  The *)
(* properties about whole files are meant for calls that do not overlap;     *)
(* overlapped remembers whether two ever did, so that one specification says *)
(* both what survives any interleaving and what only an overlap can break.   *)
(***************************************************************************)
EXTENDS SessionProperties

VARIABLE overlapped  \* were two windows ever inside persist at the same time?

allVars == <<vars, overlapped>>

Persisting == {w \in Windows : win[w].pc \in PersistPoints}

ConcurrentInit == Init /\ overlapped = FALSE
ConcurrentNext ==
    /\ Next
    /\ overlapped' = (overlapped \/ \E v, w \in Persisting' : v # w)
ConcurrentSpec == ConcurrentInit /\ [][ConcurrentNext]_allVars

\* A pin or an observation, taken in a window that may have loaded the site
\* long ago, never lowers what another window established meanwhile and never
\* puts another key in its place (identity.rs: "It never demotes an existing
\* pinned or verified record").
PinNeverDemotes == [][~overlapped' => PinDemotesNothing]_allVars

\* append_record only adds in front: no retained record is dropped or changed,
\* whichever window accepted it and however late.
HistoryOnlyGrows == [][~overlapped' => HistoryGrows]_allVars
=============================================================================
