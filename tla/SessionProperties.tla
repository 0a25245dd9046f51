-------------------------- MODULE SessionProperties --------------------------
(***************************************************************************)
(* What a client window must never do to the store it keeps, and what it    *)
(* must eventually do.  Each property says for how many windows and under   *)
(* which faults it is meant.                                                *)
(***************************************************************************)
EXTENDS ClientSession

\* The values every variable ranges over.
TypeOK ==
    /\ identities \in [Sites -> IdentityFiles]
    /\ histories \in [Publishers -> Seq(Records)]
    /\ win \in [Windows -> WindowStates]
    /\ everRetained \in [Sites -> SUBSET Publishers]
    /\ everAccepted \in SUBSET Manifests

----------------------------------------------------------------------------
(* Any number of windows, any faults. *)

\* A file of a site only changes to a record of the manifest of a window there,
\* and that record claims no more than its user decided: a verification needs
\* ConfirmPip, a pin an affirmative answer, and a mere observation comes from a
\* window that had found no record (trust.rs: "MUST NOT happen without an
\* affirmative response to the pinning prompt").  It says nothing of the record
\* that is replaced: an observation that overlaps another window's pin may be
\* written over it, see PinNeverDemotes.
TrustNeedsDecision ==
    [][\A x \in Sites : identities'[x] # identities[x] =>
          \E w \in Windows :
             LET v == win[w] IN
             /\ v.site = x /\ v.manifest.site = x
             /\ v.manifest.pub = identities'[x].pubkey
             /\ identities'[x].provenance = "ExternallyVerified" => v.decision = "ConfirmPip"
             /\ identities'[x].provenance = "Pinned"
                   => v.decision \in {"PinFirstContact", "ConfirmNewIdentity"}
             /\ identities'[x].provenance = "Observed" => v.retained = Nothing
      ]_vars

\* A site with a record is never left without one, not even between the steps
\* of a replacement: some key stays retained, so a window that loads the site
\* compares the presented key with it (lib.rs: "or a later identity change at
\* this site would go undetected").
RetentionIsPermanent ==
    [][\A x \in Sites : identities[x] # NoFile => identities'[x] # NoFile]_vars

\* A history holds records of manifests of its own publisher that some window
\* accepted, whatever became of that window (section 10:215: no record of a
\* manifest that failed a stage).
OnlyAcceptedRecorded ==
    \A p \in Publishers : \A i \in DOMAIN histories[p] :
       \E m \in everAccepted : m.pub = p /\ RecordFor(m) = histories[p][i]

----------------------------------------------------------------------------
(* Any faults, and any number of windows as long as no two of them have       *)
(* manifests of one publisher: each then writes histories of its own.         *)
PublishersApart ==
    \A v, w \in Windows :
       v # w /\ win[v].pc # "idle" /\ win[w].pc # "idle"
          => win[v].manifest.pub # win[w].manifest.pub

\* The records are ordered as check_against_history takes them to be: it
\* compares with the first only ("The caller guarantees the ordering").
HistoryNewestFirst ==
    \A p \in Publishers : \A i, j \in DOMAIN histories[p] :
       i < j => histories[p][i].issued >= histories[p][j].issued

\* Two records of one issue time are of one payload, and two neighbours of
\* different payloads use different runtime keys: what the conflict and
\* rotation checks achieve over a whole history, though they only see its head.
HistoryConsistent ==
    \A p \in Publishers : \A i, j \in DOMAIN histories[p] :
       LET a == histories[p][i]
           b == histories[p][j]
       IN  /\ a.issued = b.issued => a.hash = b.hash
           /\ i = j + 1 /\ a.hash # b.hash => a.rk # b.rk

----------------------------------------------------------------------------
(* Any faults, and any number of windows as long as no two of them are at one *)
(* site: each then writes an identity file of its own.                        *)
SitesApart ==
    \A v, w \in Windows :
       v # w /\ win[v].pc # "idle" /\ win[w].pc # "idle" => win[v].site # win[w].site

\* Every key a site ever retained is its key or among its replaced keys
\* (io.rs: "the replaced key MUST be retained (not lost)").
ReplacedKeysKept ==
    \A x \in Sites : \A key \in everRetained[x] :
       \/ identities[x].pubkey = key
       \/ \E i \in DOMAIN identities[x].replaced : identities[x].replaced[i] = key

\* The key of a site changes only in a window whose mismatch dialog is still
\* open and compares the new identity with exactly the one being replaced
\* (main.rs: "The full PIP of the previously retained key, for side-by-side
\* compare"; trust.rs: "MUST NOT silently replace the retained identity").
NeverSilentlyReplaced ==
    [][\A x \in Sites :
          identities[x] # NoFile /\ identities'[x].pubkey # identities[x].pubkey =>
             \E w \in Windows :
                LET v == win[w] IN
                /\ v.site = x /\ v.prompt = "MismatchWarning"
                /\ v.warned = identities[x].pubkey
                /\ v.decision \in {"ConfirmNewIdentity", "ConfirmPip"}
      ]_vars

\* What an open window shows is what the store holds, unless it has reported
\* a store error: a pinned or verified badge has that very record behind it,
\* and a mismatch a record of another key.
ShownTrustIsStored ==
    \A w \in Windows :
       LET v == win[w]
           file == identities[v.site]
       IN  v.pc = "open" /\ ~v.failed =>
              /\ v.shown = "TofuPinned" =>
                    file.pubkey = v.manifest.pub /\ file.provenance \in {"Pinned", "V1"}
              /\ v.shown = "ExternallyVerified" =>
                    /\ file.pubkey = v.manifest.pub
                    /\ file.provenance \in {"ExternallyVerified", "V1ExternallyVerified"}
              /\ v.shown = "ChangedMismatch" =>
                    file # NoFile /\ file.pubkey # v.manifest.pub

\* The code a resolution surfaces marks a transition of what is retained: once
\* persist is done without an error, there was one if and only if the record is
\* no longer the one the window resolved against (trust.rs: the info codes
\* "mark transitions and observations, not steady states").
DiagnosticMarksChange ==
    \A w \in Windows :
       LET v == win[w]
           resolution == Resolve(v.manifest.pub, v.retained, v.decision)
       IN  v.pc = "reload" /\ ~v.failed =>
              (TrustDiagnostic(resolution, v.decision) \in TransitionCodes
                 <=> Retained(identities[v.site]) # v.retained)

----------------------------------------------------------------------------
(* Any number of windows and faults, as long as no two store calls overlap    *)
(* (module ConcurrentSessions keeps track of that).                          *)

Rank(provenance) ==
    CASE provenance = "Absent" -> 0
      [] provenance = "Observed" -> 1
      [] provenance = "Pinned" -> 2
      [] provenance = "ExternallyVerified" -> 3

\* A pin or an observation, taken in a window that may have loaded the site
\* long ago, never lowers what another window established meanwhile and never
\* puts another key in its place (identity.rs: "It never demotes an existing
\* pinned or verified record").
PinDemotesNothing ==
    \A x \in Sites : \A w \in Windows :
       LET old == Retained(identities[x])
           new == Retained(identities'[x])
       IN  /\ new # old
           /\ win[w].site = x /\ win[w].pc = "identityWrite"
           /\ win[w].intent.kind \in {"RecordObservation", "PinIdentity"}
           => /\ Rank(new.provenance) > Rank(old.provenance)
              /\ old = Nothing \/ new.pubkey = old.pubkey

\* append_record only adds in front: no retained record is dropped or changed,
\* whichever window accepted it.
HistoryGrows ==
    \A p \in Publishers :
       histories'[p] # histories[p]
          => histories'[p] # <<>> /\ Tail(histories'[p]) = histories[p]

----------------------------------------------------------------------------
(* No faults. *)

\* Outside a running persist, a retained key has a record to check the next
\* manifest against: persist writes both files or neither.
RetainedKeyHasHistory ==
    (\A w \in Windows : win[w].pc \notin PersistPoints) =>
       \A x \in Sites : identities[x] # NoFile => histories[identities[x].pubkey] # <<>>

\* The automatic observation of a first contact reaches the disk, key and
\* record, without any user action (lib.rs: "the shell MUST apply it").
FirstContactIsRecorded ==
    \A w \in Windows : \A m \in Manifests :
       (/\ win[w].manifest = m /\ win[w].pc = "identityRead"
        /\ win[w].intent.kind = "RecordObservation")
          ~> (identities[m.site] # NoFile /\ histories[m.pub] # <<>>)

----------------------------------------------------------------------------
(* What the documentation says and the code does not do; see the README. *)

\* A manifest older than one already accepted from the publisher is refused.
AcceptedNeverRegress ==
    [][\A w \in Windows :
          win[w].pc = "loading" /\ win'[w].pc \in PersistPoints =>
             \A m \in everAccepted :
                m.pub = win[w].manifest.pub => m.issued <= win[w].manifest.issued]_vars
=============================================================================
