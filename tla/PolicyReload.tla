---------------------------- MODULE PolicyReload ----------------------------
(***************************************************************************)
(* The scheduler's live policy: ConfigStore.reload_if_changed on the       *)
(* admission path, AdmissionEngine's constructor, and an operator who      *)
(* edits, breaks, removes and restores the file at any moment, also        *)
(* between the stat and the read of one reload.                            *)
(*                                                                         *)
(* A policy document is its edit number; 0 is the built-in default.        *)
(***************************************************************************)
EXTENDS Naturals

CONSTANTS
  MaxEdits,     \* bound on the operator's edits
  Mtimes        \* timestamps an edit can leave; not always increasing

ASSUME EditsAssumption == MaxEdits \in Nat \ {0} /\ Mtimes \subseteq Nat \ {0}

\* What a document is: good, refused by validation (or not a mapping, or not
\* JSON: a ValueError), or not YAML (a YAMLError, which is no ValueError).
Kinds == {"good", "invalid", "broken", "missing"}
Versions == 0 .. MaxEdits
NoMtime == 0

VARIABLES
  file,      \* the document on disk: [version, kind, mtime]
  config,    \* ConfigStore.config
  mtime,     \* ConfigStore._mtime
  error,     \* ConfigStore.last_error is set
  reload,    \* the reload of the admission under way: "none" or its stat
  decided,   \* the policy that decided the last admission, or "open"
  quiet,     \* history: no edit since the last admission began
  hiccup     \* history: a read of the document on disk failed (OSError)

storeVars == <<file, config, mtime, error, reload, decided, quiet, hiccup>>
store == <<config, mtime, error>>

NoReload == [busy |-> FALSE, mtime |-> NoMtime]

StoreTypeOK ==
  /\ file \in [version : Versions, kind : Kinds, mtime : Mtimes \cup {NoMtime}]
  /\ config \in Versions
  /\ mtime \in Mtimes \cup {NoMtime}
  /\ error \in BOOLEAN
  /\ error => mtime # NoMtime
  /\ reload \in [busy : BOOLEAN, mtime : Mtimes \cup {NoMtime}]
  /\ decided \in {"none", "open", "policy"}
  /\ quiet \in BOOLEAN
  /\ hiccup \in BOOLEAN

\* The scheduler comes up beside a good file, or with none.
StoreInit ==
  /\ \E m \in Mtimes :
       file \in {[version |-> 1, kind |-> "good", mtime |-> m],
                 [version |-> 0, kind |-> "missing", mtime |-> NoMtime]}
  /\ config = file.version
  /\ mtime = file.mtime
  /\ error = FALSE
  /\ reload = NoReload
  /\ decided = "none"
  /\ quiet = TRUE
  /\ hiccup = FALSE

------------------------------------------------------------------------------
\* The operator saves the file.  Assumed: the timestamp is not one the store
\* holds, i.e. two saves do not fall in one tick of the file system's clock; it
\* may be an older one (a restored copy).
Edit ==
  /\ file.version < MaxEdits
  /\ \E kind \in {"good", "invalid", "broken"},
        m \in Mtimes \ {file.mtime, mtime, reload.mtime} :
       file' = [version |-> file.version + 1, kind |-> kind, mtime |-> m]
  /\ quiet' = FALSE
  /\ hiccup' = FALSE
  /\ UNCHANGED <<store, reload, decided>>

\* The file is removed (or replaced by a rename under way).
Remove ==
  /\ file.kind # "missing"
  /\ file' = [file EXCEPT !.kind = "missing"]
  /\ quiet' = FALSE
  /\ hiccup' = FALSE
  /\ UNCHANGED <<store, reload, decided>>

Decide(how) ==
  /\ decided' = how
  /\ reload' = NoReload

\* Mutant of Unmoved: only a newer file is read again.
UnmovedUnlessNewer == file.kind # "missing" /\ file.mtime <= mtime

Unmoved == file.kind # "missing" /\ file.mtime = mtime

\* An admission whose stat fails or finds the known timestamp: no reload.
AdmitUnchanged ==
  /\ ~reload.busy
  /\ file.kind = "missing" \/ Unmoved
  /\ quiet' = TRUE
  /\ Decide("policy")
  /\ UNCHANGED <<file, store, hiccup>>

\* An admission whose stat finds another timestamp: the file will be read.
StatMoved ==
  /\ ~reload.busy
  /\ file.kind # "missing" /\ ~Unmoved
  /\ reload' = [busy |-> TRUE, mtime |-> file.mtime]
  /\ quiet' = TRUE
  /\ UNCHANGED <<file, store, decided, hiccup>>

\* The document validates and is swapped in, under the stat's timestamp.
LoadGood ==
  /\ reload.busy
  /\ file.kind = "good"
  /\ config' = file.version
  /\ mtime' = reload.mtime
  /\ error' = FALSE
  /\ hiccup' = FALSE
  /\ Decide("policy")
  /\ UNCHANGED <<file, quiet>>

\* Mutant of LoadRefused: a refused document puts the defaults in force.
LoadRefusedOpens ==
  /\ reload.busy
  /\ file.kind \in {"invalid", "missing"}
  /\ config' = 0
  /\ mtime' = reload.mtime
  /\ error' = TRUE
  /\ Decide("policy")
  /\ UNCHANGED <<file, quiet, hiccup>>

\* The document is refused with a ValueError: the last good policy keeps serving.
LoadRefused ==
  /\ reload.busy
  /\ file.kind \in {"invalid", "missing"}
  /\ mtime' = reload.mtime
  /\ error' = TRUE
  /\ Decide("policy")
  /\ UNCHANGED <<file, config, quiet, hiccup>>

\* The read fails although the stat did not (OSError, raised as a ValueError).
ReadFails ==
  /\ reload.busy
  /\ mtime' = reload.mtime
  /\ error' = TRUE
  /\ hiccup' = TRUE
  /\ Decide("policy")
  /\ UNCHANGED <<file, config, quiet>>

\* A YAMLError is not caught: the request fails, and the client admits.
LoadBroken ==
  /\ reload.busy
  /\ file.kind = "broken"
  /\ Decide("open")
  /\ UNCHANGED <<file, store, quiet, hiccup>>

\* A restart: from_path loads what is there, or falls back to the defaults when
\* it is refused or cannot be read; a broken file stops the start.
StoreRestart ==
  /\ file.kind # "broken"
  /\ mtime' = IF file.kind = "missing" THEN NoMtime ELSE file.mtime
  /\ \/ /\ config' = IF file.kind = "good" THEN file.version ELSE 0
        /\ error' = (file.kind = "invalid")
        /\ hiccup' = FALSE
     \/ /\ file.kind # "missing"
        /\ config' = 0
        /\ error' = TRUE
        /\ hiccup' = TRUE
  /\ decided' = "none"
  /\ reload' = NoReload
  /\ UNCHANGED <<file, quiet>>

Admission ==
  AdmitUnchanged \/ StatMoved \/ LoadGood \/ LoadRefused \/ ReadFails \/ LoadBroken
StoreNext == Edit \/ Remove \/ Admission \/ StoreRestart

StoreSpec == StoreInit /\ [][StoreNext]_storeVars

------------------------------------------------------------------------------
(* Properties *)

\* An admission answered while nobody edited the file was decided by the
\* document on disk, if it is good, also if an edit hit the reload before it or
\* left an older timestamp (ConfigStore: "takes effect on the next admission").
\* A policy that is not that document is owned up to: last_error lets "an
\* operator see the running policy is not the one on disk".  One failed read is
\* such a case: its timestamp is kept, so the document is not read again before
\* the next edit or restart.
PolicyIsTheFile ==
  decided = "policy" /\ ~reload.busy /\ quiet /\ file.kind # "missing" =>
    \/ config = file.version
    \/ error /\ (file.kind = "good" => hiccup)

\* Between two starts the policy in force is only ever replaced by a good
\* document that is on disk at that moment (reload_if_changed: "keep serving the
\* last good policy").
LastGoodServes ==
  [][config' # config /\ decided' # "none"
       => file.kind = "good" /\ config' = file.version]_storeVars
==============================================================================
