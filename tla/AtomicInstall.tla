---------------------------- MODULE AtomicInstall ----------------------------
(***************************************************************************)
(* What an upgrade promises of the files it replaces (README.md:104): it   *)
(* ends with all of them new, or with all of them as they were, or it says *)
(* that it did neither and then everything it replaced can still be found. *)
(***************************************************************************)

VARIABLES deployed,     \* the files in place: as before, all new, or neither
          kept,         \* every previous file exists, in place or saved
          verdict       \* what the installer does, and in the end reports
vars == <<deployed, kept, verdict>>

State == {"old", "new", "mixed"}
Verdict == {"trying", "undoing", "installed", "restored", "unfinished"}

Init == deployed \in {"old", "new"} /\ kept = TRUE /\ verdict = "trying"

\* Files are replaced, and may be left half written.
Replace ==
    /\ verdict = "trying"
    /\ deployed' \in {"new", "mixed"} /\ kept' = TRUE
    /\ verdict' \in {"trying", "undoing"}

Fail == verdict = "trying" /\ verdict' = "undoing" /\ UNCHANGED <<deployed, kept>>

\* Nothing is put forward any more once the previous files are put back.
PutBack ==
    /\ verdict = "undoing"
    /\ deployed' \in {"old", "mixed"} /\ kept' = TRUE
    /\ UNCHANGED verdict

Commit ==
    /\ verdict = "trying" /\ deployed = "new"
    /\ verdict' = "installed" /\ UNCHANGED <<deployed, kept>>

Forget == verdict = "installed" /\ kept' \in BOOLEAN /\ UNCHANGED <<deployed, verdict>>

Report ==
    /\ verdict = "undoing" /\ deployed = "old"
    /\ verdict' = "restored" /\ UNCHANGED <<deployed, kept>>

Abandon ==
    /\ verdict \in {"trying", "undoing"}
    /\ verdict' = "unfinished" /\ UNCHANGED <<deployed, kept>>

Next == Replace \/ Fail \/ PutBack \/ Commit \/ Forget \/ Report \/ Abandon

Spec == Init /\ [][Next]_vars
=============================================================================
