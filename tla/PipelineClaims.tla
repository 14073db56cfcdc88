--------------------------- MODULE PipelineClaims ---------------------------
(***************************************************************************)
(* What the documentation and the comments say of the pipeline and what    *)
(* the code, as modelled in Pipeline, does not do.  Each claim is checked  *)
(* by a run that finds the behaviour that refutes it.                      *)
(***************************************************************************)
EXTENDS Pipeline

\* core/src/state.rs, RULES: "every transition of the system".
Declared ==
  {<<"settling", "sized">>, <<"settling", "skipped">>, <<"sized", "skipped">>,
   <<"sized", "distinct">>, <<"sized", "hashed">>, <<"sized", "canonical">>,
   <<"verified", "hashed">>, <<"distinct", "canonical">>, <<"deduped", "canonical">>,
   <<"deduped", "skipped">>, <<"canonical", "skipped">>, <<"missing", "gone">>}
  \union {"hashed"} \X {"deduped", "verified", "canonical", "skipped", "failed"}
  \union (State \ {"settling", "gone"}) \X {"settling"}
  \union (State \ Lost) \X {"missing"}
  \union {"missing"} \X ((Queued \union Resting) \ {"settling"})

\* Every change of the state of a row is in the table of transitions.
DeclaredTransitions ==
  [][\A f \in Files :
       \/ rows[f].state = rows'[f].state
       \/ "absent" \in {rows[f].state, rows'[f].state}
       \/ <<rows[f].state, rows'[f].state>> \in Declared]_vars

\* A row verified or deduped has the content of the canonical row of its group.
VerifiedMatchesCanonical ==
  \A f \in Files :
    LET g == rows[f].group
        c == CanonicalOf(rows, groups, g)
    IN /\ rows[f].state \in Proven /\ rows[f].fp = Version(f)
       /\ g # 0 /\ c # NoFile /\ rows[c].fp = Version(c)
       => Body(f, rows[f].fp) = Body(c, rows[c].fp)

\* A row is missing only while its file is: when the daemon comes to rest, no
\* file is there that the table calls missing.
MissingHasEvidence ==
  Quiescent => \A f \in Files : rows[f].state = "missing" => ~present[f]

\* A row that belongs to a group has the hash of the group.
MemberHasGroupHash ==
  \A f \in Files :
    rows[f].state \in {"hashed", "canonical"} \union Proven /\ rows[f].group # 0
    => rows[f].hash = groups[rows[f].group].hash

\* A row becomes verified or deduped only after all its bytes were compared
\* with those of one content of another file.
ExactVerdict ==
  \A f \in Files :
    rows[f].state \in Proven =>
      \E e \in compared : /\ e.file = f /\ e.ver = rows[f].fp /\ e.same
                          /\ Body(f, e.ver) = Body(e.peer, e.pver)

\* MAX_ATTEMPTS: after that many failures a row is failed, not tried again.
GivesUp ==
  \A f \in Files : rows[f].state \in Queued => rows[f].attempts < MaxAttempts

\* unskip: it brings a row back into the queue that was given up.
UnskipRevives ==
  \A f \in Files :
    rows[f].state \in {"skipped", "failed"} =>
      ENABLED (Unskip(f) /\ rows'[f].state \in Queued)

\* max_wait: a row that has waited longer than this for the heavy window and
\* needs to be read is read, window or not.
MaxWaitServes ==
  [][\A f \in Files :
       /\ Take(f, FALSE) /\ rows[f].hws = "overdue"
       /\ \/ rows[f].state = "hashed" /\ rows[f].group # 0
          \/ rows[f].state = "sized" /\ rows[f].hash = NoHash
       => work' # [phase |-> "commit",
                   t |-> Transition(f, rows[f].state, rows[f].state, [ready |-> "later"],
                                    {}, NoOp)]]_vars

\* A file whose comparison the backend refuses for good becomes the canonical
\* file of a group of its own, if no later comparison is granted.
PairFailureMakesCanonical ==
  \A f \in Files : rows[f].state = "sized" /\ rows[f].skip = "other"
                    ~> rows[f].state \in {"canonical"} \union Proven

\* Without report_verify a hashed row is parked, and the worker done with it.
ReportNoVerifyParks == <>[](work.phase # "compare")

\* khac_nhau: a pair found different is never compared again, because a file
\* moves on to groups with greater ids only.
NeverCompareAgain ==
  [][FinishDiffers =>
       ~\E e \in compared : /\ {e.file, e.peer} = {work.file, work.peer}
                            /\ e.ver = work.row.fp /\ e.pver = work.peerRow.fp
                            /\ ~e.same]_vars

\* tim_ung_vien: a distinct file keeps its hash, and the next file of its size
\* is compared with it at once; however many there are of that size.
NextOneCompares ==
  Quiescent /\ (\A f \in Files : Len(history[f]) = 1) => ~\E f, p \in Files : Missed(f, p)
=============================================================================
