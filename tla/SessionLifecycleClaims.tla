----------------------- MODULE SessionLifecycleClaims -----------------------
(***************************************************************************)
(* What a comment of the source says of SessionLifecycle and the code does *)
(* not do, refuted by a run of its own: it takes two threads, one of which *)
(* acts between two critical sections of the other.                        *)
(***************************************************************************)
EXTENDS SessionLifecycle

\* fire_session_end: "the FIRST fire for a given session_id runs every hook". The
\* entry of a new episode takes the place of that of the old one; the attempt
\* that still runs for the old one records its successes in it and removes it,
\* so that no hook ever runs for the end of the new episode.
FirstFireRunsHooks ==
    [][\A s \in Sessions : cleanup[s] = "waiting" => cleanup'[s] # "none"]_vars
=============================================================================
