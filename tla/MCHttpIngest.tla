---------------------------- MODULE MCHttpIngest ----------------------------
(* Two interchangeable dimensions: the first line is of the first or junk. *)
EXTENDS HttpIngest

MCNext == Next /\ \A k \in DOMAIN file'.lines :
                      file'.lines[k].n = 1 => file'.lines[k].kind # "failed"
MCSpec == Init /\ [][MCNext]_vars /\ WF_vars(Collect) /\ WF_vars(EndLine)
=============================================================================
