------------------------------- MODULE MCJobs --------------------------------
(* The first boot finds one job or two; a restore brings one job on and one   *)
(* off, or nothing.                                                           *)
EXTENDS Jobs
CONSTANTS epg, m3u, daily, hourly
MCSaved == {[j \in {epg, m3u} |-> IF j \in on THEN [cron |-> daily, enabled |-> TRUE, nextRun |-> NoCron] ELSE NoDoc] :
            on \in {{epg}, {epg, m3u}}}
MCBackup == {[j \in {epg, m3u} |-> NoDoc],
             [j \in {epg, m3u} |-> [cron |-> daily, enabled |-> j = epg, nextRun |-> NoCron]]}
=============================================================================
