-------------------------- MODULE MCCampaignEngine --------------------------
(* CampaignEngine for TLC. e1 is an event of the endpoint and of the IP,   *)
(* e2 one of the IP, e3 an indicator on the same IP; e1 occurs first and   *)
(* can leave the window within the bound on the clock. A history variable  *)
(* tells whether two applications have overlapped.                         *)
EXTENDS CampaignEngine

CONSTANTS e1, e2, e3, endpoint, ip, person, device

Plain == [kind |-> "other", indicator |-> FALSE, ip |-> ip, domain |-> None,
          url |-> None, endpoint |-> None]
MCShape == [e \in Events |->
               CASE e = e1 -> [Plain EXCEPT !.kind = "ddos", !.endpoint = endpoint]
                 [] e = e2 -> Plain
                 [] e = e3 -> [Plain EXCEPT !.kind = "dfir", !.indicator = TRUE]]
MCEntities == [e \in Events |-> CASE e = e1 -> {}
                                  [] e = e2 -> {person, device}
                                  [] e = e3 -> {person}]
MCOccurred == [e \in Events |-> CASE e = e1 -> 0 [] e = e2 -> 1 [] e = e3 -> 2]

VARIABLE overlapped

mcVars == <<vars, overlapped>>

Overlap == \E v, w \in Appliers : v # w /\ pc[v] # "idle" /\ pc[w] # "idle"

MCInit == Init /\ overlapped = FALSE
MCNext == Next /\ overlapped' = (overlapped \/ Overlap')
MCSpec == MCInit /\ [][MCNext]_mcVars
MCFairSpec == MCSpec /\ \A w \in Appliers : WF_vars(Advance(w))

\* As long as applications have not overlapped, one campaign per key is active:
\* signals of any type, late and repeated events find it.
OneActivePerKey == ~overlapped => \A c, d \in Ids :
    (/\ Exists(c) /\ Exists(d) /\ rows[c].key = rows[d].key
     /\ InWindow(rows[c].last, now) /\ InWindow(rows[d].last, now)) => c = d
=============================================================================
