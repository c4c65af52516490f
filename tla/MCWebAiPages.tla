---------------------------- MODULE MCWebAiPages ----------------------------
(* Instances of WebAiPages for TLC: an answer that is being written to the   *)
(* chat, and beside it a client of the gateway or the user in the settings.  *)
EXTENDS WebAiPages

CONSTANTS claude, qwen, first

TheJobs ==
    [r \in Requests |->
        IF r = first THEN [op : {"send"}, provider : {claude}, from : {"app"}]
        ELSE [op : {"send"}, provider : Providers, from : {"gateway"}]
             \cup [op : Ops \ {"send"}, provider : {claude}, from : {"app"}]]

(* The other provider's login makes no difference. *)
OneInit  == Init /\ qwen \in loggedIn
OneLogin == OneInit /\ [][Next]_vars /\ \A r \in Requests : WF_vars(Work(r)) /\ WF_vars(Parser(r))
=============================================================================
