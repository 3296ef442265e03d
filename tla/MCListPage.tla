----------------------------- MODULE MCListPage -----------------------------
(* The run of ListPage takes its constants from the configuration.           *)
EXTENDS ListPage
=============================================================================
