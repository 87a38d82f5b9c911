-------------------------------- MODULE MCFeeds --------------------------------
(***************************************************************************)
(* An instance of Feeds for TLC: a ticket is created and updated twice, or *)
(* a user is mentioned twice and once no more, or four times.              *)
(***************************************************************************)
EXTENDS Feeds, TLC

CONSTANTS w1, w2, w3, w4, c1

MCTransactions == {w1, w2, w3, w4}

MCClients == {c1}

MCMentionId == (w1 :> 1) @@ (w2 :> 2) @@ (w3 :> 3) @@ (w4 :> 4)

MCWorkloads ==
  { (w1 :> "createTicket") @@ (w2 :> "updateTicket") @@ (w3 :> "updateTicket")
      @@ (w4 :> "createComment"),
    (w1 :> "removeComment") @@ (w2 :> "createComment") @@ (w3 :> "createComment")
      @@ (w4 :> "updateTicket"),
    [w \in MCTransactions |-> "createComment"] }

==============================================================================
