--------------------------- MODULE MCDeltaExchange ---------------------------
EXTENDS DeltaExchange

Of(id, owned, owner, body) == [id |-> id, owned |-> owned, owner |-> owner, body |-> body]

\* Payloads over three elements in which every owner is spelled.
MCDocuments ==
  {<<Of(1, <<>>, Null, "a")>>,
   <<Of(1, <<>>, Null, "a"), Of(2, <<>>, Null, "a")>>,
   <<Of(2, <<>>, Null, "a"), Of(1, <<>>, Null, "b")>>,
   <<Of(1, <<2>>, Null, "a"), Of(2, <<>>, 1, "a")>>,
   <<Of(2, <<1, 3>>, Null, "b"), Of(3, <<>>, 2, "a"), Of(1, <<>>, 2, "a")>>,
   <<Of(1, <<3, 2>>, Null, "a"), Of(2, <<>>, 1, "a"), Of(3, <<>>, 1, "b")>>,
   <<>>}
=============================================================================
