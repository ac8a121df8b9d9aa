--------------------------- MODULE MCScrapeWorker ---------------------------
(* Instances of ScrapeWorker for TLC. *)
EXTENDS ScrapeWorker, TLC

CONSTANTS r1, r2, r3, amazon, aliexpress, x, y, z

\* Two requests compete for amazon's one permit, the third one holds that of
\* aliexpress while it waits for the only browser.
MCMarketOf == r1 :> amazon @@ r2 :> amazon @@ r3 :> aliexpress
MCMarketLimit == [m \in Marketplaces |-> 1]
MCOneMarketOf == r1 :> amazon @@ r2 :> amazon @@ r3 :> amazon

\* Nothing, too little for the direct path, or enough.
MCPages ==
  LET whole(id) == [id |-> id, whole |-> TRUE]
      none == [init |-> <<>>, run |-> <<>>, dom |-> <<>>]
  IN  amazon :> {<<>>, <<whole(x), whole(x)>>, <<whole(x), whole(y)>>}
      @@ aliexpress :> {none, [none EXCEPT !.init = <<whole(x)>>],
                        [none EXCEPT !.run = <<whole(x)>>, !.dom = <<whole(x), whole(y)>>]}
=============================================================================
