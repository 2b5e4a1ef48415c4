------------------------------- MODULE MCShop -------------------------------
(* Two students, a scarce item and the extra-life item.                    *)
EXTENDS Shop, TLC

CONSTANTS s1, s2, book, life

MCStudents == {s1, s2}
MCItems == {book, life}
MCExtraLife == {life}
MCPrices == (book :> {1, 2}) @@ (life :> {2})
MCLimit == (book :> 1) @@ (life :> Unlimited)
MCLockedFor == {<<s2, life>>}
MCStartCurrency == (s1 :> 4) @@ (s2 :> 2)
MCStartLives == (s1 :> 1) @@ (s2 :> 2)
MCStartStock == (book :> 2) @@ (life :> Unlimited)
=============================================================================
