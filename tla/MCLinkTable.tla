----------------------------- MODULE MCLinkTable -----------------------------
(* The instance of LinkTable that TLC checks: writers of links, writers and   *)
(* readers of clicks, and a reader that pages through the links.              *)
EXTENDS LinkTable

MCScenarios ==
    {[may |-> {"create", "delete", "write", "click"}, codes |-> {1, 2}, links |-> 2, clicks |-> 1],
     [may |-> {"create", "click", "write stats", "list stats"}, codes |-> {1, 2}, links |-> 2, clicks |-> 2],
     [may |-> {"create", "delete", "list"}, codes |-> {1, 2, 3}, links |-> 3, clicks |-> 0]}

MCFilters == {<< >>, (<<"target_url", "eq">> :> 1)}

MCSorts == {<< >>,
            << <<"id", "ASC">> >>,
            << <<"id", "DESC">> >>,
            << <<"target_url", "DESC">>, <<"short_code", "ASC">> >>,
            << <<"short_code", "ASC">>, <<"target_url", "ASC">> >>,
            << <<"short_code", "DESC">>, <<"redirect_elapsed_ms", "ASC">> >>}

Symmetry == Permutations(Clients)
=============================================================================
