------------------------------ MODULE MCFrames ------------------------------
EXTENDS FrameStream

MCBerth == [s \in {"a", "b", "c"} |-> IF s = "a" THEN "a1" ELSE IF s = "b" THEN "b1" ELSE "c1"]
MCLaneTo == <<"b", "c", "a">>
MCOrders == <<[from |-> "a", to |-> "c", shared |-> TRUE], [from |-> "b", to |-> "c", shared |-> TRUE],
              [from |-> "a", to |-> "b", shared |-> TRUE]>>
MCPod(id, station) == [id |-> id, class |-> "compact", station |-> station]
MCFleetOf == [own |-> <<MCPod("p", "a")>>, demo |-> <<MCPod("p", "a"), MCPod("q", "c")>>]
MCLanesOf == <<{1, 2, 3}, {1, 2, 3}, {1, 2, 3}>>
MCMarkersOf == <<[order |-> FALSE, incident |-> TRUE, fault |-> TRUE, emergency |-> TRUE],
                 [order |-> FALSE, incident |-> FALSE, fault |-> FALSE, emergency |-> FALSE],
                 [order |-> TRUE, incident |-> TRUE, fault |-> TRUE, emergency |-> FALSE]>>

Ride == {"order", "board", "drive"}
MCRide(orders, bound) == [steps |-> Ride, orders |-> orders, waiting |-> Len(orders), bound |-> bound, drops |-> 0, networks |-> {2},
                          oversize |-> {}, others |-> FALSE, fair |-> FALSE]
MCScenes == {[MCRide(<<1, 2>>, 8) EXCEPT !.oversize = {TRUE}],
             [MCRide(<<1>>, 5) EXCEPT !.steps = @ \cup {"fault"}],
             [MCRide(<<1>>, 5) EXCEPT !.steps = @ \cup {"debris"}],
             [MCRide(<<1, 3>>, 5) EXCEPT !.steps = @ \cup {"emergency"}],
             [MCRide(<<1>>, 3) EXCEPT !.steps = {"project", "controls"}, !.networks = {1, 2, 3}, !.others = TRUE, !.fair = TRUE, !.drops = 1],
             [MCRide(<<1>>, 6) EXCEPT !.steps = Ride \cup {"project"}],
             [MCRide(<<1>>, 3) EXCEPT !.steps = @ \cup {"demo", "restart"}, !.fair = TRUE, !.drops = 1]}
=============================================================================
