----------------------------- MODULE MCGrpcServer -----------------------------
EXTENDS GrpcServer, TLC

\* A method descriptor: requestStream is undefined, false or true.
Method(req, resp, path) ==
    [requestStream |-> req, responseStream |-> resp, pathService |-> path]

Service(ms) == [kind |-> "service", children |-> ms]

\* Package shop: service Cart, a message, a nested namespace with service
\* Users, and a node whose service attribute is false.
MCRoot ==
    "shop" :> [kind |-> "namespace", children |->
        ("Cart" :> Service(
            ("Add"    :> Method("false", FALSE, <<"shop", "Cart">>)) @@
            ("Watch"  :> Method("undefined", TRUE, <<"shop", "Cart">>)) @@
            ("Upload" :> Method("true", FALSE, <<"shop", "Cart">>)) @@
            ("Sync"   :> Method("true", TRUE, <<"shop", "Cart">>))))
        @@ ("Item" :> [kind |-> "message", children |-> <<>>])
        @@ ("admin" :> [kind |-> "namespace", children |->
               "Users" :> Service("List" :> Method("false", TRUE, <<"shop", "admin", "Users">>))])
        @@ ("legacy" :> [kind |-> "disabled", children |-> <<>>])]

\* Handlers under short names, under qualified names only, and of a shape
\* the method does not have.
MCHandlers ==
    { CreatePattern(<<"Cart">>, "Add", NO_STREAMING),
      CreatePattern(<<"Cart">>, "Watch", NO_STREAMING),
      CreatePattern(<<"shop", "Cart">>, "Upload", PT_STREAMING),
      CreatePattern(<<"Cart">>, "Sync", PT_STREAMING),
      CreatePattern(<<"shop", "Cart">>, "Sync", RX_STREAMING),
      CreatePattern(<<"admin", "Users">>, "List", RX_STREAMING) }

MCPackageOptions == {<<"shop">>, <<"shop", "missing">>, <<"missing", "shop">>}
MCSourceOptions == {"protoPath", "both"}
================================================================================
