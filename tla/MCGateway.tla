------------------------------ MODULE MCGateway ------------------------------
(* An instance of Gateway for TLC: a bootstrap key whose secret, in one of the *)
(* two environments, has a dot in it; a key id without a dot and one with.     *)
EXTENDS Gateway

MCBootstrap == <<"boot">>
MCKeys == {MCBootstrap, <<"ops">>, <<"ops", "eu">>}
MCScripts == {"script"}
MCParts == {"boot", "ops", "eu", "env", "dev"} \cup MCScripts
EnvSecrets == {<<"env">>, <<"env", "dev">>}
MCSecrets == EnvSecrets \cup {<<p>> : p \in MCScripts}
MCGrants == {"admin", "writer", "reader"}

Seed(key, secret, grant) == [key |-> key, secret |-> secret, grant |-> grant]

\* The environment may change between starts: the secret, or the scopes alone.
MCSeeds ==
    [p \in {"api"} \cup MCScripts |->
       IF p = "api"
       THEN {Seed(MCBootstrap, <<"env">>, "admin"), Seed(MCBootstrap, <<"env", "dev">>, "admin"),
             Seed(MCBootstrap, <<"env">>, "reader")}
       ELSE {Seed(k, <<p>>, "writer") : k \in MCKeys}]

MCUploads ==
    {[blocks |-> n, type |-> "supported", metadata |-> "valid", force |-> f] :
       n \in 0 .. MaxBlocks + 1, f \in BOOLEAN}
    \cup {[blocks |-> 1, type |-> t, metadata |-> "valid", force |-> FALSE] :
            t \in {"unsupported", "invalid"}}
    \cup {[blocks |-> 1, type |-> "supported", metadata |-> m, force |-> FALSE] :
            m \in {"malformed", "invalid"}}

MCCanWrite == {"admin", "writer"}
MCCanForce == {"admin"}
=============================================================================
