--------------------------- MODULE MCPeerFactory ---------------------------
(***************************************************************************)
(* Configurations for model checking: none, one or two servers, one of     *)
(* them refused or of the wrong type; each part of the configuration       *)
(* absent, right and wrong.                                                *)
(***************************************************************************)
EXTENDS PeerFactory

MCServers == {<<>>, <<"good">>, <<"refused">>, <<"good", WrongType>>}
MCEncoder == {Absent,
              [hardware |-> "vaapi", high |-> FALSE, software |-> {"H265"}],
              [hardware |-> "mfx", high |-> WrongType, software |-> {}],
              [hardware |-> "", high |-> TRUE, software |-> {"VP8", WrongType}]}
MCDecoder == {Absent, WrongType,
              [hardware |-> "vaapi", high |-> TRUE, software |-> {"VP9"}]}

MCWriters == {<<Absent, Absent>>, <<WrongType, Absent>>, <<"name", WrongType>>}

MCConfiguration ==
    {[servers |-> s, adaptation |-> a, encoder |-> e, decoder |-> d, routes |-> FALSE,
      ndi |-> w[1], preview |-> w[2]] :
        s \in MCServers, a \in {FALSE, WrongType}, e \in MCEncoder, d \in MCDecoder,
        w \in MCWriters}
    \cup {[servers |-> s, adaptation |-> FALSE, encoder |-> Absent, decoder |-> Absent,
           routes |-> r, ndi |-> "name", preview |-> "name"] :
              s \in MCServers, r \in {TRUE, WrongType}}
=============================================================================
