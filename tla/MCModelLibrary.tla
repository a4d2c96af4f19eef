--------------------------- MODULE MCModelLibrary ---------------------------
(* An instance of ModelLibrary for TLC.                                    *)
EXTENDS ModelLibrary

Data == <<"data">>
MCModelDir == <<"data", "m">>
MCPlainDirs == {Data, <<"data2">>, <<"etc">>}
MCLinks == (<<"data", "link">> :> <<"etc">>) @@ (<<"srv">> :> MCModelDir)
MCServerDirs == {Data, MCModelDir, <<"data2">>, <<"etc">>, <<"srv">>}

Own == [tenant |-> "t1", admin |-> FALSE]
Other == [tenant |-> "t2", admin |-> FALSE]
Admin == [tenant |-> "t2", admin |-> TRUE]
MCUsers == {Own, Other, Admin}

Rel(p) == [abs |-> FALSE, path |-> p]
Header(ts) == [valid |-> TRUE, arch |-> "llama", ctxFor |-> "llama", tensors |-> ts]
Plain(files) == [files |-> files, linked |-> {}, broken |-> FALSE, sounds |-> {}, classifier |-> FALSE, maxpos |-> "number",
                 headers |-> [n \in GgufNames |-> Header(<<"q4_k">>)]]
DefaultAgent == [enabled |-> TRUE, runtimeAdd |-> TRUE, roots |-> {}, denied |-> {}, follow |-> FALSE, max |-> 2]

Base == [ops |-> {}, users |-> {Own}, dirs |-> "one file", agents |-> {DefaultAgent},
         paths |-> {}, rels |-> {}, statuses |-> {"verified"}, matches |-> {"exact_match"}, bodies |-> {},
         patches |-> {}, moves |-> {}, known |-> {Data}, rows |-> 5, slots |-> 1, dbErrors |-> FALSE]

(* What a scan says of every directory with up to three names in it, and   *)
(* of GGUF files with up to five tensors, and what becomes of it.          *)
Small == {{}} \cup {{m, n} : m, n \in FileNames} \cup {{m, n, "config.json"} : m, n \in FileNames}
Sounds == {{}} \cup {{f} : f \in Families} \cup {{"embedding", "reranker"}, {"embedding", "ms-marco"}}
TensorLists == UNION {[1..n -> {"f16", "q4_k", "q8_0", "bf16"}] : n \in 0..5}
Scanned ==
    {[Plain(S) EXCEPT !.sounds = f, !.broken = b, !.classifier = k] :
        S \in Small, f \in Sounds, b \in BOOLEAN, k \in BOOLEAN}
    \cup {[Plain({"a.gguf"}) EXCEPT !.headers["a.gguf"] = Header(ts)] : ts \in TensorLists}
    \cup {[Plain({"b-q8_0.gguf"}) EXCEPT !.headers = [n \in GgufNames |->
             [valid |-> v, arch |-> a, ctxFor |-> "llama", tensors |-> <<>>]]] : v \in BOOLEAN, a \in {"", "llama"}}
Scanning == [Base EXCEPT !.ops = {"scan"}, !.dirs = "all", !.rels = {Rel(<<"m">>)}]

(* From the scan to the instance, for a directory of each kind.            *)
Kinds == {Plain({"config.json", "adapter_config.json"}), Plain({"model_index.json"}), Plain({"a.gguf", "a.onnx"}),
          [Plain({"a.gguf", "config.json"}) EXCEPT !.linked = {"a.gguf"}],
          [Plain({"config.json"}) EXCEPT !.sounds = {"vision"}],
          [Plain({"config.json"}) EXCEPT !.sounds = {"asr", "embedding"}]}
Wizard == [Base EXCEPT !.ops = {"scan", "wizard", "root-patch", "location-patch", "location-delete", "deploy", "start"},
                       !.dirs = "kinds",
                       !.rels = {Rel(<<"m">>), Rel(<<"m", "a.gguf">>)}, !.known = {Data, <<"srv">>},
                       !.moves = {[match |-> "mismatch"]}, !.slots = 2]

(* The agent's checks, for several configurations, roots and paths.        *)
Browsing == [Base EXCEPT !.ops = {"scan", "browse", "root-patch"}, !.dirs = "three files",
                         !.known = {Data, <<"srv">>},
                         !.rels = {Rel(<<>>), Rel(<<"m">>), Rel(<<"link">>), Rel(<<"..", "etc">>), Rel(<<"m", "..", "m">>),
                                   [abs |-> TRUE, path |-> <<"etc">>]},
                         !.agents = {[enabled |-> e, runtimeAdd |-> a, roots |-> rs, denied |-> ds, follow |-> f, max |-> 2] :
                                        e \in BOOLEAN, a \in BOOLEAN, rs \in {{}, {Data}}, ds \in {{}, {<<"srv">>}}, f \in BOOLEAN}]

(* Roots that come and go while locations are added.                       *)
RootsAndLocations ==
    [Base EXCEPT !.ops = {"root-add", "root-patch", "root-delete", "discover", "location-create"},
                 !.paths = {MCModelDir, <<"etc">>, <<"data", "m", "..", "..", "data2">>, <<"data2">>},
                 !.rels = {Rel(<<>>), Rel(<<"m", "a.gguf">>), Rel(<<"m", "..", "..", "data2">>)},
                 !.statuses = {"verified", "warning"}]

(* A model is changed, deployed and deleted.                               *)
Patches == {[format |-> "gguf"], [format |-> "custom"], [path |-> <<"data", "m">>], [path |-> <<"data", "m", "a.gguf">>],
            [caps |-> {"chat"}], [caps |-> {"asr"}], [params |-> "some"], [mode |-> "voice"], [task |-> "asr"],
            [path |-> <<"7">>, raw |-> {"path"}], [format |-> "custom", raw |-> {"format"}],
            [sources |-> [chat |-> "scan"]], [caps |-> {"embedding"}, params |-> "other"]}
Changing ==
    [Base EXCEPT !.ops = {"artifact-create", "artifact-patch", "artifact-delete"},
                 !.paths = {MCModelDir, <<"data", "m", "a.gguf">>}, !.patches = Patches, !.rows = 2]
Deploying ==
    [Base EXCEPT !.ops = {"discover", "artifact-delete", "location-create", "location-patch", "location-delete",
                          "attest", "rescan", "deploy", "deploy-patch", "deploy-delete", "start"},
                 !.rels = {Rel(<<"m", "a.gguf">>)}, !.statuses = {"verified", "failed"},
                 !.moves = {[status |-> "failed"], [abs |-> <<"data2">>, root |-> <<"data2">>], [disabled |-> TRUE],
                            [match |-> "mismatch"]}]

(* Discovery of what no scan has found, and counts that fail.              *)
Unscanned ==
    [Base EXCEPT !.ops = {"discover", "artifact-patch", "location-create", "location-delete", "root-delete", "deploy", "start"},
                 !.bodies = {[path |-> MCModelDir, format |-> "gguf", task |-> "asr", caps |-> {}, type |-> "directory"]},
                 !.patches = {[path |-> <<"data", "m">>], [format |-> "gguf"]}, !.matches = {"exact_match", "mismatch"},
                 !.rels = {Rel(<<"m", "a.gguf">>)}, !.rows = 4, !.dbErrors = TRUE]

(* Users of two tenants and an administrator; the node changes its tenant. *)
Tenants ==
    [Base EXCEPT !.ops = Ops \ {"scan", "browse", "wizard", "rescan", "root-patch", "transfer"}, !.users = MCUsers,
                 !.paths = {<<"data2">>}, !.rels = {Rel(<<"m", "a.gguf">>)}, !.patches = {[params |-> "some"]},
                 !.moves = {[status |-> "failed"]}, !.rows = 4]
Transferring ==
    [Base EXCEPT !.ops = {"root-add", "root-patch", "root-delete", "transfer", "browse"}, !.users = MCUsers,
                 !.paths = {Data, <<"data2">>}, !.rels = {Rel(<<>>)}, !.rows = 2]

(* Two requests at a time: models, locations, deployments and roots are    *)
(* deleted while others refer to them.                                     *)
Racing ==
    [Base EXCEPT !.ops = {"discover", "artifact-delete", "artifact-patch", "location-create", "location-delete",
                          "attest", "root-add", "root-delete", "deploy", "deploy-patch", "deploy-delete", "start"},
                 !.paths = {Data}, !.rels = {Rel(<<"m", "a.gguf">>), Rel(<<>>)}, !.patches = {[caps |-> {"chat"}]},
                 !.rows = 4, !.slots = 2]
RacingTransfer == [Transferring EXCEPT !.users = {Own, Other}, !.slots = 2]

MCDirsOf(which) ==
    CASE which = "all" -> Scanned [] which = "kinds" -> Kinds [] which = "one file" -> {Plain({"a.gguf"})}
      [] which = "three files" -> {Plain({"a.gguf", "config.json", "a.onnx"})}

MCWorkloads == {Scanning, Wizard, Browsing, RootsAndLocations, Changing, Deploying, Unscanned,
                Tenants, Transferring, Racing, RacingTransfer}
Symmetry == Permutations(Requests)
=============================================================================
