------------------------------ MODULE MCRunPlan ------------------------------
(* An instance of RunPlan for TLC.                                         *)
EXTENDS RunPlan

\* the strings of the instances
MCDashed == {"--host", "--port", "--max-model-len", "--context-length", "--ctx-size",
             "--served-model-name", "--model"}
MCEqForms == [x \in {} |-> <<"", "">>]
MCTemplates == {"{{MODEL_CONTAINER_PATH}}"}
MCWords == [x \in {"--max-model-len 2"} |-> <<"--max-model-len", "2">>]

\* two permutations that reverse each other put every two items in both orders
OneOrder == <<"service.listen_host", "model_runtime.host", "service.container_port",
              "model_runtime.max_model_len", "deployment.served_model_name",
              "backend.extra_args", "launcher.command", "runtime.env">>

MCGpus == {"gpu-a", "gpu-b"}
MCIndex == [g \in MCGpus |-> IF g = "gpu-a" THEN "0" ELSE "1"]

Item(on, v) == [enabled |-> on, value |-> v]
BaseItems ==
  [c \in Codes |->
     CASE c = "service.listen_host" -> Item(TRUE, "0.0.0.0")
       [] c = "service.container_port" -> Item(TRUE, "8")
       [] OTHER -> Item(FALSE, "")]
With(items, c, it) == [items EXCEPT ![c] = it]
Config(items, command) ==
  [items |-> items, command |-> command, env |-> [x \in {} |-> ""], image |-> "image",
   kind |-> "docker", ports |-> None, devices |-> None]

Plain == Config(BaseItems, <<>>)
\* the command gives a flag of an item, twice
Command == Config(With(BaseItems, "model_runtime.max_model_len", Item(TRUE, "4")),
                  <<"--model", "{{MODEL_CONTAINER_PATH}}", "--max-model-len", "2",
                    "--max-model-len", "3", "--port", "9">>)
\* two items of one flag
Hosts == Config(With(BaseItems, "model_runtime.host", Item(TRUE, "127.0.0.1")), <<>>)
Device == [Plain EXCEPT !.env = [x \in {"CUDA_VISIBLE_DEVICES"} |-> "0"]]
MCBackend == [formats |-> {"safetensors"}, paths |-> {"directory"}, tasks |-> {"chat"}, blocked |-> {"old"}]
Model == [format |-> "safetensors", deployable |-> TRUE, path |-> "directory", arch |-> "new",
          task |-> "chat", root |-> "m", over |-> "9"]

Image(sh, st, here) == [shape |-> sh, starts |-> st, present |-> here]
Service(h, c, a, p, s) == [host |-> h, container |-> c, app |-> a, health |-> p, served |-> s]
Placement(ids, b) == [ids |-> ids, binding |-> b]

\* Every kind of configuration and request body, two edits and a start.
Starting ==
  [family |-> "vllm", vendor |-> "nvidia", gpus |-> MCGpus,
   models |-> {Model},
   images |-> {Image("empty", FALSE, TRUE)},
   runtimes |-> {Plain, Command, Hosts, Device},
   bodies |-> [service : {None, Service(7, 6, 0, 9, "name"), Service(7, 0, 5, 0, "")},
               placement : {None, Placement(<<>>, "off"), Placement(<<"gpu-b">>, "on")}],
   orders |-> {OneOrder}, edits |-> 2, starts |-> 1]

\* Models and runtimes that a start refuses.
Refusing ==
  [Starting EXCEPT !.models = {Model, [Model EXCEPT !.format = "gguf"], [Model EXCEPT !.root = ".."]},
                   !.runtimes = {Plain, [Plain EXCEPT !.kind = "podman"]},
                   !.bodies = [service : {None}, placement : {None}], !.edits = 1]

\* Two starts, with items in both orders and an image that is checked again.
StartingTwice ==
  [family |-> "sglang", vendor |-> "ascend", gpus |-> {"gpu-a"}, models |-> {Model},
   images |-> {Image("server_binary", TRUE, TRUE), Image("empty", FALSE, TRUE),
               Image("unknown", FALSE, FALSE)},
   runtimes |-> {Hosts},
   bodies |-> [service : {None, Service(7, 6, 0, 7, "name")}, placement : {None}],
   orders |-> {OneOrder, Reverse(OneOrder)}, edits |-> 1, starts |-> 2]

MCSites == {Starting, Refusing, StartingTwice}

MCEdits == {<<"model_runtime.max_model_len", TRUE, "4">>, <<"model_runtime.max_model_len", TRUE, "">>,
            <<"service.container_port", TRUE, "3">>}
Devices(on, ids, mode, key) ==
  [enabled |-> on, ids |-> ids, mode |-> mode, vendor |-> "", key |-> key, value |-> ""]
MCDeviceEdits == {Devices(FALSE, <<>>, "disabled", ""), Devices(FALSE, <<>>, "disabled", "VISIBLE"),
                  Devices(TRUE, <<"0">>, "manual", ""), Devices(TRUE, <<>>, "auto", "VISIBLE"),
                  [Devices(TRUE, <<>>, "auto", "") EXCEPT !.vendor = "ascend", !.value = "all"]}
MCPortEdits == {[host |-> 4, container |-> 2, listen |-> "::1"]}
==============================================================================
