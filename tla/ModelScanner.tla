---------------------------- MODULE ModelScanner ----------------------------
(***************************************************************************)
(* What the agent says about a directory or a file that may hold a model:  *)
(* collector/model_scanner.go and gguf_reader.go, without state.           *)
(*                                                                         *)
(* A directory is the set of the names in it, the families of models its   *)
(* path sounds like, what the JSON files say as far as the scanner looks,  *)
(* and the headers of its GGUF files.  A scan returns a set of candidates: *)
(* two candidates always differ in path, format or task.                   *)
(***************************************************************************)
EXTENDS Integers, Sequences, FiniteSets, SequencesExt

-----------------------------------------------------------------------------
(* Files, by the patterns the scanner looks for. *)

GgufNames == {"a.gguf", "b-q8_0.gguf"}
OnnxNames == {"a.onnx", "b.onnx"}
EngineNames == {"m.engine"}
SafetensorNames == {"w.safetensors", "adapter_model.safetensors"}
XmlNames == {"m.xml"}
BinNames == {"m.bin", "pytorch_model.bin"}
\* The files that are parsed, and count only when they parse.
ParsedNames == {"config.json", "sentence_bert_config.json", "adapter_config.json", "model_index.json"}
OtherNames == {"tokenizer_config.json", "config_sentence_transformers.json", "modules.json",
               "1_Pooling", "preprocessor_config.json", "image_processor_config.json",
               "unet", "configuration_internvl_chat.py", "configuration_intern_vit.py"}
FileNames == GgufNames \cup OnnxNames \cup EngineNames \cup SafetensorNames \cup XmlNames
             \cup BinNames \cup ParsedNames \cup OtherNames

\* Families of keywords that the detectors look for in the path.
Families == {"embedding", "reranker", "ms-marco", "vision", "asr", "tts"}
FloatTypes == {"f16", "f32"}
QuantizedTypes == {"q4_k", "q8_0", "iq2_s"}
TensorTypes == FloatTypes \cup QuantizedTypes \cup {"bf16"}

HeaderType == [valid: BOOLEAN, arch: STRING, ctxFor: STRING, tensors: Seq(TensorTypes)]
\* linked: the names that are links to files elsewhere.
DirType == [files: SUBSET FileNames, linked: SUBSET FileNames, broken: BOOLEAN, sounds: SUBSET Families,
            classifier: BOOLEAN, maxpos: {"none", "number", "text"}, headers: [GgufNames -> HeaderType]]

\* collectFileFacts: has(n) is one of its Has... flags or glob results.  A
\* parsed file that does not parse is as good as missing.
Has(dir, n) == n \in dir.files /\ (n \in ParsedNames => ~dir.broken)
HasAny(dir, names) == \E n \in names : Has(dir, n)

-----------------------------------------------------------------------------
(* GGUF headers (gguf_reader.go) *)

Canonical == [f16 |-> "F16", f32 |-> "F32", bf16 |-> "BF16", q4_k |-> "Q4_K_M", q8_0 |-> "Q8_0", iq2_s |-> "IQ2_S"]
\* The patterns a file name contains, most specific first.
PatternsIn(n) == IF n = "b-q8_0.gguf" THEN <<"Q8_0">> ELSE <<>>
guessQuantFromFilename(n) == IF PatternsIn(n) = <<>> THEN "unknown" ELSE Head(PatternsIn(n))

CountOf(ts, t) == Cardinality({i \in DOMAIN ts : ts[i] = t})

Dominant_Last(ts) == IF ts = <<>> THEN "" ELSE Last(ts)
\* The type that was the first to reach the highest count.
Dominant(ts) ==
    FoldLeft(LAMBDA s, t : LET n == s.counts[t] + 1 IN
                           [counts |-> [s.counts EXCEPT ![t] = n],
                            top |-> IF n > s.most THEN t ELSE s.top,
                            most |-> IF n > s.most THEN n ELSE s.most],
             [counts |-> [t \in TensorTypes |-> 0], top |-> "", most |-> 0], ts).top

\* detectGGUFQuantization.  With a float type in front, a quantized type with
\* more than a quarter of its count is taken; which one, if several qualify,
\* is up to the order of a Go map: all the answers the scan may give.
detectGGUFQuantization(ts) ==
    LET d == Dominant(ts)
        Quantized == {t \in QuantizedTypes : CountOf(ts, t) > CountOf(ts, d) \div 4} IN
    IF d = "" THEN {"unknown"}
    ELSE IF d \notin FloatTypes THEN {Canonical[d]}
    ELSE IF Quantized = {} THEN {d} ELSE {Canonical[t] : t \in Quantized}

\* readGGUFMeta: the context length is looked up under the architecture.
readGGUFMeta(h) ==
    LET arch == IF h.arch = "" THEN "unknown" ELSE h.arch IN
    [arch |-> arch, ctx |-> h.ctxFor = arch, quants |-> detectGGUFQuantization(h.tensors)]

\* extractGGUFMetadata.  ctx: whether a context length was detected.
extractGGUFMetadata(n, h) ==
    IF ~h.valid THEN [ctx |-> FALSE, quants |-> {guessQuantFromFilename(n)}]
    ELSE LET m == readGGUFMeta(h) IN
         [ctx |-> m.ctx,
          quants |-> {IF q = "unknown" THEN guessQuantFromFilename(n) ELSE q : q \in m.quants}]

NoMetadata == [ctx |-> FALSE, quants |-> {}]
\* extractHFMetadata: max_position_embeddings is a context length if it is a number.
extractHFMetadata(dir) == [ctx |-> Has(dir, "config.json") /\ dir.maxpos = "number", quants |-> {}]

-----------------------------------------------------------------------------
(* Detectors *)

\* A name that sounds like a reranker is not taken for an embedding.
DetectSentenceTransformers(dir) ==
    \/ Has(dir, "modules.json") /\ Has(dir, "1_Pooling")
    \/ Has(dir, "sentence_bert_config.json")
    \/ Has(dir, "config_sentence_transformers.json")
    \/ "embedding" \in dir.sounds /\ "reranker" \notin dir.sounds

DetectReranker(dir) ==
    /\ dir.sounds \cap {"reranker", "ms-marco"} # {}
    /\ HasAny(dir, {"config.json", "pytorch_model.bin"} \cup SafetensorNames)

DetectVisionLanguage(dir) ==
    /\ \/ "vision" \in dir.sounds
       \/ HasAny(dir, {"configuration_internvl_chat.py", "configuration_intern_vit.py",
                       "image_processor_config.json", "preprocessor_config.json"})
    /\ Has(dir, "config.json")

DetectLoRAAdapter(dir) == HasAny(dir, {"adapter_config.json", "adapter_model.safetensors"})
DetectDiffusers(dir) == HasAny(dir, {"model_index.json", "unet"})
DetectASR(dir) == "asr" \in dir.sounds /\ Has(dir, "config.json")
DetectTTS(dir) == "tts" \in dir.sounds /\ Has(dir, "config.json")
DetectClassification(dir) == Has(dir, "config.json") /\ dir.classifier
DetectHuggingFaceChat(dir) == Has(dir, "config.json")
DetectOpenVINO(dir) == HasAny(dir, XmlNames) /\ HasAny(dir, BinNames)
DetectTensorRT(dir) == HasAny(dir, EngineNames)

\* modelTypePlugins: what a detector looks at (the directory, or each file of
\* a kind), the condition, and the metadata of its candidates.
DirectoryPlugins(dir) ==
    LET hf == extractHFMetadata(dir) IN
    {p \in {[id |-> "lora_adapter", found |-> DetectLoRAAdapter(dir), meta |-> NoMetadata],
            [id |-> "sentence_transformers", found |-> DetectSentenceTransformers(dir), meta |-> hf],
            [id |-> "reranker", found |-> DetectReranker(dir), meta |-> hf],
            [id |-> "vision_language", found |-> DetectVisionLanguage(dir), meta |-> hf],
            [id |-> "diffusers", found |-> DetectDiffusers(dir), meta |-> NoMetadata],
            [id |-> "asr", found |-> DetectASR(dir), meta |-> NoMetadata],
            [id |-> "tts", found |-> DetectTTS(dir), meta |-> NoMetadata],
            [id |-> "classification", found |-> DetectClassification(dir), meta |-> NoMetadata],
            [id |-> "hf_chat", found |-> DetectHuggingFaceChat(dir), meta |-> hf],
            [id |-> "openvino", found |-> DetectOpenVINO(dir), meta |-> NoMetadata],
            [id |-> "tensorrt", found |-> DetectTensorRT(dir), meta |-> NoMetadata]} : p.found}

\* The defaults of the plugins, by ID: format, task, capabilities, the test
\* mode, deployable and the backends recommended.  A model is deployable
\* exactly when a backend is recommended for it.
Gpu == {"vllm", "sglang"}
Default(format, task, caps, mode, backends) ==
    [format |-> format, task |-> task, caps |-> caps, mode |-> mode,
     deployable |-> backends # {}, backends |-> backends]
Defaults ==
    [lora_adapter |-> Default("lora_adapter", "adapter", {}, "auto", {}),
     sentence_transformers |-> Default("sentence_transformers", "embedding", {"embedding"}, "embedding", Gpu),
     reranker |-> Default("huggingface", "rerank", {"rerank"}, "rerank", Gpu),
     vision_language |-> Default("huggingface", "vision_chat", {"chat", "vision"}, "chat", Gpu),
     diffusers |-> Default("diffusers", "image_generation", {"image_generation"}, "auto", {}),
     asr |-> Default("huggingface", "asr", {"asr"}, "auto", {}),
     tts |-> Default("huggingface", "tts", {"tts"}, "auto", {}),
     classification |-> Default("huggingface", "classification", {"classification"}, "auto", {}),
     hf_chat |-> Default("huggingface", "chat", {"chat", "completion"}, "chat", Gpu),
     openvino |-> Default("openvino", "unknown", {}, "auto", {}),
     tensorrt |-> Default("tensorrt_engine", "unknown", {}, "auto", {}),
     onnx |-> Default("onnx", "unknown", {}, "auto", {}),
     gguf |-> Default("gguf", "chat", {"chat", "completion"}, "chat", {"llamacpp"})]

\* applyDefaults: no detector sets one of these fields itself.
applyDefaults(path, type, meta, d) ==
    [path |-> path, type |-> type, format |-> d.format, task |-> d.task, caps |-> d.caps,
     mode |-> d.mode, deployable |-> d.deployable, backends |-> d.backends,
     ctx |-> meta.ctx, quants |-> meta.quants, auto |-> FALSE]

-----------------------------------------------------------------------------
(* Scans *)

DetectGGUF(path, dir) ==
    {applyDefaults(Append(path, n), "file", extractGGUFMetadata(n, dir.headers[n]), Defaults.gguf) :
        n \in GgufNames \cap dir.files}
DetectONNX(path, dir) ==
    {applyDefaults(Append(path, n), "file", NoMetadata, Defaults.onnx) : n \in OnnxNames \cap dir.files}

Detected(path, dir) ==
    {applyDefaults(path, "directory", p.meta, Defaults[p.id]) : p \in DirectoryPlugins(dir)}
    \cup DetectGGUF(path, dir) \cup DetectONNX(path, dir)

\* hasSpecificMatch.
Specific(c) ==
    \/ c.format \in {"sentence_transformers", "lora_adapter", "diffusers", "openvino", "tensorrt_engine", "onnx"}
    \/ c.task \in {"rerank", "vision_chat", "image_generation", "asr", "tts", "classification"}

\* The generic chat candidate goes when a specific one is there.
Deduplicated(cs) ==
    IF \E c \in cs : Specific(c) THEN {c \in cs : ~(c.format = "huggingface" /\ c.task = "chat")} ELSE cs

\* A candidate is selected for the user only if it is the only one.
AutoSelected(cs) == IF Cardinality(cs) = 1 THEN {[c EXCEPT !.auto = TRUE] : c \in cs} ELSE cs

\* scanDirectory; nothing found is an error.
scanDirectory(path, dir) == AutoSelected(Deduplicated(Detected(path, dir)))

\* scanSingleFile: a file that is not GGUF is a candidate nothing is known of.
scanSingleFile(path, dir) ==
    LET n == Last(path)
        c == IF n \in GgufNames
             THEN applyDefaults(path, "file", extractGGUFMetadata(n, dir.headers[n]), Defaults.gguf)
             ELSE applyDefaults(path, "file", NoMetadata, Default("custom", "unknown", {}, "", {})) IN
    {[c EXCEPT !.auto = TRUE]}
=============================================================================
