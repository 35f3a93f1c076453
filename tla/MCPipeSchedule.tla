--------------------------- MODULE MCPipeSchedule ---------------------------
(* The schedules of schedule.py for small pipelines: two and three stages, *)
(* one to three micro-batches, one or two generated tokens.                *)
EXTENDS PipeSchedule

\* Every training and inference pipeline of the bounds.
TrainInferConfigs == {"train", "infer"} \X {1, 2, 3} \X {2, 3} \X {1}

\* Generation with at most as many micro-batches as stages.
GenerateConfigs == {c \in {"generate"} \X {1, 2, 3} \X {2, 3} \X {1, 2} : c[2] <= c[3]}

\* Generation with more micro-batches than stages.
GenerateWideConfigs == {<<"generate", 3, 2, 1>>, <<"generate", 3, 2, 2>>}

\* DataParallelSchedule runs on a single stage.
DataParallelConfigs == {"dp"} \X {1, 2, 3} \X {1} \X {1}

PassConfigs == TrainInferConfigs \cup GenerateConfigs \cup DataParallelConfigs

=============================================================================
