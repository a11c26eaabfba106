--------------------------- MODULE MCInferencePlan ---------------------------
(* Small dimensions, all different where they can be, so that no two terms  *)
(* of a sum are equal by chance.                                            *)
EXTENDS InferencePlan

MCText == [num_hidden_layers |-> 5, full_attention_interval |-> 2,
           hidden_size |-> 3, intermediate_size |-> 5, vocab_size |-> 7,
           num_attention_heads |-> 4, num_key_value_heads |-> 2,
           head_dim |-> 2, linear_num_key_heads |-> 1,
           linear_num_value_heads |-> 3, linear_key_head_dim |-> 2,
           linear_value_head_dim |-> 5, linear_conv_kernel_dim |-> 3,
           mtp_num_hidden_layers |-> 1]
=============================================================================
