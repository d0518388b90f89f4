----------------------------- MODULE ConvertManager ----------------------------
(***************************************************************************)
(* convert/convert_manager.c: the converters between pixel formats, and    *)
(* the lookup of one for a camera format and a wanted format.              *)
(***************************************************************************)
EXTENDS ListCore

\* convert_init: mjpeg_register, yuyv_register, yuyv_new_register.
convert_init ==
  list_add("yuyv2jpg", list_add("yuyv2rgb", list_add("mjpeg2rgb", INIT_LIST_HEAD)))

Rgb == {"RGB565", "RGB32"}

\* The pairs for which the converter's is_support answers 1.
is_support(converter) ==
  CASE converter = "mjpeg2rgb" -> {"MJPEG"} \X Rgb
    [] converter = "yuyv2rgb"  -> {"YUYV"} \X Rgb
    [] converter = "yuyv2jpg"  -> {<<"YUYV", "JPEG">>}

\* The first entry of the list that supports the pair.
get_convert_formats(list, in, out) ==
  LET supports(i) == <<in, out>> \in is_support(list[i])
  IN  IF \E i \in DOMAIN list : supports(i)
      THEN list[CHOOSE i \in DOMAIN list :
                  supports(i) /\ \A j \in 1..(i - 1) : ~supports(j)]
      ELSE NULL

=============================================================================
