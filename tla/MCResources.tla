---------------------------- MODULE MCResources ----------------------------
EXTENDS Resources
MCFiles == { << "default_shader", "vert" >>, << "default_shader", "frag" >>, << "default_shader" >> }
=============================================================================
